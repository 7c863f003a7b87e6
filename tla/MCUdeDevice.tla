---------------------------- MODULE MCUdeDevice ----------------------------
(* Instances of UdeDevice for TLC.                                          *)
EXTENDS UdeDevice

Message(type, id) == [type |-> type, transactionId |-> id, totalFragments |-> 1,
                      messageLength |-> SizeofCommandHeader,
                      service |-> "BASIC_CONNECT", cid |-> "DEVICE_CAPS",
                      commandType |-> "QUERY"]

Send(m) == [isControl |-> TRUE, isClass |-> TRUE, wIndex |-> 0, dir |-> "out",
            bRequest |-> "SEND_ENCAPSULATE_COMMAND", wValue |-> 0,
            length |-> SizeofCommandHeader, word |-> 0, message |-> m]

Get(n) == [Send(Message("OPEN", 1)) EXCEPT !.dir = "in",
               !.bRequest = "GET_ENCAPSULATE_RESPONSE", !.length = n]

\* OPEN, a DEVICE_CAPS query and fetches that do and do not hold its answer.
SessionRequests == {Send(Message("OPEN", 1)), Send(Message("COMMAND", 2)),
                    Get(116), Get(16)}
=============================================================================
