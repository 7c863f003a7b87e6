------------------------ MODULE MCWwanVirtualAdapter ------------------------
(* Instances of WwanVirtualAdapter for TLC.                                 *)
EXTENDS WwanVirtualAdapter, TLC

\* DEVICE_CAPS query in one fragment, transaction 2.
Query == [type |-> "COMMAND", transactionId |-> 2, totalFragments |-> 1,
          messageLength |-> SizeofCommandHeader, service |-> "BASIC_CONNECT",
          cid |-> "DEVICE_CAPS", commandType |-> "QUERY"]

Send(m) == [isControl |-> TRUE, isClass |-> TRUE, wIndex |-> 0, dir |-> "out",
            bRequest |-> "SEND_ENCAPSULATE_COMMAND", wValue |-> 0,
            length |-> SizeofCommandHeader, word |-> 0, message |-> m]

Class(dir, r, v, n) == [Send(Query) EXCEPT !.dir = dir, !.bRequest = r,
                                           !.wValue = v, !.length = n]

Open == Send([Query EXCEPT !.type = "OPEN", !.transactionId = 1])
Get(n) == Class("in", "GET_ENCAPSULATE_RESPONSE", 0, n)

\* The requests of an MBIM session; 116 bytes hold any response, 16 bytes only
\* an OPEN_DONE.
SessionRequests == {Open, Send(Query), Get(116), Get(16)}

\* One URB at least on each side of every test of IoEvtControlUrb and of the
\* handlers.
AllRequests ==
    SessionRequests \cup
    {[Send(Query) EXCEPT !.isControl = FALSE],
     [Send(Query) EXCEPT !.isClass = FALSE],
     [Send(Query) EXCEPT !.wIndex = 1],
     [Send(Query) EXCEPT !.dir = "in"],
     [Send(Query) EXCEPT !.length = SizeofMessageHeader - 1],
     [Send(Query) EXCEPT !.wValue = 1],
     Send([Query EXCEPT !.type = "other"]),
     Send([Query EXCEPT !.totalFragments = 2]),
     Send([Query EXCEPT !.messageLength = SizeofCommandHeader - 1]),
     Send([Query EXCEPT !.service = "SMS"]),
     Send([Query EXCEPT !.service = "other"]),
     Send([Query EXCEPT !.cid = "other"]),
     Send([Query EXCEPT !.commandType = "SET"]),
     Send([Query EXCEPT !.transactionId = 0]),
     Get(115), Get(15), Get(0),
     Class("in", "GET_ENCAPSULATE_RESPONSE", 1, 116),
     Class("in", "GET_NTB_PARAMETERS", 0, SizeofNtbParameter),
     Class("in", "GET_NTB_PARAMETERS", 0, SizeofNtbParameter - 1),
     Class("out", "RESET_FUNCTION", 0, 0),
     Class("out", "SET_NTB_INPUT_SIZE", 0, SizeofUlong - 1),
     [Class("out", "SET_NTB_INPUT_SIZE", 0, SizeofUlong) EXCEPT !.word = 7],
     Class("out", "SET_NBT_FORMAT", 1, 0),
     Class("out", "SET_NBT_FORMAT", 2, 0),
     Class("out", "GET_NTB_PARAMETERS", 0, SizeofNtbParameter)}

ReadySymmetry == Permutations(ReadyThreads)
=============================================================================
