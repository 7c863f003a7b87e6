---------------------------- MODULE MbimControl ----------------------------
(***************************************************************************)
(* The control requests of the emulated MBIM function: what io.cpp and      *)
(* WwanVirtualAdapter.cpp decide from a control URB alone, before any list, *)
(* lock or allocation is involved.  Names of requests, handlers and         *)
(* statuses are those of the source.                                        *)
(*                                                                          *)
(* A message lies in the URB's transfer buffer, but the code reads its      *)
(* fields whatever TransferBufferLength is, once the header fits: the       *)
(* length of the URB and the fields of its message are independent here.    *)
(***************************************************************************)
EXTENDS Naturals

Statuses == {"SUCCESS", "INVALID_DEVICE_REQUEST", "INSUFFICIENT_RESOURCES",
             "NOT_IMPLEMENTED", "NOT_A_CONTROL_URB"}

\* sizeof of the wire structures of mbbncm.h, mbbmessages.h and usb.h.
SizeofNtbParameter   == 28
SizeofMessageHeader  == 12
SizeofCommandHeader  == 48
SizeofUlong          == 4
LengthOf             == [OPEN_DONE |-> 16, COMMAND_DONE |-> 116]

CommunicationInterfaceIndex == 0

InRequests  == {"GET_NTB_PARAMETERS", "GET_ENCAPSULATE_RESPONSE"}
OutRequests == {"SEND_ENCAPSULATE_COMMAND", "RESET_FUNCTION",
                "SET_NTB_INPUT_SIZE", "SET_NBT_FORMAT"}

\* The services MbbCommand names; only BASIC_CONNECT has code behind it.
KnownServices == {"BASIC_CONNECT", "SMS", "USSD", "PHONEBOOK", "SAT",
                  "MS_VENDOR_EXTENSION", "AUTH", "DSS", "MULTICARRIER"}

Messages == [type           : {"OPEN", "COMMAND", "other"},
             transactionId  : Nat,
             totalFragments : Nat,
             messageLength  : Nat,
             service        : KnownServices \cup {"other"},
             cid            : {"DEVICE_CAPS", "other"},
             commandType    : {"QUERY", "SET"}]

\* isControl: UdecxUrbRetrieveControlSetupPacket succeeds on the URB;
\* isClass: its setup packet is of type class, recipient interface;
\* word: the first ULONG of the transfer buffer.
ControlUrbs == [isControl : BOOLEAN,
                isClass   : BOOLEAN,
                wIndex    : Nat,
                dir       : {"in", "out"},
                bRequest  : InRequests \cup OutRequests \cup {"other"},
                wValue    : Nat,
                length    : Nat,
                word      : Nat,
                message   : Messages]

Responses == [kind : {"OPEN_DONE", "COMMAND_DONE"}, transactionId : Nat]
-----------------------------------------------------------------------------
(* IoEvtControlUrb: which handler serves the URB.                           *)

Recognized(u) ==
    /\ u.isControl
    /\ u.isClass
    /\ u.wIndex = CommunicationInterfaceIndex
    /\ u.bRequest \in IF u.dir = "in" THEN InRequests ELSE OutRequests

Serves(u, request) == Recognized(u) /\ u.bRequest = request

MutantGetNtbParametersStatus(u) == "SUCCESS"
GetNtbParametersStatus(u) ==
    IF u.length < SizeofNtbParameter THEN "INSUFFICIENT_RESOURCES" ELSE "SUCCESS"

SetNtbInputSizeStatus(u) ==
    IF u.length < SizeofUlong THEN "INVALID_DEVICE_REQUEST" ELSE "SUCCESS"

SetNtbFormatStatus(u) ==
    IF u.wValue > 1 THEN "INVALID_DEVICE_REQUEST" ELSE "SUCCESS"

-----------------------------------------------------------------------------
(* SendEncapsulatedCommand and the handlers of its two message types.       *)

CarriesMessage(u, type) ==
    /\ Serves(u, "SEND_ENCAPSULATE_COMMAND")
    /\ u.wValue = 0
    /\ u.length >= SizeofMessageHeader
    /\ u.message.type = type

\* The status MbbCommand returns.  It drops that of MbbBasicCommand, which
\* drops that of MbbDeviceCaps, which drops that of MbbDeviceResponse.
MbbCommandStatus(m) ==
    IF m.totalFragments # 1 THEN "NOT_IMPLEMENTED"
    ELSE IF \/ m.messageLength < SizeofCommandHeader
            \/ m.service \notin KnownServices
         THEN "INVALID_DEVICE_REQUEST"
         ELSE "SUCCESS"

\* The commands that reach MbbIndicateCommandDone.
IndicatesCommandDone(m) ==
    /\ MbbCommandStatus(m) = "SUCCESS"
    /\ m.service = "BASIC_CONNECT"
    /\ m.cid = "DEVICE_CAPS"
    /\ m.commandType # "SET"
    /\ m.transactionId # 0

\* The URBs that lead to a queued response and to a dequeued one.
Opens(u)    == CarriesMessage(u, "OPEN")
Commands(u) == CarriesMessage(u, "COMMAND") /\ IndicatesCommandDone(u.message)
Fetches(u)  == Serves(u, "GET_ENCAPSULATE_RESPONSE") /\ u.wValue = 0

Done(u) == [kind |-> IF u.message.type = "OPEN" THEN "OPEN_DONE" ELSE "COMMAND_DONE",
            transactionId |-> u.message.transactionId]
=============================================================================
