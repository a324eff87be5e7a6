-------------------------------- MODULE Wire --------------------------------
(***************************************************************************)
(* The receiver of the wire protocol: it looks for the marker of a packet in a  *)
(* stream of bytes, reads the header and the payload with time-outs, and has    *)
(* the message processed or reports it as bad.  The line loses and changes      *)
(* bytes, and loses replies; the host repeats a request that is not answered.   *)
(*                                                                          *)
(* The host is not part of the repository.  One request stands for all: what    *)
(* matters here is which bytes of it the receiver takes for what.             *)
(***************************************************************************)
EXTENDS Integers, Sequences, SequencesExt, FiniteSetsExt

CONSTANTS
    Marker,          \* MARKER_PACKET_V1, "Used to identify the start of a packet."
    DebuggerMarker,  \* MARKER_DEBUGGER_V1, taken for a start too
    HeaderRest,      \* the rest of the header; its last byte stands for m_size
    Payload,         \* the payload of the request
    SizeOf,          \* the m_size that a byte in its place stands for
    Noise,           \* what a changed byte becomes
    MaxPacket,       \* WP_PACKET_SIZE
    HeaderTimeout, PayloadTimeout,
    RetryAfter,      \* how long the host waits for an answer
    MaxFaults,       \* bound on the faults of the line
    MaxLine,         \* bound on the bytes under way
    Slow             \* whether the line may pause within a packet

Header == Marker \o HeaderRest
Bytes == ToSet(Header) \cup ToSet(Payload) \cup {Noise}

WireAssumption ==
    /\ Len(Marker) > 0 /\ Len(HeaderRest) > 0 /\ Len(DebuggerMarker) = Len(Marker)
    /\ SizeOf \in [Bytes -> Nat] /\ SizeOf[Last(Header)] = Len(Payload)
    /\ {MaxPacket, HeaderTimeout, PayloadTimeout, RetryAfter} \subseteq Nat \ {0}
    /\ {MaxFaults, MaxLine} \subseteq Nat /\ Slow \in BOOLEAN

VARIABLES
    crc,      \* CONFIG_NF_WP_ENABLE_CRC32, an option of the build
    line,     \* the bytes on their way to the device
    rxState,  \* _rxState
    header,   \* the bytes of the header so far: _size of them are missing
    payload,  \* the bytes of the payload so far
    expiry,   \* ticks left to _receiveExpiryTicks
    host,     \* "idle", or "waiting" for the answer
    timer,    \* ticks left until the host repeats the request
    faults,   \* the number of faults so far
    clean     \* history: the receiver was ready for this try and nothing happened to it

receiver == <<rxState, header, payload, expiry>>
sender == <<host, timer, clean>>
vars == <<crc, line, receiver, sender, faults>>

States == {"Initialize", "WaitingForHeader", "ReadingHeader", "CompleteHeader",
           "ReadingPayload", "CompletePayload"}

TypeOK ==
    /\ crc \in BOOLEAN
    /\ line \in Seq(Bytes) /\ Len(line) =< MaxLine
    /\ rxState \in States
    /\ header \in Seq(Bytes) /\ Len(header) =< Len(Header)
    /\ payload \in Seq(Bytes) /\ Len(payload) =< MaxPacket
    /\ expiry \in 0 .. Max({HeaderTimeout, PayloadTimeout})
    /\ host \in {"idle", "waiting"} /\ timer \in 0 .. RetryAfter
    /\ faults \in 0 .. MaxFaults /\ clean \in BOOLEAN

Init ==
    /\ crc \in BOOLEAN
    /\ line = <<>> /\ rxState = "Initialize" /\ header = <<>> /\ payload = <<>> /\ expiry = 0
    /\ host = "idle" /\ timer = 0 /\ faults = 0 /\ clean = FALSE

-----------------------------------------------------------------------------
(* The host and the line.                                                    *)
Ready ==
    /\ line = <<>>
    /\ rxState = "Initialize" \/ (rxState = "WaitingForHeader" /\ header = <<>>)

\* The request, or its repetition.
Request ==
    /\ host = "idle" \/ timer = 0
    /\ Len(line) + Len(Header) + Len(Payload) =< MaxLine
    /\ line' = line \o Header \o Payload
    /\ host' = "waiting" /\ timer' = RetryAfter /\ clean' = Ready
    /\ UNCHANGED <<crc, receiver, faults>>

Fault ==
    /\ faults < MaxFaults
    /\ \E i \in DOMAIN line : line' \in {RemoveAt(line, i), [line EXCEPT ![i] = Noise]}
    /\ faults' = faults + 1 /\ clean' = FALSE
    /\ UNCHANGED <<crc, receiver, host, timer>>

\* Time passes when the receiver has nothing to read, or the line is slow.
Decremented(n) == IF n > 0 THEN n - 1 ELSE 0

Tick ==
    /\ rxState \in {"WaitingForHeader", "ReadingHeader", "ReadingPayload"} /\ expiry > 0
    /\ ~Slow => line = <<>>
    /\ expiry' = expiry - 1
    /\ timer' = Decremented(timer)
    /\ UNCHANGED <<crc, line, rxState, header, payload, host, faults, clean>>

-----------------------------------------------------------------------------
(* WP_Message_Process, one pass of its loop in each action.                   *)
CheckTimeout == expiry > 0

RestartStateMachine == rxState' = "Initialize" /\ UNCHANGED <<header, payload, expiry>>

Initialize ==
    /\ rxState = "Initialize"
    /\ rxState' = "WaitingForHeader" /\ header' = <<>> /\ payload' = <<>>
    /\ expiry' = HeaderTimeout
    /\ UNCHANGED <<crc, line, sender, faults>>

\* WP_ReceiveBytes: at most `room` of the bytes that have come, at least one if there are any.
Received(room) == LET n == Min({room, Len(line)}) IN {n} \cup 1 .. n

Taken(n) == SubSeq(line, 1, n)
Read(n) == line' = SubSeq(line, n + 1, Len(line))

Missing == Len(Header) - Len(header)

\* IsMarkerMatched with either marker, for the bytes of it there are.
Matches(bytes) ==
    LET n == Min({Len(bytes), Len(Marker)})
    IN  \E marker \in {DebuggerMarker, Marker} : SubSeq(bytes, 1, n) = SubSeq(marker, 1, n)

\* SyncToMessageStart drops bytes from the front until the rest may be the start of a packet;
\* an empty result is its failure.
SyncToMessageStart(bytes) ==
    LET starts == {i \in 1 .. Len(bytes) : Matches(SubSeq(bytes, i, Len(bytes)))}
    IN  IF starts = {} THEN <<>> ELSE SubSeq(bytes, Min(starts), Len(bytes))

\* Variant: the time-out of the wait goes on for the header.
StillWaiting == expiry

Rearmed == HeaderTimeout

WaitingForHeader ==
    /\ rxState = "WaitingForHeader"
    /\ \E n \in Received(Missing) :
         LET synced == SyncToMessageStart(header \o Taken(n))
         IN  /\ Read(n)
             /\ IF n = 0
                THEN ~CheckTimeout /\ RestartStateMachine
                ELSE IF synced = <<>>
                THEN RestartStateMachine
                ELSE /\ header' = synced
                     /\ IF Missing >= Len(Marker)
                        THEN rxState' = "ReadingHeader" /\ expiry' = Rearmed
                        ELSE UNCHANGED <<rxState, expiry>>
                     /\ UNCHANGED payload
    /\ UNCHANGED <<crc, sender, faults>>

\* Variant: a time-out of the header is not looked at once bytes have come.
WaitsForEver == CheckTimeout \/ header # <<>>

InTime == CheckTimeout

ReadingHeader ==
    /\ rxState = "ReadingHeader"
    /\ IF InTime
       THEN \E n \in Received(Missing) :
              /\ Read(n)
              /\ header' = header \o Taken(n)
              /\ rxState' = IF n = Missing THEN "CompleteHeader" ELSE rxState
              /\ UNCHANGED <<payload, expiry>>
       ELSE RestartStateMachine /\ UNCHANGED line
    /\ UNCHANGED <<crc, sender, faults>>

Size == SizeOf[Last(header)]

\* An ideal CRC: it tells every other header and payload from the one that was sent.
VerifyHeader == (crc => header = Header) /\ Size =< MaxPacket
VerifyPayload == crc => payload = Payload

CompleteHeader ==
    /\ rxState = "CompleteHeader"
    /\ IF VerifyHeader
       THEN /\ rxState' = IF Size = 0 THEN "CompletePayload" ELSE "ReadingPayload"
            /\ expiry' = IF Size = 0 THEN expiry ELSE PayloadTimeout
            /\ UNCHANGED <<header, payload>>
       ELSE RestartStateMachine
    /\ UNCHANGED <<crc, line, sender, faults>>

ReadingPayload ==
    /\ rxState = "ReadingPayload"
    /\ IF InTime
       THEN \E n \in Received(Size - Len(payload)) :
              /\ Read(n)
              /\ payload' = payload \o Taken(n)
              /\ rxState' = IF Len(payload') = Size THEN "CompletePayload" ELSE rxState
              /\ UNCHANGED <<header, expiry>>
       ELSE RestartStateMachine /\ UNCHANGED line
    /\ UNCHANGED <<crc, sender, faults>>

\* The message is processed, or reported as bad.  The host takes the reply to its own header
\* for the answer; the reply may be lost.
CompletePayload ==
    /\ rxState = "CompletePayload"
    /\ RestartStateMachine
    /\ \/ VerifyPayload /\ header = Header
          /\ host' = "idle" /\ timer' = 0 /\ UNCHANGED <<clean, faults>>
       \/ VerifyPayload /\ header = Header /\ faults < MaxFaults
          /\ faults' = faults + 1 /\ clean' = FALSE /\ UNCHANGED <<host, timer>>
       \/ ~(VerifyPayload /\ header = Header) /\ UNCHANGED <<sender, faults>>
    /\ UNCHANGED <<crc, line>>

-----------------------------------------------------------------------------
Process ==
    \/ Initialize \/ WaitingForHeader \/ ReadingHeader \/ CompleteHeader
    \/ ReadingPayload \/ CompletePayload

Next == Request \/ Fault \/ Tick \/ Process

\* The receiver thread loops for ever, time passes, and a host that waits repeats.
Fairness == WF_vars(Process) /\ WF_vars(Tick) /\ WF_vars(host = "waiting" /\ Request)

Spec == Init /\ [][Next]_vars /\ Fairness

-----------------------------------------------------------------------------
(* Properties.                                                               *)

\* A host that repeats its request is answered in the end, whatever the line has lost or
\* changed before: no garbage leaves the receiver deaf, with the CRC or without it
\* (WP_Message_Process, SyncToMessageStart, the time-outs).
Answered == host = "waiting" ~> host = "idle"

\* A request that reaches a ready receiver unharmed is answered at the first try: in however
\* many pieces the bytes come and whenever the time-out of the wait for a header falls, the
\* host need not repeat it; and no buffer is overrun.
FirstTry == []TypeOK /\ [][Request /\ host = "waiting" => ~clean]_vars

\* A payload is given up only if no byte came for the whole of the time-out: "If the time
\* between consecutive payload bytes exceeds the timeout threshold ..." (WireProtocol_Message.c).
GapOnly == [][rxState = "ReadingPayload" /\ rxState' = "Initialize" => line = <<>>]_vars

\* The header that is accepted starts with the marker (VerifyHeader, without the CRC).
MarkedOnly == rxState \in {"ReadingPayload", "CompletePayload"} => IsPrefix(Marker, header)
=============================================================================
