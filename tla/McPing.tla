-------------------------------- MODULE McPing --------------------------------
(***************************************************************************)
(* One Minecraft status ping (internal/minecraft/ping.go) against any      *)
(* server: it may refuse, stay silent, break off, or send any bytes, one   *)
(* at a time.  A byte is [more, bits]: the flag that another one follows,  *)
(* and GroupBits of the number (7 in the code, of IntBits = 32).           *)
(***************************************************************************)
EXTENDS Integers, Sequences, SequencesExt

CONSTANTS
    GroupBits,
    IntBits,
    MaxPacket,   \* 1 MiB in the code
    Timeout      \* in ticks

ASSUME PingAssumption ==
    /\ GroupBits \in Nat \ {0}
    /\ IntBits \in Nat \ {0}
    \* A length is an int32, and positive.
    /\ MaxPacket \in Nat
    /\ MaxPacket < 2 ^ (IntBits - 1)
    /\ Timeout \in Nat

VARIABLES
    pc,
    now,         \* ticks since the call
    deadline,    \* when the operation in progress is cut off
    length,      \* of the packet, once read
    got,         \* bytes read of the part being read
    ioFailed     \* history: an operation of the network failed

timeVars == <<now, deadline>>
dataVars == <<length, got>>
vars == <<pc, timeVars, dataVars, ioFailed>>

Done == {"ok", "failed"}
Byte == [more : BOOLEAN, bits : 0 .. 2 ^ GroupBits - 1]

\* readVarInt gives up at shift >= 32.
MaxBytes == (IntBits + GroupBits - 1) \div GroupBits

TypeOK ==
    /\ pc \in {"dial", "handshake", "request", "length", "body"} \cup Done
    /\ now \in Nat
    /\ deadline \in Nat
    /\ length \in 0 .. MaxPacket
    /\ got \in Seq(Byte)
    /\ Len(got) <= IF pc = "body" THEN length ELSE MaxBytes + MaxPacket
    /\ ioFailed \in BOOLEAN

Init ==
    /\ pc = "dial"
    /\ now = 0
    /\ deadline = Timeout
    /\ length = 0
    /\ got = <<>>
    /\ ioFailed = FALSE

-----------------------------------------------------------------------------
(* VarInts *)

Signed(n) == IF n >= 2 ^ (IntBits - 1) THEN n - 2 ^ IntBits ELSE n

\* Faulty: groups are as far apart as bytes.
ValueShiftsTooFar(bs) ==
    Signed(FoldRight(LAMBDA b, n : (b.bits + 2 * 2 ^ GroupBits * n) % 2 ^ IntBits,
                     bs, 0))

\* Least group first; bits past the width are lost, the topmost is the sign.
Value(bs) ==
    Signed(FoldRight(LAMBDA b, n : (b.bits + 2 ^ GroupBits * n) % 2 ^ IntBits,
                     bs, 0))

\* Number of bytes of the VarInt that bs begins with; 0: its end is missing.
VarIntLen(bs) == SelectInSeq(bs, LAMBDA b : ~b.more)

\* The end of the data, or the end of the width, comes first.
NoVarInt(bs) == VarIntLen(bs) = 0 \/ VarIntLen(bs) > MaxBytes

VarIntOf(bs) == Value(SubSeq(bs, 1, VarIntLen(bs)))
AfterVarInt(bs) == SubSeq(bs, VarIntLen(bs) + 1, Len(bs))

\* writeVarInt, for the values that are not negative.
WriteVarInt(v) ==
    LET groups == CHOOSE k \in 1 .. MaxBytes :
                      /\ v < 2 ^ (GroupBits * k)
                      /\ k > 1 => v >= 2 ^ (GroupBits * (k - 1))
    IN  [i \in 1 .. groups |->
            [more |-> i < groups,
             bits |-> (v \div 2 ^ (GroupBits * (i - 1))) % 2 ^ GroupBits]]

\* A status response: packet 0 with a JSON text.
IsStatusResponse(data) ==
    /\ ~NoVarInt(data)
    /\ VarIntOf(data) = 0
    /\ LET rest == AfterVarInt(data)
       IN  ~NoVarInt(rest) /\ VarIntOf(rest) > 0

-----------------------------------------------------------------------------
(* Time, and failures of the network *)

\* Nothing outlasts the deadline it was given.
Tick ==
    /\ pc \notin Done
    /\ now < deadline
    /\ now' = now + 1
    /\ UNCHANGED <<pc, deadline, dataVars, ioFailed>>

\* Refused, reset, closed or cut off.
IOFails ==
    /\ pc \notin Done
    /\ pc' = "failed"
    /\ ioFailed' = TRUE
    /\ UNCHANGED <<timeVars, dataVars>>

\* Faulty: no deadline is set on the connection.
ExpireWhileDialing == pc = "dial" /\ now = deadline /\ IOFails

Expire == now = deadline /\ IOFails

-----------------------------------------------------------------------------
(* MCPingAddrString and MCPingConn *)

\* The second starts the clock anew.
DialSucceeds ==
    /\ pc = "dial"
    /\ pc' = "handshake"
    /\ deadline' = now + Timeout
    /\ UNCHANGED <<now, dataVars, ioFailed>>

Send ==
    \/ /\ pc = "handshake"
       /\ pc' = "request"
       /\ UNCHANGED <<timeVars, dataVars, ioFailed>>
    \/ /\ pc = "request"
       /\ pc' = "length"
       /\ UNCHANGED <<timeVars, dataVars, ioFailed>>

\* Faulty: any length is taken.
FitsAnyLength(n) == n > 0

\* readPacket: nothing is read of a packet that is too long.
Fits(n) == n \in 1 .. MaxPacket

LengthByte(bytes) ==
    \/ /\ NoVarInt(bytes)
       /\ pc' = IF Len(bytes) < MaxBytes THEN pc ELSE "failed"
       /\ got' = bytes
       /\ UNCHANGED length
    \/ /\ ~NoVarInt(bytes)
       /\ Fits(VarIntOf(bytes))
       /\ pc' = "body"
       /\ length' = VarIntOf(bytes)
       /\ got' = <<>>
    \/ /\ ~NoVarInt(bytes)
       /\ ~Fits(VarIntOf(bytes))
       /\ pc' = "failed"
       /\ got' = bytes
       /\ UNCHANGED length

ReadLength ==
    /\ pc = "length"
    /\ \E b \in Byte : LengthByte(Append(got, b))
    /\ UNCHANGED <<timeVars, ioFailed>>

\* Faulty: every read gets the whole timeout.
ReadBodyProlongs ==
    /\ pc = "body"
    /\ \E b \in Byte : got' = Append(got, b)
    /\ pc' = IF Len(got') < length THEN pc
             ELSE IF IsStatusResponse(got') THEN "ok" ELSE "failed"
    /\ deadline' = now + Timeout
    /\ UNCHANGED <<now, length, ioFailed>>

\* io.ReadFull, and the verdict on the whole packet.
ReadBody ==
    /\ pc = "body"
    /\ \E b \in Byte : got' = Append(got, b)
    /\ pc' = IF Len(got') < length THEN pc
             ELSE IF IsStatusResponse(got') THEN "ok" ELSE "failed"
    /\ UNCHANGED <<timeVars, length, ioFailed>>

-----------------------------------------------------------------------------

\* The callers ping again.
Again ==
    /\ pc \in Done
    /\ pc' = "dial"
    /\ now' = 0
    /\ deadline' = Timeout
    /\ length' = 0
    /\ got' = <<>>
    /\ ioFailed' = FALSE

Next ==
    \/ Tick \/ IOFails
    \/ DialSucceeds \/ Send \/ ReadLength \/ ReadBody
    \/ Again

Spec == Init /\ [][Next]_vars

\* Time passes, and deadlines cut off.  Nothing is assumed of the server.
FairSpec == Spec /\ WF_vars(Tick) /\ WF_vars(Expire)

-----------------------------------------------------------------------------
(* Properties *)

(***************************************************************************)
(* However slowly the server answers, byte by byte, a ping ends within     *)
(* twice its timeout.  (Not within once: MCPingConn sets the deadline      *)
(* again, ping.go:43, where ping.go:19 speaks of a hard timeout.)          *)
(***************************************************************************)
EndsInTime == now <= 2 * Timeout

\* A ping of any server ends: no goroutine of a player or checker hangs.
PingEnds == []<>(pc \in Done)

\* What a server that follows the protocol puts in the packet; a JSON text is
\* not empty.
StatusResponse(json) == WriteVarInt(0) \o WriteVarInt(Len(json)) \o json

(***************************************************************************)
(* Reading inverts writing: a server whose answer is written the way       *)
(* writeVarInt writes, and which the network does not cut short, is never  *)
(* turned down, neither for the packet's length nor for its content.       *)
(***************************************************************************)
HonestAnswerAccepted ==
    pc = "failed" /\ ~ioFailed =>
        /\ length = 0 => \A n \in 1 .. MaxPacket : got # WriteVarInt(n)
        /\ length > 0 =>
               \A k \in 1 .. length - 1 :
                   got # StatusResponse(SubSeq(got, k + 1, length))
=============================================================================
