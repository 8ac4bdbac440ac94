------------------------------- MODULE Frames --------------------------------
(***************************************************************************)
(* The bytes between a browser and the server: the handshake, then a text  *)
(* frame that handleClient unmasks, and the frames of broadcastMessage     *)
(* that answer it (backend/src/server/WebSocketServer.cpp).  One message   *)
(* on one connection: who sends when is WebSocketServer.tla's.  TCP keeps  *)
(* no frames apart: the recv that the message is decoded from may return a *)
(* part of its frame, or the next frame with it.                           *)
(*                                                                         *)
(* The browser is external and does what RFC 6455, section 5.2, says.  It  *)
(* masks, and writes a length above 125 as 126 and two bytes.  Of a frame  *)
(* whose length byte is 126 or 127 it takes the length from the next two   *)
(* or eight bytes: here they are the beginning of the JSON text, {" being  *)
(* 31522, so it waits for more bytes than all five events have together,   *)
(* and swallows the events that follow.  From 128 on the frame is marked   *)
(* as masked, and the browser fails the connection.                        *)
(* The texts of the events are left out but for their lengths.             *)
(***************************************************************************)
EXTENDS Handshake, SequencesExt

CONSTANTS
  KnownAnswer,  \* a function from some keys to their standard answers
  Messages,     \* what users type, as sequences of bytes
  MaskingKeys,  \* sequences of four bytes
  Segments,     \* the lengths of what recv returns, if not all there is
  IdLength      \* the length of a thread id

(* A text field holds no NUL, and a frame fits into the buffer of recv.    *)
ASSUME TextAssumption ==
  \A m \in Messages : m \in Seq(Byte \ {0}) /\ Len(m) <= 4080

ASSUME MaskAssumption == MaskingKeys \subseteq [1..4 -> Byte]

ASSUME SegmentsAssumption == Segments \subseteq Nat

(* A std::thread::id is written as a 64-bit number in decimal.             *)
ASSUME IdAssumption == IdLength \in 1..20

VARIABLES
  message,  \* what the user typed
  frame,    \* the frame the browser made of it, then what recv returned
  lost,     \* the bytes of the frame that recv did not return
  decoded,  \* decoded_msg without the prefix, and is_rollback
  todo,     \* the broadcasts still to come, as <<event, length>>
  seen,     \* the events the browser has received
  browser   \* it reads frames, waits for the rest of one, or has failed
            \* the connection: "reading", "waiting", "failed"

frVars == <<message, frame, lost, decoded, todo, seen, browser>>
vars == <<hsVars, frVars>>

RollbackPrefix == <<47, 114, 111, 108, 108, 98, 97, 99, 107, 32>>

------------------------------------------------------------------------------
(* The browser masks a text and puts it into a frame. *)
ClientFrame(m, k) ==
  (IF Len(m) <= 125 THEN <<129, 128 + Len(m)>>
   ELSE <<129, 254, Len(m) \div 256, Len(m) % 256>>)
  \o k \o [n \in 1..Len(m) |-> m[n] ^^ k[1 + ((n - 1) % 4)]]

Init ==
  /\ HsInit
  /\ message = <<>> /\ frame = <<>> /\ lost = <<>>
  /\ decoded = [text |-> <<>>, rollback |-> FALSE]
  /\ todo = <<>> /\ seen = <<>> /\ browser = "reading"

(* The browser accepts the answer, and the user types. *)
Type(m, k) ==
  /\ pc = "answered"
  /\ pc' = "typed"
  /\ message' = m
  /\ frame' = ClientFrame(m, k)
  /\ key' = <<>> /\ data' = <<>> /\ h' = <<>> /\ v' = <<>> /\ i' = 0
  /\ UNCHANGED <<w, accept_key, lost, decoded, todo, seen, browser>>

------------------------------------------------------------------------------
(* recv returns what has arrived: the frame, the beginning of it, or with  *)
(* it the frame of an empty message that was sent right after it.          *)
Recv ==
  /\ pc = "typed"
  /\ pc' = "arrived"
  /\ \/ UNCHANGED <<frame, lost>>
     \/ \E n \in Segments :
          /\ n < Len(frame)
          /\ frame' = SubSeq(frame, 1, n)
          /\ lost' = SubSeq(frame, n + 1, Len(frame))
     \/ \E k \in MaskingKeys :
          frame' = frame \o ClientFrame(<<>>, k) /\ UNCHANGED lost
  /\ UNCHANGED <<key, data, i, w, v, h, accept_key, message, decoded, todo, seen,
                 browser>>

(* frame[n] of the code, where the buffer of 4096 bytes was cleared *)
FrameAt(n) == IF n < Len(frame) THEN frame[n + 1] ELSE 0

UnmaskReceived ==  \* mutant: the text is all that was received
  [n \in 1..Max({0, Len(frame) - 6}) |-> FrameAt(5 + n) ^^ FrameAt(2 + ((n - 1) % 4))]

Unmask ==
  [n \in 1..(FrameAt(1) % 128) |-> FrameAt(5 + n) ^^ FrameAt(2 + ((n - 1) % 4))]

StripPrefix(m) ==
  LET is_rollback == IsPrefix(RollbackPrefix, m)
  IN  [text |-> IF is_rollback THEN SubSeq(m, 11, Len(m)) ELSE m,
       rollback |-> is_rollback]

(* The events broadcast for a message of n bytes, with their lengths *)
Events(n, ok) ==
  << <<"begin", 52>>, <<"insert", 55 + n>>,
     IF ok THEN <<"commit", 41>> ELSE <<"rollback", 49>>,
     <<"lock", 80 + IdLength>>, <<"chat", 53 + IdLength + n>> >>

(* handleClient, from a frame to its broadcasts; whether the transaction    *)
(* succeeds is DBConnection.tla's affair.                                  *)
Receive ==
  /\ pc = "arrived"
  /\ pc' = "received"
  /\ decoded' = StripPrefix(Unmask)
  /\ \E ok \in BOOLEAN :
       todo' = Events(Len(decoded'.text), ok /\ ~decoded'.rollback)
  /\ frame' = <<>>
  /\ UNCHANGED <<key, data, i, w, v, h, accept_key, message, lost, seen,
                 browser>>

HeaderInLength(n) ==  \* mutant: the length includes the header
  (n + 2) % 256

(* reply_frame[1] = message.length(), in a char *)
LengthByteOf(n) == n % 256

(* What the browser makes of the frame of an event e with length byte b *)
Read(e, b) ==
  \/ browser # "reading" /\ UNCHANGED <<seen, browser>>
  \/ /\ browser = "reading" /\ b > 125
     /\ browser' = IF b <= 127 THEN "waiting" ELSE "failed"
     /\ UNCHANGED seen
  \/ /\ browser = "reading" /\ b <= 125
     /\ seen' = Append(seen, IF b = e[2] THEN e[1] ELSE "garbled")
     /\ browser' = IF b = e[2] THEN "reading" ELSE "failed"

(* broadcastMessage *)
Broadcast ==
  /\ pc = "received" /\ todo # <<>>
  /\ Read(Head(todo), LengthByteOf(Head(todo)[2]))
  /\ todo' = Tail(todo)
  /\ UNCHANGED <<hsVars, message, frame, lost, decoded>>

Next ==
  \/ HsNext /\ UNCHANGED frVars
  \/ \E m \in Messages, k \in MaskingKeys : Type(m, k)
  \/ Recv
  \/ Receive
  \/ Broadcast

Spec == Init /\ [][Next]_vars

------------------------------------------------------------------------------
Bytes == Seq(Byte)
Words == Seq(Half \X Half)

TypeOK ==
  /\ pc \in {"request", "load", "expand", "round", "encode", "answered",
             "typed", "arrived", "received"}
  /\ key \in Bytes /\ data \in Bytes
  /\ i \in {0, 64, 128}
  /\ w \in Words /\ v \in Words /\ h \in Words
  /\ accept_key \in Seq(0..64)
  /\ message \in Bytes /\ frame \in Bytes /\ lost \in Bytes
  /\ decoded \in [text : Bytes, rollback : BOOLEAN]
  /\ todo \in Seq({"begin", "insert", "commit", "rollback", "lock", "chat"}
                  \X Nat)
  /\ seen \in Seq({"begin", "insert", "commit", "rollback", "lock", "chat",
                   "garbled"})
  /\ browser \in {"reading", "waiting", "failed"}

(***************************************************************************)
(* The handshake's answer is the standard one, for the keys whose answers  *)
(* are known.                                                              *)
(***************************************************************************)
AnswerIsKnown ==
  (pc = "answered" /\ key \in DOMAIN KnownAnswer) =>
    accept_key = KnownAnswer[key]

(***************************************************************************)
(* Which texts arrive as they were typed, without the prefix that asks for *)
(* a rollback: the empty one, however little of its frame was there, and   *)
(* those of up to 125 bytes of whose frame the recv returned all but bytes *)
(* that are 0, as the cleared buffer is, or that the text does not need:   *)
(* the last bytes of the mask, if it has less than four bytes itself.      *)
(***************************************************************************)
AsTyped ==
  /\ decoded.rollback <=> IsPrefix(RollbackPrefix, message)
  /\ message = (IF decoded.rollback THEN RollbackPrefix ELSE <<>>) \o decoded.text

Unused(n) ==  \* of the lost bytes
  LET p == 6 + Len(message) - Len(lost) + n
  IN  2 + Len(message) < p /\ p <= 6

TextArrives ==
  pc = "received" =>
    (AsTyped <=>
       /\ Len(message) <= 125
       /\ message = <<>> \/ \A n \in DOMAIN lost : lost[n] = 0 \/ Unused(n))

(***************************************************************************)
(* Which messages the browsers live through: those whose INSERT and chat   *)
(* events fit into 125 bytes, of which the browser gets all five events.   *)
(* Else it gets those before the first that does not fit, waits for ever   *)
(* if that one has 126 or 127 bytes, and fails the connection if it has    *)
(* more; it never takes a cut event for a whole one.                       *)
(***************************************************************************)
InsertLength == 55 + Len(decoded.text)
ChatLength   == 53 + IdLength + Len(decoded.text)
FirstLong    == IF InsertLength > 125 THEN InsertLength ELSE ChatLength

ShortMessagesAreSeen ==
  (pc = "received" /\ todo = <<>>) =>
    /\ browser = "reading" <=> FirstLong <= 125
    /\ browser = "waiting" <=> FirstLong \in {126, 127}
    /\ Len(seen) = IF FirstLong <= 125 THEN 5
                   ELSE IF InsertLength > 125 THEN 1 ELSE 4
    /\ \A n \in DOMAIN seen : seen[n] # "garbled"
==============================================================================
