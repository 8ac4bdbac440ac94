------------------------------ MODULE MCFrames -------------------------------
(* Instances of Frames for TLC. *)
EXTENDS Frames

Filler(c, n) == [p \in 1..n |-> c]

(* The key of RFC 6455, section 1.3, and keys cut off by the end of the     *)
(* request: 19 characters are the most that fit into one block of sha1.    *)
RfcKey == <<100, 71, 104, 108, 73, 72, 78, 104, 98, 88, 66, 115, 90, 83, 66,
            117, 98, 50, 53, 106, 90, 81, 61, 61>>

SomeKeys == {RfcKey} \cup {Filler(100, n) : n \in {0, 1, 18, 19, 20, 23}}

(* From the RFC, and from another implementation of sha1 and base64 *)
Answers ==
  [k \in {RfcKey, Filler(100, 0), Filler(100, 19), Filler(100, 20)} |->
     CASE k = RfcKey ->
            <<44, 55, 41, 15, 11, 12, 1, 34, 19, 49, 26, 16, 61, 36, 24, 6, 51,
              51, 33, 25, 17, 27, 10, 62, 49, 14, 40, 64>>
       [] Len(k) = 0 ->
            <<10, 31, 33, 61, 16, 8, 44, 12, 21, 25, 28, 37, 58, 49, 4, 15, 24,
              49, 15, 7, 51, 22, 60, 18, 25, 60, 48, 64>>
       [] Len(k) = 19 ->
            <<41, 49, 6, 35, 39, 42, 17, 31, 55, 28, 36, 9, 31, 62, 47, 1, 2,
              10, 44, 43, 12, 42, 3, 61, 49, 56, 32, 64>>
       [] OTHER ->
            <<3, 17, 10, 31, 43, 50, 42, 44, 22, 4, 40, 0, 58, 33, 16, 46, 37,
              0, 45, 14, 32, 1, 3, 17, 24, 25, 24, 64>>]

(* Every length around a limit, and short texts of different bytes *)
SomeMessages ==
  {Filler(97, n) : n \in 0..9 \cup 60..75 \cup 120..130}
  \cup {<<97, 98, 99, 100, 101, 102>>, <<226, 130, 172>>}
  \cup {RollbackPrefix \o Filler(98, n) : n \in {0, 1, 60, 67, 68, 115, 116}}

(* Ends in the header, in the mask, and in the text *)
SomeSegments == {1, 2, 3, 4, 6, 7, 9, 70, 127}

SomeMasks == {<<0, 0, 0, 0>>, <<97, 2, 4, 8>>, <<255, 128, 127, 97>>}
==============================================================================
