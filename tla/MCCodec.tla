------------------------------- MODULE MCCodec -------------------------------
(* Settings, messages and junk for the runs of Codec, where a length is     *)
(* below 7: payloads of 7 make frames whose length wraps to a legal one. A  *)
(* Close takes 6 bytes: too long for the first settings, for the second     *)
(* only within onemsg_max_size, for the third legal.                        *)
EXTENDS Codec

Opts == {[raw |-> FALSE, onemsg |-> 5, inbuf |-> 5],
         [raw |-> FALSE, onemsg |-> 6, inbuf |-> 5],
         [raw |-> FALSE, onemsg |-> 6, inbuf |-> 6],
         [raw |-> TRUE,  onemsg |-> 5, inbuf |-> 1]}

Plain(kind, payload) == [kind |-> kind, code |-> NoCode, payload |-> payload]
CloseOf(code, payload) == [kind |-> "Close", code |-> code, payload |-> payload]
Away == [name |-> "Away", n |-> 0]
Other1000 == [name |-> "Other", n |-> 1000]

Msgs == {Plain("Text", 0), Plain("Pong", 1), Plain("Text", 7),
         CloseOf(Away, 0), CloseOf(Other1000, 0), CloseOf(Away, 7),
         Plain("Unvaid", 0)}

Junks == {[len |-> 2, op |-> 1,  code |-> 3000, utf8 |-> TRUE],
          [len |-> 5, op |-> 9,  code |-> 3000, utf8 |-> FALSE],
          [len |-> 6, op |-> 8,  code |-> 3000, utf8 |-> TRUE],
          [len |-> 4, op |-> 77, code |-> 3000, utf8 |-> TRUE]}
=============================================================================
