------------------------------- MODULE Requests -------------------------------
(***************************************************************************)
(* The requests of one connection: how the Codec (src/src/Codec.h) finds   *)
(* in the read buffer that a message is complete, and how HttpServer.h     *)
(* parses it where it lies and answers it, one in each read callback.      *)
(*                                                                         *)
(* The peer sends well-formed messages; TCP cuts them anywhere.  A symbol  *)
(* stands for a character, "t" for any that is no delimiter; a URL and the *)
(* digits of a length are one symbol each.                                 *)
(***************************************************************************)
EXTENDS Integers, SequencesExt

CONSTANTS
  Known,           (* services_: the URLs that have a handler              *)
  MaxAsked         (* bound of the model on the messages of the peer       *)

VARIABLES
  model,           (* the Codec::MODEL of the connection                   *)
  asked,           (* what the peer sends, as messages                     *)
  unsent,          (* what is still to arrive, as symbols                  *)
  buffer,          (* readBuffer(), as symbols                             *)
  handled,         (* the messages the callback has taken                  *)
  surplus,         (* history: messages that arrived together with another *)
  reading          (* "on"; "off" once it closes; "lost" in the buffer     *)

vars == <<model, asked, unsent, buffer, handled, surplus, reading>>

-----------------------------------------------------------------------------
(* Messages of the peer, and their texts.                                  *)

FixedSize == 2                                (* of fixed-length messages  *)
Url   == {"/", "/port", "/other"}
Plain == [key |-> <<"t">>, value |-> <<"t">>]
Words == [key |-> <<"t">>, value |-> <<"t", "sp", "t", "t">>]

Message(m) ==
  CASE m = "HTTP"   -> [url : Url,
                        headers : {<<>>, <<Plain>>, <<Words>>, <<Words, Plain>>}]
    [] m = "FIXED"  -> [length : {FixedSize}]
    [] m = "LENGTH" -> [length : 0 .. 2]

Ts(n)   == [i \in 1 .. n |-> "t"]
Line(h) == h.key \o <<"col", "sp">> \o h.value \o <<"cr", "lf">>
Digit   == <<"0", "1", "2">>

Text(m, r) ==
  CASE m = "HTTP"   -> <<"t", "sp", r.url, "sp", "t", "cr", "lf">>
                         \o FlattenSeq([i \in DOMAIN r.headers |-> Line(r.headers[i])])
                         \o <<"cr", "lf">>
    [] m = "FIXED"  -> Ts(r.length)
    [] m = "LENGTH" -> <<Digit[r.length + 1]>> \o Ts(r.length)

TextOf(m, rs) == FlattenSeq([i \in DOMAIN rs |-> Text(m, rs[i])])

Init ==
  /\ model \in {"HTTP", "FIXED", "LENGTH"}
  /\ asked \in BoundedSeq(Message(model), MaxAsked)
  /\ unsent = TextOf(model, asked)
  /\ buffer = <<>>
  /\ handled = <<>>
  /\ surplus = 0
  /\ reading = "on"

-----------------------------------------------------------------------------
(* Codec: is there a message in the buffer b?                              *)

Blank == <<"cr", "lf", "cr", "lf">>

(* Buffer::findStr: where str is found first, 0 if it is not there.        *)
FindStr(b, str) ==
  LET found == {i \in 1 .. Len(b) - Len(str) + 1 :
                  SubSeq(b, i, i + Len(str) - 1) = str}
  IN  IF found = {} THEN 0 ELSE Min(found)

(* A slip: only what has just arrived is searched.                         *)
HttpRequestAmong(b, n) == FindStr(SubSeq(b, Len(b) - n + 1, Len(b)), Blank) > 0

(* http_request_default_callback, n symbols having just arrived.           *)
HttpRequest(b, n) == FindStr(b, Blank) > 0

(* fixed_length_default_callback.                                          *)
FixedLength(b) == Len(b) > FixedSize

(* std::stoull of the first symbol: an exception leaves data_len at 0.     *)
DataLen(b) == IF \E n \in 0 .. 2 : b[1] = Digit[n + 1]
              THEN CHOOSE n \in 0 .. 2 : b[1] = Digit[n + 1] ELSE 0

(* length_data_default_callback.                                           *)
LengthData(b) == Len(b) >= 1 /\ Len(b) - 1 >= DataLen(b)

Check(m, b, n) ==
  CASE m = "HTTP" -> HttpRequest(b, n)
    [] m = "FIXED" -> FixedLength(b)
    [] m = "LENGTH" -> LengthData(b)

(* What a check that has found a message does to the buffer: of a request  *)
(* it ends the text; the length of a message stays where it is.            *)
Checked(m, b) ==
  IF m = "HTTP" THEN [b EXCEPT ![FindStr(b, Blank) + 3] = "nul"] ELSE b

-----------------------------------------------------------------------------
(* handleRtspRequest.  A position is where ptr is; the one behind b stands *)
(* for all that lies outside of the readable bytes.                        *)

(* Loops that move ptr up to a character of S, and over those that are s.  *)
Seek(b, i, S) == Min({j \in i .. Len(b) : b[j] \in S} \union {Len(b) + 1})
Skip(b, i, s) == Min({j \in i .. Len(b) : b[j] # s} \union {Len(b) + 1})

(* A slip: the zero is written behind the delimiter.                       *)
FieldEndLate(b, i, ch) == Min({Seek(b, i, {ch}) + 1, Len(b) + 1})

(* readField: the field ends before this position, the next one begins at. *)
FieldEnd(b, i, ch) == Seek(b, i, {ch})
ReadField(b, i, ch) == Skip(b, FieldEnd(b, i, ch) + 1, ch)

LastEnd(b, i) == Seek(b, i, {"cr", "sp"})

(* readLastField: a cr after blanks and whatever comes next are skipped.   *)
ReadLastField(b, i) ==
  LET j == Skip(b, LastEnd(b, i) + 1, "sp")
  IN  IF j <= Len(b) /\ b[j] = "cr" THEN j + 2 ELSE j + 1

(* The headers from each position, and where ptr is at the end of them.    *)
Headers(b) ==
  LET from[i \in 1 .. Len(b) + 1] ==
        IF i > Len(b) \/ b[i] = "cr" THEN [headers |-> <<>>, ptr |-> i]
        ELSE LET value == Skip(b, ReadField(b, i, "col"), "sp")
                 next  == Min({ReadLastField(b, value), Len(b) + 1})
             IN  [from[next] EXCEPT !.headers =
                    <<[key |-> SubSeq(b, i, FieldEnd(b, i, "col") - 1),
                       value |-> SubSeq(b, value, LastEnd(b, value) - 1)]>> \o @]
  IN  from

(* A slip: the terminating zero is left in the buffer.                     *)
EndOfRequestShort(b, i) == Seek(b, i, {"nul"}) - 1

(* The last symbol of the request.                                         *)
EndOfRequest(b, i) == Seek(b, i, {"nul"})

(* The whole request, in a buffer whose first blank line ends with a nul.  *)
Parsed(b) ==
  LET url     == ReadField(b, 1, "sp")
      version == ReadField(b, url, "sp")
      fields  == Headers(b)[Min({ReadLastField(b, version), Len(b) + 1})]
  IN  [url |-> SubSeq(b, url, FieldEnd(b, url, "sp") - 1),
       headers |-> fields.headers, end |-> EndOfRequest(b, fields.ptr)]

-----------------------------------------------------------------------------
(* The read callback.                                                      *)

Take(b, n) == SubSeq(b, n + 1, Len(b))

(* handleRtspRequest on what the codec has left: a service that is known   *)
(* leaves the connection open, the start page and an error close it after  *)
(* the answer.                                                             *)
HandleHttp(b) ==
  LET request == Parsed(b)
      lost    == request.end > Len(b)
  IN  /\ handled' = IF lost THEN handled
                    ELSE Append(handled, [url |-> request.url[1],
                                          headers |-> request.headers])
      /\ buffer' = IF lost THEN b ELSE Take(b, request.end)
      /\ reading' = IF lost THEN "lost"
                    ELSE IF request.url[1] \in Known THEN "on" ELSE "off"

(* A callback of the other models, which the program has to write, takes   *)
(* one message.  One that trusted Codec.h:39 would leave the length in the *)
(* buffer, and lose its place; this one knows that it is still there.      *)
HandleCounted(b) ==
  LET length == IF model = "FIXED" THEN FixedSize ELSE DataLen(b)
  IN  /\ handled' = Append(handled, [length |-> length])
      /\ buffer' = Take(b, IF model = "FIXED" THEN FixedSize ELSE length + 1)
      /\ UNCHANGED reading

(* How many messages of the peer have arrived when k symbols are unsent.   *)
Arrived(k) ==
  Cardinality({i \in 1 .. Len(asked) :
                 Len(TextOf(model, SubSeq(asked, i + 1, Len(asked)))) >= k})

(* preConnMsgCallback with n symbols: it checks and handles only once.     *)
Read(n) ==
  LET b == buffer \o SubSeq(unsent, 1, n)
      new == Arrived(Len(unsent) - n) - Arrived(Len(unsent))
  IN  /\ reading = "on"
      /\ unsent' = Take(unsent, n)
      /\ surplus' = IF new > 1 THEN surplus + new - 1 ELSE surplus
      /\ IF Check(model, b, n)
         THEN IF model = "HTTP" THEN HandleHttp(Checked(model, b))
              ELSE HandleCounted(Checked(model, b))
         ELSE buffer' = b /\ UNCHANGED <<handled, reading>>
      /\ UNCHANGED <<model, asked>>

Next == \E n \in 1 .. Len(unsent) : Read(n)

Spec == Init /\ [][Next]_vars

-----------------------------------------------------------------------------
(* Properties.                                                             *)

(* Values of one word are all that readLastField understands: it takes a   *)
(* blank in a value for the end of it, and skips a character.              *)
Simple(r) == model = "HTTP" => \A i \in DOMAIN r.headers : r.headers[i] # Words

(* The callback gets what the peer has sent, in that order, however TCP    *)
(* cut it (HttpServer.h:93-124); of a request with a header of several     *)
(* words, the URL at least.                                                *)
HandledAsAsked ==
  \A i \in DOMAIN handled :
    /\ i <= Len(asked)
    /\ Simple(asked[i]) => handled[i] = asked[i]
    /\ model = "HTTP" => handled[i].url = asked[i].url

(* Nothing of the next message is taken and nothing of the last one is     *)
(* left behind (HttpServer.h:113-118): what is in the buffer and what is   *)
(* still to come is the text of what was not handled.  Only a request      *)
(* whose last header has several words leads ptr past its end.             *)
FramingKept ==
  IF reading = "lost"
  THEN Last(asked[Len(handled) + 1].headers) = Words
  ELSE buffer \o unsent = TextOf(model, SubSeq(asked, Len(handled) + 1, Len(asked)))

(* A complete request, or message with a length, waits in the buffer only  *)
(* behind others that arrived with it (one read, one callback).  Nothing   *)
(* of the kind holds of messages of a fixed length.                        *)
WaitsForSurplus ==
  model # "FIXED" /\ reading = "on" =>
    Arrived(Len(unsent)) - Len(handled) <= surplus

(* Codec.h:60 says that the check of a fixed length is true once the       *)
(* buffer holds so many bytes: no message of it waits either.              *)
CompleteIsHandled ==
  model = "FIXED" /\ reading = "on" =>
    Arrived(Len(unsent)) - Len(handled) <= surplus

(* Codec.h:39 says that the check of a message with a length takes the     *)
(* length off the buffer when it is true.                                  *)
LengthIsTaken ==
  [][model = "LENGTH" =>
       \A n \in 1 .. Len(unsent) :
         LET b == buffer \o SubSeq(unsent, 1, n)
         IN  Read(n) /\ Check(model, b, n) => Checked(model, b) = Take(b, 1)]_vars
=============================================================================
