----------------------------- MODULE Providers ------------------------------
(***************************************************************************)
(* One completion request to a provider (core/providers: transport, stream *)
(* and stream-assemblers): its HTTP exchange, the framing of the streamed  *)
(* response, the four dialects that assemble it, the deltas shown meanwhile*)
(* and the effects reported.  The provider may send anything, the network  *)
(* cuts the bytes anywhere, and the request is aborted at any await.       *)
(***************************************************************************)
EXTENDS Integers, Sequences, SequencesExt

CONSTANTS
  MaxEvents,   \* events a response has
  Dialects     \* of "chat", "anthropic", "responses", "google" and "none" (no stream)

VARIABLES
  dialect,     \* the bound profile's wire format
  said,        \* events the provider sent
  wire,        \* their bytes, not read yet
  ended,       \* no byte follows
  buffer,      \* read, but not yet a line
  frame,       \* lines of the frame being read
  pushed,      \* number of events the assembler took
  assembly,    \* what it made of them
  delivered,   \* text deltas given to the sink
  phase,       \* where the request is
  aborted,     \* its signal
  effects,     \* last effect of each layer
  captureFailed

providerVars == <<dialect, said, wire, ended, buffer, frame, pushed, assembly,
                  delivered, phase, aborted, effects, captureFailed>>

-----------------------------------------------------------------------------
(* Events of the dialects; n is a block, call or sequence number.          *)

Plain(kinds) == [kind : kinds, n : {0}]
Numbered(kinds) == [kind : kinds, n : {0, 1}]

Alphabet(d) == Plain({"error"}) \union
  CASE d = "chat" -> Plain({"text", "usage", "finish", "done"}) \union Numbered({"open", "args"})
    [] d = "anthropic" -> Plain({"ping", "start", "reason", "end"})
                            \union Numbered({"block", "text", "stop"})
    [] d = "responses" -> [kind : {"created", "text", "completed", "failed"}, n : 0 .. 2]
    [] d = "google" -> Plain({"text", "signature", "usage", "last"})
    [] OTHER -> {}

\* calls: of each call, whether its id came; blocks: closed blocks, or parts.
Empty == [started |-> FALSE, reason |-> FALSE, done |-> FALSE, active |-> FALSE,
          signed |-> TRUE, calls |-> <<>>, blocks |-> 0, order |-> -1, texts |-> 0]

\* What each assembler's push accepts after what it has.
ChatTakes(a, e) ==
  /\ ~a.done
  /\ \/ e.kind = "done" /\ a.reason
     \/ e.kind = "usage"
     \/ e.kind \in {"text", "finish"} /\ ~a.reason
     \/ e.kind = "args" /\ ~a.reason /\ e.n <= Len(a.calls)
     \/ e.kind = "open" /\ ~a.reason /\ e.n <= Len(a.calls)
        /\ (e.n < Len(a.calls) => ~a.calls[e.n + 1])

AnthropicTakes(a, e) ==
  \/ e.kind = "ping"
  \/ /\ ~a.done
     /\ \/ e.kind = "start" /\ ~a.started
        \/ e.kind = "block" /\ a.started /\ ~a.active /\ ~a.reason /\ e.n = a.blocks
        \/ e.kind \in {"text", "stop"} /\ a.active /\ e.n = a.blocks
        \/ e.kind = "reason" /\ a.started /\ ~a.active /\ ~a.reason
        \/ e.kind = "end" /\ ~a.active /\ a.reason

ResponsesTakes(a, e) ==
  /\ ~a.done /\ e.n > a.order
  /\ \/ e.kind = "created" /\ ~a.started
     \/ e.kind \in {"text", "completed"} /\ a.started

GoogleTakes(a, e) ==
  \/ e.kind = "usage"
  \/ e.kind \in {"text", "last"} /\ ~a.reason
  \/ e.kind = "signature" /\ ~a.reason /\ a.blocks > 0 /\ ~a.signed

Takes(d, a, e) ==
  CASE d = "chat" -> ChatTakes(a, e)
    [] d = "anthropic" -> AnthropicTakes(a, e)
    [] d = "responses" -> ResponsesTakes(a, e)
    [] d = "google" -> GoogleTakes(a, e)

\* The text of an event is shown and kept alike; "last" carries Google's last part.
Shows(e) == e.kind \in {"text", "last"}

Assembled(d, a, e) ==
  [started |-> a.started \/ e.kind \in {"start", "created"},
   reason  |-> a.reason \/ e.kind \in {"finish", "reason", "last"},
   done    |-> a.done \/ e.kind \in {"done", "end", "completed"},
   active  |-> e.kind = "block" \/ (a.active /\ e.kind # "stop"),
   signed  |-> IF d = "google" /\ Shows(e) THEN FALSE ELSE a.signed \/ e.kind = "signature",
   calls   |-> IF e.kind \notin {"open", "args"} THEN a.calls
               ELSE IF e.n = Len(a.calls) THEN Append(a.calls, e.kind = "open")
               ELSE [a.calls EXCEPT ![e.n + 1] = @ \/ e.kind = "open"],
   blocks  |-> a.blocks + (IF e.kind = "stop" \/ (d = "google" /\ Shows(e)) THEN 1 ELSE 0),
   order   |-> IF d = "responses" THEN e.n ELSE a.order,
   texts   |-> a.texts + (IF Shows(e) THEN 1 ELSE 0)]

\* Mutant: a finish reason is enough.
Finishes_Stopped(d, a) == a.reason \/ a.done

\* finish: whether what came makes a response.
Finishes(d, a) ==
  CASE d = "chat" -> a.done /\ a.reason
    [] d = "anthropic" -> a.done /\ a.reason
    [] d = "responses" -> a.done
    [] d = "google" -> a.reason

-----------------------------------------------------------------------------
(* Server-sent events: two data lines and a blank one, with CRLF line ends.*)
(* The name of an event only repeats its type and is left out.             *)

NewLine == <<"CR", "LF">>
Bytes == <<"data">> \o NewLine \o <<"more">> \o NewLine \o NewLine

\* A line end at i counts, unless it may be the first half of one.
Closes(b, i, done) == b[i] \in {"CR", "LF"} /\ ~(~done /\ b[i] = "CR" /\ i = Len(b))

\* The lines a buffer holds and what is left of it.
Lines[b \in Seq({"data", "more", "CR", "LF"}), done \in BOOLEAN] ==
  LET marks == {i \in DOMAIN b : b[i] \in {"CR", "LF"}}
  IN IF marks = {} THEN [lines |-> <<>>, rest |-> b]
     ELSE LET i     == CHOOSE m \in marks : \A k \in marks : m <= k
              width == IF b[i] = "CR" /\ i < Len(b) /\ b[i + 1] = "LF" THEN 2 ELSE 1
              more  == Lines[SubSeq(b, i + width, Len(b)), done]
          IN IF ~Closes(b, i, done) THEN [lines |-> <<>>, rest |-> b]
             ELSE [lines |-> <<SubSeq(b, 1, i - 1)>> \o more.lines, rest |-> more.rest]

\* line: a blank one ends a frame that has data; frames are what the assembler is given.
Reading(f, line) ==
  IF line = <<>> THEN [parts |-> <<>>, frames |-> IF f.parts = <<>> THEN f.frames
                                                  ELSE Append(f.frames, f.parts)]
  ELSE [f EXCEPT !.parts = Append(f.parts, Head(line))]

ProviderTypeOK ==
  /\ dialect \in Dialects /\ said \in Seq(Alphabet(dialect)) /\ Len(said) <= MaxEvents
  /\ ended \in BOOLEAN /\ aborted \in BOOLEAN /\ captureFailed \in BOOLEAN
  /\ wire \in Seq({"data", "more", "CR", "LF"}) /\ Len(buffer) <= Len(Bytes)
  /\ frame \in Seq({"data", "more"}) /\ pushed \in 0 .. Len(said)
  /\ delivered \in 0 .. pushed /\ assembly.texts \in 0 .. pushed
  /\ phase \in {"encode", "fetch", "read", "chunk", "rest", "body", "decode",
                "httpCatch", "catch", "completed", "failed"}
  /\ effects \in [{"completion", "http", "stream"} ->
                  {"none", "started", "completed", "cancelled", "failed"}]

ProviderInit ==
  /\ dialect \in Dialects
  /\ said = <<>> /\ wire = <<>> /\ ended = FALSE /\ buffer = <<>> /\ frame = <<>>
  /\ pushed = 0 /\ assembly = Empty /\ delivered = 0
  /\ phase = "encode" /\ aborted = FALSE /\ captureFailed = FALSE
  /\ effects = [layer \in {"completion", "http", "stream"} |->
                  IF layer = "completion" THEN "started" ELSE "none"]

-----------------------------------------------------------------------------
(* Outside of the request.                                                 *)

Final == phase \in {"completed", "failed"}

ProviderSends(e) ==
  /\ phase = "read" /\ wire = <<>> /\ ~ended /\ Len(said) < MaxEvents
  /\ said' = Append(said, e) /\ wire' = Bytes
  /\ UNCHANGED <<dialect, ended, buffer, frame, pushed, assembly, delivered, phase,
                 aborted, effects, captureFailed>>

\* The response ends, or the connection is lost with what was on it.
ResponseEnds ==
  /\ phase = "read" /\ ~ended
  /\ ended' = TRUE /\ wire' = <<>>
  /\ UNCHANGED <<dialect, said, buffer, frame, pushed, assembly, delivered, phase,
                 aborted, effects, captureFailed>>

Aborts ==
  /\ ~aborted /\ ~Final
  /\ aborted' = TRUE
  /\ UNCHANGED <<dialect, said, wire, ended, buffer, frame, pushed, assembly, delivered,
                 phase, effects, captureFailed>>

-----------------------------------------------------------------------------
(* The request.                                                            *)

EndOf(layer) == [effects EXCEPT ![layer] = IF aborted THEN "cancelled" ELSE "failed"]

\* An exception goes through the handlers of assembleStream, which gives the body up,
\* of the transport and of complete.
Throws ==
  /\ phase' = "httpCatch" /\ wire' = <<>> /\ buffer' = <<>> /\ frame' = <<>>
  /\ effects' = IF effects["stream"] = "started" THEN EndOf("stream") ELSE effects

Untouched == UNCHANGED <<dialect, said, ended, pushed, assembly, delivered, aborted>>
Unread == UNCHANGED <<wire, buffer, frame>>

\* The capture sink may reject; its error is thrown where it was awaited.
Captures(ok) == captureFailed' = (captureFailed \/ ~ok)

\* The request is captured, then sent.
Encodes(ok) ==
  /\ phase = "encode" /\ Captures(ok)
  /\ IF ok /\ ~aborted
     THEN phase' = "fetch" /\ effects' = [effects EXCEPT !["http"] = "started"] /\ Unread
     ELSE Throws
  /\ Untouched

\* Headers arrive: an error status, a body of another kind, or one to read.
Responds ==
  /\ phase = "fetch" /\ UNCHANGED captureFailed
  /\ \/ Throws
     \/ ~aborted /\ dialect = "none" /\ phase' = "body" /\ UNCHANGED effects /\ Unread
     \/ /\ ~aborted /\ dialect # "none" /\ phase' = "read"
        /\ effects' = [effects EXCEPT !["stream"] = "started"] /\ Unread
  /\ Untouched

\* reader.read gives the next bytes, or the end; then the chunk is captured.
Reads(size) ==
  /\ phase = "read" /\ size <= Len(wire) /\ (size = 0) = (ended /\ wire = <<>>)
  /\ IF aborted THEN Throws
     ELSE /\ phase' = IF size = 0 THEN "rest" ELSE "chunk"
          /\ buffer' = buffer \o SubSeq(wire, 1, size)
          /\ wire' = SubSeq(wire, size + 1, Len(wire))
          /\ UNCHANGED <<effects, frame>>
  /\ Untouched /\ UNCHANGED captureFailed

\* Whether a delta may still be shown once the assembler has taken its event.
Shown(e) == Shows(e) /\ ~aborted

\* The lines of a chunk: each whole frame is parsed, assembled and shown.
Parses(ok) ==
  /\ phase \in {"chunk", "rest"} /\ Captures(ok)
  /\ LET split  == Lines[buffer, phase = "rest"]
         read   == FoldLeft(Reading, [parts |-> frame, frames |-> <<>>], split.lines)
         event  == said[pushed + 1]
         given  == read.frames # <<>>
         valid  == read.frames = <<<<"data", "more">>>> /\ Takes(dialect, assembly, event)
         shows  == given /\ valid /\ Shown(event)
         fails  == given /\ (~valid \/ (Shows(event) /\ ~Shown(event)))
         after  == IF given /\ valid THEN Assembled(dialect, assembly, event) ELSE assembly
         whole  == split.rest = <<>> /\ read.parts = <<>> /\ ~aborted /\ Finishes(dialect, after)
     IN \/ ~ok /\ Throws /\ UNCHANGED <<pushed, assembly, delivered>>
        \/ /\ ok
           /\ pushed' = IF given THEN pushed + 1 ELSE pushed
           /\ assembly' = after
           /\ delivered' = IF shows THEN delivered + 1 ELSE delivered
           /\ IF fails \/ (phase = "rest" /\ ~whole) THEN Throws
              ELSE /\ buffer' = split.rest /\ frame' = read.parts /\ UNCHANGED wire
                   /\ IF phase = "rest"
                      THEN phase' = "body" /\ effects' = [effects EXCEPT !["stream"] = "completed"]
                      ELSE phase' = "read" /\ UNCHANGED effects
  /\ UNCHANGED <<dialect, said, ended, aborted>>

\* The body is captured and handed to the profile; an abort is looked at only when the
\* response was not streamed.
Receives(ok) ==
  /\ phase = "body" /\ Captures(ok)
  /\ IF ok /\ (dialect # "none" \/ ~aborted)
     THEN phase' = "decode" /\ effects' = [effects EXCEPT !["http"] = "completed"] /\ Unread
     ELSE Throws
  /\ Untouched

\* decode, the checks of the completion, and its capture.
Decodes(ok) ==
  /\ phase = "decode"
  /\ \/ /\ ok /\ phase' = "completed" /\ effects' = [effects EXCEPT !["completion"] = "completed"]
        /\ UNCHANGED captureFailed
     \/ phase' = "catch" /\ UNCHANGED effects /\ Captures(ok)
  /\ Untouched /\ Unread

\* The handlers: what happened is captured, then reported and thrown on.
Catches(layer, from, to, ok) ==
  /\ phase = from /\ Captures(ok)
  /\ phase' = to
  /\ effects' = IF ok THEN EndOf(layer) ELSE effects
  /\ Untouched /\ Unread

ProviderNext ==
  \/ \E e \in Alphabet(dialect) : ProviderSends(e)
  \/ ResponseEnds \/ Aborts \/ Responds
  \/ \E size \in 0 .. Len(Bytes) : Reads(size)
  \/ \E ok \in BOOLEAN :
       \/ Encodes(ok) \/ Parses(ok) \/ Receives(ok) \/ Decodes(ok)
       \/ Catches("http", "httpCatch", "catch", ok)
       \/ Catches("completion", "catch", "failed", ok)

ProviderSpec == ProviderInit /\ [][ProviderNext]_providerVars

-----------------------------------------------------------------------------
(* What a whole response of each dialect is.                               *)

Without(s, kinds) == SelectSeq(s, LAMBDA e : e.kind \notin kinds)
Kinds(s) == {s[i].kind : i \in DOMAIN s}

WholeChat(s) ==
  \E f \in DOMAIN s :
    /\ f < Len(s) /\ s[f].kind = "finish" /\ s[Len(s)].kind = "done"
    /\ Kinds(SubSeq(s, f + 1, Len(s) - 1)) \subseteq {"usage"}
    /\ \A i \in 1 .. f - 1 :
         /\ s[i].kind \in {"text", "usage", "open", "args"}
         /\ s[i].n = 1 => \E j \in 1 .. i - 1 : s[j].kind \in {"open", "args"} /\ s[j].n = 0
         /\ s[i].kind = "open" => \A j \in 1 .. i - 1 : s[j] # s[i]

WholeAnthropic(all) ==
  LET s    == Without(all, {"ping"})
      last == Len(s)
      Follows(i, kinds, n) == s[i - 1].kind \in kinds /\ s[i - 1].n = n
  IN /\ last >= 3 /\ s[1].kind = "start" /\ s[last].kind = "end"
     /\ s[last - 1].kind = "reason" /\ s[last - 2].kind \in {"start", "stop"}
     /\ \A i \in 2 .. last - 2 :
          \/ s[i].kind = "block" /\ IF s[i].n = 0 THEN i = 2 ELSE Follows(i, {"stop"}, s[i].n - 1)
          \/ s[i].kind \in {"text", "stop"} /\ Follows(i, {"block", "text"}, s[i].n)

WholeResponses(s) ==
  /\ Len(s) >= 2 /\ s[1].kind = "created" /\ s[Len(s)].kind = "completed"
  /\ \A i \in 2 .. Len(s) : s[i].n > s[i - 1].n /\ (i < Len(s) => s[i].kind = "text")

WholeGoogle(all) ==
  LET s == Without(all, {"usage"})
  IN /\ s # <<>> /\ s[Len(s)].kind = "last"
     /\ \A i \in 1 .. Len(s) - 1 :
          \/ s[i].kind = "text"
          \/ s[i].kind = "signature" /\ i > 1 /\ s[i - 1].kind = "text"

Whole(s) ==
  CASE dialect = "chat" -> WholeChat(s)
    [] dialect = "anthropic" -> WholeAnthropic(s)
    [] dialect = "responses" -> WholeResponses(s)
    [] dialect = "google" -> WholeGoogle(s)
    [] OTHER -> TRUE

\* However its bytes were cut, a stream is assembled exactly when what arrived is a
\* whole response: one cut short, or with an event out of place, never becomes a
\* completion, and a whole one is never refused.
OnlyWholeStreams ==
  /\ effects["stream"] = "completed" => Whole(SubSeq(said, 1, pushed))
  /\ effects["stream"] = "failed" /\ ~captureFailed /\ pushed = Len(said) => ~Whole(said)

\* What the completion says is what was shown while it streamed.
ShownIsAssembled ==
  /\ effects["stream"] # "cancelled" /\ phase \in {"read", "body", "decode", "completed"}
       => delivered = assembly.texts
  /\ delivered <= assembly.texts

\* Unless the capture sink failed, every layer that reported a start reports one end,
\* a completion is returned exactly when each of them reports success, and
\* "cancelled" is only said of a request that was aborted.
EffectsPair ==
  /\ Final /\ ~captureFailed =>
       /\ \A layer \in DOMAIN effects : effects[layer] # "started"
       /\ phase = "completed" <=> effects["completion"] = "completed"
  /\ phase = "completed" => effects["http"] = "completed" /\ effects["stream"] \in {"none", "completed"}
  /\ (\E layer \in DOMAIN effects : effects[layer] = "cancelled") => aborted
=============================================================================
