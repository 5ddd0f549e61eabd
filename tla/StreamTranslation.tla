-------------------------- MODULE StreamTranslation --------------------------
(***************************************************************************)
(* One streamed answer on its way through the proxy: the decoder of a Chat *)
(* Completions or a Messages upstream (urp/stream_decode), the stage that  *)
(* seals reasoning signatures into envelopes (urp/mod.rs, called by        *)
(* transform_urp_stream), and the encoder of MessagesEncode.               *)
(*                                                                         *)
(* The stages are tasks joined by queues of one writer and one reader, and *)
(* what each does depends only on the order of what it reads: what a       *)
(* client sees of an answer is the same when every frame of the upstream   *)
(* has gone through all stages before the next is read.  The upstream      *)
(* sends any fragments in any order; a Messages upstream may have several  *)
(* blocks open and may leave some unended, but starts no block twice.      *)
(* Response transforms rewrite nothing here.                               *)
(***************************************************************************)
EXTENDS FiniteSets, MessagesEncode

Protocol == {"chat", "messages"}

CONSTANTS MaxNodes,      \* nodes of an answer, for each upstream protocol
          MaxFragments,  \* fragments of an answer, for each upstream protocol
          MaxOpen        \* blocks a Messages upstream has open at a time

ASSUME StreamAssumption == /\ {MaxNodes, MaxFragments} \subseteq [Protocol -> Nat]
                           /\ MaxOpen \in Nat

VARIABLES source,    \* the upstream protocol: "chat" or "messages"
          sealed,    \* reasoning_envelope_enabled of the API key
          dec,       \* the decoder
          held,      \* pending_fragments: node -> signature fragments
          enc        \* the encoder

streamVars == <<source, sealed, dec, held, enc>>

NewDecoder == [st |-> "reading", nodes |-> <<>>, frags |-> 0,
               textAt |-> 0, reasonAt |-> 0, active |-> {}, completed |-> {}]

StreamInit ==
  /\ source \in Protocol /\ sealed \in BOOLEAN
  /\ dec = NewDecoder /\ held = <<>> /\ enc = NewEncoder

(***************************************************************************)
(* Events of the unified protocol.  The header of a node has its kind and  *)
(* its detail type, a delta what it adds.                                  *)
(***************************************************************************)
Ev(kind, i, n, marked) == [ev |-> kind, i |-> i, node |-> n, marked |-> marked, out |-> <<>>]

Header(n) == [NoNode EXCEPT !.kind = n.kind, !.detail = n.detail]

NodeStartEv(i, n) == Ev("start", i, Header(n), FALSE)

NodeDeltaEv(i, n, field, frag, marked) ==
  Ev("delta", i, [Header(n) EXCEPT ![field] = <<frag>>], marked)

NodeDoneEv(i, n) == Ev("done", i, n, FALSE)

ResponseDoneEv(out) == [Ev("finish", 0, NoNode, FALSE) EXCEPT !.out = out]

ErrorEv == Ev("error", 0, NoNode, FALSE)

(* The input `{}' of a tool that no delta has replaced.                    *)
EmptyInput == <<0>>

Fragment == <<dec.frags + 1>>

Size == Len(dec.nodes)

(***************************************************************************)
(* The envelope stage.  The fragments of a signature are held until the    *)
(* node ends; the encrypted detail of Chat is whole and sealed at once.    *)
(* An operator takes what is held and an event to what is held after it    *)
(* and the events passed on.                                               *)
(***************************************************************************)
Envelope(frags) == IF frags = <<>> THEN <<>> ELSE <<<<0, frags>>>>

SealedNode(n) == [n EXCEPT !.sig = Envelope(@)]

IsFragment(v) == /\ v.ev = "delta" /\ v.node.sig # <<>>
                 /\ source = "messages" \/ v.node.detail # "encrypted"

HeldOf(h, i) == IF i \in DOMAIN h THEN h[i] ELSE <<>>

HoldFragment(h, v) ==
  [held |-> With(h, v.i, HeldOf(h, v.i) \o v.node.sig),
   out  |-> IF TerminalText(v.node) = <<>> THEN <<>> ELSE <<[v EXCEPT !.node.sig = <<>>]>>]

ReleaseFragments(h, v) ==
  LET n == SealedNode([v.node EXCEPT !.sig = IF @ # <<>> THEN @ ELSE h[v.i]])
  IN  [held |-> Without(h, v.i),
       out  |-> <<Ev("delta", v.i, [Header(n) EXCEPT !.sig = n.sig], FALSE), NodeDoneEv(v.i, n)>>]

SealEvent(h, v) ==
  [held |-> IF v.ev \in {"finish", "error"} THEN <<>> ELSE h,
   out  |-> <<[v EXCEPT !.node = SealedNode(@), !.out = [k \in DOMAIN @ |-> SealedNode(@[k])]]>>]

WrapEvent(h, v) ==
  IF ~sealed THEN [held |-> h, out |-> <<v>>]
  ELSE IF IsFragment(v) THEN HoldFragment(h, v)
  ELSE IF v.ev = "done" /\ v.i \in DOMAIN h THEN ReleaseFragments(h, v)
  ELSE SealEvent(h, v)

(***************************************************************************)
(* One frame of the upstream, through all stages.                          *)
(***************************************************************************)
DeltaOf(v) == [text |-> v.node.text, summary |-> v.node.summary, sig |-> v.node.sig,
               marked |-> v.marked]

EncodeEvent(e, v) ==
  CASE v.ev = "start"  -> OnNodeStart(e, v.i, v.node)
    [] v.ev = "delta"  -> OnNodeDelta(e, v.i, DeltaOf(v))
    [] v.ev = "done"   -> OnNodeDone(e, v.i, v.node)
    [] v.ev = "finish" -> OnResponseDone(e, v.out)
    [] v.ev = "error"  -> OnStreamError(e)

EncodeAll(e, events) == FoldLeft(EncodeEvent, e, events)

PassOn(s, v) ==
  LET w == WrapEvent(s.held, v)
  IN  [held |-> w.held, enc |-> EncodeAll(s.enc, w.out)]

PassAll(s, events) == FoldLeft(PassOn, s, events)

Decode(d, events) ==
  LET s == PassAll([held |-> held, enc |-> enc], events)
  IN  dec' = d /\ held' = s.held /\ enc' = s.enc /\ UNCHANGED <<source, sealed>>

Reading(protocol) == source = protocol /\ dec.st = "reading"

(***************************************************************************)
(* The Chat Completions decoder: one node for all text, one for all        *)
(* reasoning without details, one for every reasoning detail, one for      *)
(* every tool call.  Nodes end when the answer does.                       *)
(***************************************************************************)
NewNode(kind, detail) == [NoNode EXCEPT !.kind = kind, !.detail = detail]

(* A fragment for node i, which is started when it is new.                 *)
ChatFragment(i, n, field, d) ==
  LET nodes == IF i > Size THEN Append(dec.nodes, n) ELSE dec.nodes
  IN  /\ i <= MaxNodes[source] /\ dec.frags < MaxFragments[source]
      /\ Decode([d EXCEPT !.nodes = [nodes EXCEPT ![i][field] = Append(@, Fragment)],
                          !.frags = @ + 1],
                (IF i > Size THEN <<NodeStartEv(i, n)>> ELSE <<>>)
                  \o <<NodeDeltaEv(i, n, field, Fragment, FALSE)>>)

Slot(at) == IF at = 0 THEN Size + 1 ELSE at

TextDelta ==
  /\ Reading("chat")
  /\ ChatFragment(Slot(dec.textAt), NewNode("text", ""), "text",
                  [dec EXCEPT !.textAt = Slot(@)])

ReasoningDelta(field) ==
  /\ Reading("chat")
  /\ ChatFragment(Slot(dec.reasonAt), NewNode("thinking", ""), field,
                  [dec EXCEPT !.reasonAt = Slot(@)])

DetailField == [text |-> "text", summary |-> "summary", encrypted |-> "sig"]

ReasoningDetail(type) ==
  /\ Reading("chat")
  /\ ChatFragment(Size + 1, NewNode("thinking", type), DetailField[type], dec)

(* A call that is new may start without arguments.                         *)
ToolCallDelta ==
  /\ Reading("chat")
  /\ \/ \E i \in {j \in DOMAIN dec.nodes : dec.nodes[j].kind = "tool"} \union {Size + 1} :
          ChatFragment(i, NewNode("tool", ""), "text", dec)
     \/ /\ Size < MaxNodes[source]
        /\ Decode([dec EXCEPT !.nodes = Append(@, NewNode("tool", ""))],
                  <<NodeStartEv(Size + 1, NewNode("tool", ""))>>)

(* A content part that only Chat knows, or a custom tool: no block.        *)
ProviderItemBlock ==
  /\ Reading("chat") /\ Size < MaxNodes[source]
  /\ Decode([dec EXCEPT !.nodes = Append(@, NewNode("other", ""))],
            <<NodeStartEv(Size + 1, NewNode("other", ""))>>)

ChatFinish ==
  /\ Reading("chat")
  /\ Decode([dec EXCEPT !.st = "ended", !.completed = DOMAIN dec.nodes],
            [i \in DOMAIN dec.nodes |-> NodeDoneEv(i, dec.nodes[i])]
              \o <<ResponseDoneEv(dec.nodes)>>)

(***************************************************************************)
(* The Messages decoder: one node for every content block.                 *)
(***************************************************************************)
ContentBlockStart(kind) ==
  LET n == [NewNode(kind, "") EXCEPT !.text = IF kind = "tool" THEN <<EmptyInput>> ELSE @,
                                     !.sig  = IF kind = "redacted" THEN <<Fragment>> ELSE @]
      i == Size + 1
  IN  /\ Reading("messages") /\ i <= MaxNodes[source] /\ Cardinality(dec.active) < MaxOpen
      /\ kind = "redacted" => dec.frags < MaxFragments[source]
      /\ Decode([dec EXCEPT !.nodes = Append(@, n), !.active = @ \union {i},
                            !.frags = IF kind = "redacted" THEN @ + 1 ELSE @],
                <<NodeStartEv(i, n)>>)

DeltaField(kind) == CASE kind \in {"text", "tool", "item"} -> {"text"}
                      [] kind = "thinking" -> {"summary", "sig"}
                      [] OTHER -> {}

(* The first input_json_delta of a tool replaces its empty input.          *)
WithDelta(n, field) ==
  [n EXCEPT ![field] = IF @ = <<EmptyInput>> THEN <<Fragment>> ELSE Append(@, Fragment)]

ContentBlockDelta(i, field) ==
  LET n == dec.nodes[i]
  IN  /\ Reading("messages") /\ dec.frags < MaxFragments[source]
      /\ field \in DeltaField(n.kind)
      /\ Decode([dec EXCEPT !.nodes[i] = WithDelta(n, field), !.frags = @ + 1],
                <<NodeDeltaEv(i, n, field, Fragment, field = "summary")>>)

ContentBlockStop(i) ==
  /\ Reading("messages")
  /\ Decode([dec EXCEPT !.active = @ \ {i}, !.completed = @ \union {i}],
            <<NodeDoneEv(i, dec.nodes[i])>>)

InOrder(f, S) == FoldAscending(LAMBDA s, i : Append(s, f[i]), <<>>, S)

OrderedCompletedNodes == InOrder(dec.nodes, dec.completed)

MessageStop ==
  /\ Reading("messages")
  /\ Decode([dec EXCEPT !.st = "ended"], <<ResponseDoneEv(OrderedCompletedNodes)>>)

(***************************************************************************)
(* Both decoders: an error of the upstream, a frame that is not JSON, or a *)
(* stream that ends without its terminal event is reported as an event;    *)
(* silence beyond the idle timeout makes the stages end, and the owner of  *)
(* the stream reports it to the client.                                    *)
(***************************************************************************)
UpstreamError ==
  \E protocol \in Protocol :
    Reading(protocol) /\ Decode([NewDecoder EXCEPT !.st = "failed"], <<ErrorEv>>)

IdleTimeout ==
  /\ \E protocol \in Protocol : Reading(protocol)
  /\ dec' = [NewDecoder EXCEPT !.st = "failed"] /\ held' = <<>>
  /\ enc' = Returned(OnError(enc.client))
  /\ UNCHANGED <<source, sealed>>

ChatRead == \/ TextDelta \/ ToolCallDelta \/ ProviderItemBlock \/ ChatFinish
            \/ \E field \in {"text", "summary", "sig"} : ReasoningDelta(field)
            \/ \E type \in {"text", "summary", "encrypted"} : ReasoningDetail(type)

MessagesRead == \/ \E kind \in Shown : ContentBlockStart(kind)
                \/ \E i \in dec.active :
                     \/ ContentBlockStop(i)
                     \/ \E field \in {"text", "summary", "sig"} : ContentBlockDelta(i, field)
                \/ MessageStop

StreamNext == ChatRead \/ MessagesRead \/ UpstreamError \/ IdleTimeout

StreamSpec == StreamInit /\ [][StreamNext]_streamVars

(***************************************************************************)
(* Properties.                                                             *)
(***************************************************************************)
client == enc.client

Visible == {i \in DOMAIN dec.nodes : dec.nodes[i].kind \in Shown}

(* StreamWellFormed: whatever the order in which an upstream interleaves   *)
(* its nodes, the client never reads an event that the Messages protocol   *)
(* does not allow (blocks are numbered without a gap, one is open at a     *)
(* time, a delta belongs to the open block, the message ends after its     *)
(* last block), and once the answer has ended the client has read          *)
(* message_stop or an error, unless there was nothing to show.             *)
StreamWellFormed ==
  /\ client.st # "broken"
  /\ dec.st # "reading" => client.st \in {"stopped", "error"} \/ Visible = {}

(* A plaintext detail and the encrypted detail behind it.                  *)
DetailPair(i) == /\ {i, i + 1} \subseteq Visible
                 /\ dec.nodes[i].detail = "text" /\ dec.nodes[i + 1].detail = "encrypted"

MergedWithNext == {i \in Visible : DetailPair(i) /\ (i > 1 => i - 1 \in Visible)}

SigOf(n) == IF sealed THEN Envelope(n.sig) ELSE n.sig

(* A summary that may lack a run of chunks behind its first.               *)
LacksRun(shown, summary) ==
  \/ shown = summary
  \/ \E k \in 2 .. Len(summary) + 1 :
       shown = <<summary[1]>> \o SubSeq(summary, k, Len(summary))

(* A node that was buffered shows its raw reasoning whole, perhaps with    *)
(* its first summary chunk in front.  Where there is only a summary, as in *)
(* all thinking of a Messages upstream, the chunks that were buffered      *)
(* behind the first may be missing.                                        *)
BufferedThinking(n, shown) ==
  IF n.text = <<>> THEN LacksRun(shown, n.summary)
  ELSE \/ shown = n.text
       \/ n.summary # <<>> /\ shown = <<n.summary[1]>> \o n.text

(* A node that opened its own block shows its thinking whole.              *)
ThinkingShown(i, shown) ==
  LET n == dec.nodes[i]
  IN  IF i \in enc.direct
      THEN shown = IF source = "messages" THEN n.summary ELSE n.text
      ELSE BufferedThinking(n, shown)

BlockShows(i, b) ==
  LET n == dec.nodes[i]
  IN  /\ b.kind = n.kind
      /\ n.kind \in {"text", "tool", "item"} => b.text = n.text
      /\ n.kind = "thinking" =>
           /\ ThinkingShown(i, b.text)
           /\ b.sig = SigOf(IF i \in MergedWithNext THEN dec.nodes[i + 1] ELSE n)

Completed == client.st = "stopped" /\ dec.completed = DOMAIN dec.nodes

(* DeliveredWhole: a client that has read message_stop of an answer whose  *)
(* nodes all ended has one block for every visible node, in their order,   *)
(* a plaintext detail and the encrypted one behind it sharing a block; the *)
(* text, the arguments and the one signature are in it whole and once,     *)
(* whether they were streamed live, buffered behind another node, or       *)
(* repeated by the end of the node or of the answer.  So is the reasoning  *)
(* of a node that was live from its start; of a summary that was buffered  *)
(* only the first chunk is sure to be there, and what is shown of it comes *)
(* once and in order (ThinkingShown).                                      *)
DeliveredWhole ==
  Completed =>
    LET heads == InOrder([i \in Visible |-> i], Visible \ {i + 1 : i \in MergedWithNext})
    IN  /\ Len(client.blocks) = Len(heads)
        /\ \A k \in DOMAIN heads : BlockShows(heads[k], client.blocks[k])

(* RedactedKeepsData: a redacted_thinking block that a client has read to  *)
(* the end of the message carries the opaque data of its node (rule 1 of   *)
(* DM5.1, the comment on the start of the block in the encoder).           *)
RedactedKeepsData ==
  Completed =>
    \A k \in DOMAIN client.blocks : client.blocks[k].kind = "redacted" => client.blocks[k].sig # <<>>
=============================================================================
