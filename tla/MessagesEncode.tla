--------------------------- MODULE MessagesEncode ---------------------------
(***************************************************************************)
(* The encoder of the downstream Messages protocol                         *)
(* (urp/stream_encode/anthropic.rs): it turns the events of the unified    *)
(* protocol into the server-sent events of a Messages stream, in which one *)
(* content block is open at a time and the blocks are numbered without a   *)
(* gap.  A node that starts while an earlier one is open is buffered, and  *)
(* what it has collected is replayed once its turn comes.                  *)
(*                                                                         *)
(* The encoder is a record and every handler an operator from the record   *)
(* before to the record after; the field `client' is what a reader of the  *)
(* server-sent events has understood so far.  Content is a sequence of     *)
(* fragments, and two fragments of an upstream are never equal.  Blocks    *)
(* and nodes are numbered from one.  Usage, identifiers, the item id       *)
(* written in front of a signature, unknown fields and the splitting of    *)
(* long frames are left out.                                               *)
(***************************************************************************)
EXTENDS Naturals, Sequences, SequencesExt, Functions

(* A node of the unified protocol: the raw content (or text, or the        *)
(* arguments of a tool), the summary, the signature (or opaque payload),   *)
(* and the type of the Chat reasoning detail it was read from.             *)
NoNode == [kind |-> "none", text |-> <<>>, summary |-> <<>>, sig |-> <<>>, detail |-> ""]

Reasoning == {"thinking", "redacted"}
Shown     == {"text", "tool", "item"} \union Reasoning

(***************************************************************************)
(* The client: an event that the protocol does not allow breaks it.        *)
(***************************************************************************)
NewClient == [st |-> "new", open |-> 0, blocks |-> <<>>]
Broken    == [st |-> "broken", open |-> 0, blocks |-> <<>>]

OnMessageStart(c) == IF c.st = "new" THEN [c EXCEPT !.st = "body"] ELSE Broken

OnBlockStart(c, b, kind, data) ==
  IF c.st = "body" /\ c.open = 0 /\ b = Len(c.blocks) + 1
  THEN [c EXCEPT !.open = b,
                 !.blocks = Append(@, [kind |-> kind, text |-> <<>>, sig |-> data])]
  ELSE Broken

OnBlockDelta(c, b, field, frags) ==
  IF c.st = "body" /\ c.open = b
  THEN [c EXCEPT !.blocks[b][field] = @ \o frags]
  ELSE Broken

OnBlockStop(c, b) == IF c.st = "body" /\ c.open = b THEN [c EXCEPT !.open = 0] ELSE Broken

OnMessageStop(c) == IF c.st = "body" /\ c.open = 0 THEN [c EXCEPT !.st = "stopped"] ELSE Broken

OnError(c) == IF c.st \in {"new", "body"} THEN [c EXCEPT !.st = "error"] ELSE Broken

(***************************************************************************)
(* The encoder's own state.                                                *)
(***************************************************************************)
NewEncoder ==
  [sent |-> FALSE,      \* message_start_sent
   wanted |-> FALSE,    \* should_emit_terminal_message
   live |-> <<>>,       \* live_node_blocks: node -> payload and block (0: none)
   pending |-> <<>>,    \* pending_node_blocks: node -> payload
   next |-> 1,          \* next_flush_node_index
   blocks |-> 0,        \* next_content_block_index
   open |-> 0,          \* open_node_index (0: none)
   absorbed |-> {},     \* absorbed_signature_node_indices
   surfaces |-> {},     \* emitted_node_owned_surfaces
   over |-> FALSE,      \* the loop has returned
   direct |-> {},       \* history: nodes whose block was opened by their own start
   client |-> NewClient]

With(f, i, x) == [j \in DOMAIN f \union {i} |-> IF j = i THEN x ELSE f[j]]

Without(f, i) == Restrict(f, DOMAIN f \ {i})

Surface(kind) == IF kind \in Reasoning THEN "reasoning" ELSE kind

NoBlock == [kind |-> "none", text |-> <<>>, sig |-> <<>>, detail |-> ""]

(* The text a reasoning node ends with: its content, else its summary.     *)
TerminalText(n) == IF n.text # <<>> THEN n.text ELSE n.summary

BlockFromNode(n) ==
  IF \/ n.kind \notin Shown
     \/ n.kind = "thinking" /\ TerminalText(n) = <<>> /\ n.sig = <<>>
     \/ n.kind = "redacted" /\ n.sig = <<>>
  THEN NoBlock
  ELSE [kind |-> n.kind, text |-> TerminalText(n), sig |-> n.sig, detail |-> n.detail]

BlockFromNodeHeader(n) ==
  IF n.kind \notin Shown THEN NoBlock ELSE [NoBlock EXCEPT !.kind = n.kind, !.detail = n.detail]

(* A delta kept for later: a summary is only taken while there is no text. *)
BufferedDelta(p, d) ==
  [p EXCEPT !.text = IF d.text # <<>> THEN @ \o d.text
                     ELSE IF @ = <<>> THEN d.summary ELSE @,
            !.sig = @ \o d.sig]

(* Fault: what was sent on is not kept.                                    *)
EmittedUnrecorded(p, d) == p

(* A delta that was sent on, and that the end of the node must not repeat. *)
EmittedDelta(p, d) == [p EXCEPT !.text = @ \o TerminalText(d), !.sig = @ \o d.sig]

(* What the node says at its end replaces what was collected of it.        *)
SameSurface(p, n) == Surface(p.kind) = Surface(n.kind)

Extends(p, n) == p.kind # "item" \/ IsPrefix(p.text, n.text)

MergeTerminal(p, n) ==
  IF ~SameSurface(p, n) THEN p
  ELSE [p EXCEPT !.text = IF n.text # <<>> /\ Extends(p, n) THEN n.text
                          ELSE IF @ = <<>> THEN n.summary ELSE @,
                 !.sig  = IF n.sig # <<>> THEN n.sig ELSE @]

SendDelta(e, b, field, frags) ==
  IF frags = <<>> THEN e ELSE [e EXCEPT !.client = OnBlockDelta(@, b, field, frags)]

(* The deltas of one node delta: a summary is shown when it is marked as   *)
(* the thinking of a Messages upstream; a redacted block has none.         *)
LiveDelta(e, b, p, d) ==
  IF p.kind = "redacted" THEN e
  ELSE LET shown == IF d.text # <<>> THEN d.text ELSE IF d.marked THEN d.summary ELSE <<>>
       IN  SendDelta(SendDelta(e, b, "text", shown), b, "sig", d.sig)

PlainDelta(text, sig) == [text |-> text, summary |-> <<>>, sig |-> sig, marked |-> FALSE]

EnsureMessageStart(e) ==
  IF e.sent THEN e ELSE [e EXCEPT !.sent = TRUE, !.client = OnMessageStart(@)]

StartPayload(p) == IF p.kind = "redacted" THEN p.sig ELSE <<>>

LiveBlockStart(e, i) ==
  IF e.live[i].block # 0 THEN e
  ELSE LET b == e.blocks + 1  p == e.live[i].payload
       IN  [e EXCEPT !.blocks = b, !.live[i].block = b,
                     !.client = OnBlockStart(@, b, p.kind, StartPayload(p))]

AccumulatedDeltas(e, i) ==
  LET p == e.live[i].payload IN LiveDelta(e, e.live[i].block, p, PlainDelta(p.text, p.sig))

TryStartNextLiveBlock(e) ==
  IF e.open # 0 \/ e.next \notin DOMAIN e.live THEN e
  ELSE AccumulatedDeltas(
         [LiveBlockStart(e, e.next) EXCEPT
            !.surfaces = @ \union {Surface(e.live[e.next].payload.kind)}, !.open = e.next],
         e.next)

TextSuffix(current, terminal) ==
  IF Len(terminal) > Len(current) /\ IsPrefix(current, terminal)
  THEN SubSeq(terminal, Len(current) + 1, Len(terminal)) ELSE <<>>

(* What the end of a node adds to what was streamed of it.  An item of the *)
(* upstream's own that streamed nothing has its input in its start.        *)
TerminalSuffix(e, b, p, n) ==
  IF ~SameSurface(p, n) \/ (p.kind = "item" /\ p.text = <<>>) THEN e
  ELSE LiveDelta(e, b, p, PlainDelta(TextSuffix(p.text, TerminalText(n)), TextSuffix(p.sig, n.sig)))

(* A whole block at once.                                                  *)
EmitBlock(e, p) ==
  LET b == e.blocks + 1
      s == [e EXCEPT !.blocks = b, !.client = OnBlockStart(@, b, p.kind, StartPayload(p))]
      d == LiveDelta(s, b, p, PlainDelta(p.text, p.sig))
  IN  [d EXCEPT !.client = OnBlockStop(@, b)]

EmitPending(e, i) ==
  [EmitBlock(e, e.pending[i]) EXCEPT !.pending = Without(@, i), !.next = i + 1,
                                     !.surfaces = @ \union {Surface(e.pending[i].kind)}]

(* A loop over the keys of a BTreeMap, which are numbers.                  *)
FoldAscending(op(_, _), base, S) ==
  MapThenFoldSet(LAMBDA i, a : op(a, i), base, LAMBDA i : i, LAMBDA T : Max(T), S)

(* Fault: a finished node does not wait for the ones before it.            *)
FlushOutOfTurn(e) == FoldAscending(EmitPending, e, DOMAIN e.pending)

FlushReady(e) ==
  FoldAscending(EmitPending, e,
                {i \in DOMAIN e.pending : e.next <= i /\ e.next .. i \subseteq DOMAIN e.pending})

FlushAllRemaining(e) == FoldAscending(EmitPending, e, DOMAIN e.pending)

MarkNodeWithoutBlock(e, i) == IF i = e.next THEN FlushReady([e EXCEPT !.next = i + 1]) ELSE e

(* Chat sends plaintext and encrypted reasoning as two entries; Messages   *)
(* has one block for both.                                                 *)
CanAbsorb(p, following) ==
  /\ p.kind = "thinking" /\ p.text # <<>> /\ p.detail = "text" /\ p.sig = <<>>
  /\ following.kind = "thinking" /\ following.text = <<>>
  /\ following.detail = "encrypted" /\ following.sig # <<>>

(***************************************************************************)
(* The handlers.                                                           *)
(***************************************************************************)
OnNodeStart(e, i, n) ==
  LET p == BlockFromNodeHeader(n)
      s == [EnsureMessageStart(e) EXCEPT !.wanted = TRUE,
                                         !.live = With(@, i, [payload |-> p, block |-> 0])]
  IN  IF p = NoBlock THEN e
      ELSE IF i = e.next /\ e.open = 0
           THEN [TryStartNextLiveBlock(s) EXCEPT !.direct = @ \union {i}] ELSE s

OnNodeDelta(e, i, d) ==
  IF i \notin DOMAIN e.live THEN e
  ELSE LET l == e.live[i]
       IN  IF l.block # 0
           THEN [LiveDelta(e, l.block, l.payload, d) EXCEPT !.live[i].payload = EmittedDelta(@, d)]
           ELSE [e EXCEPT !.live[i].payload = BufferedDelta(@, d)]

LiveNodeDone(e, i, n) ==
  LET l       == e.live[i]
      absorbs == i + 1 \in DOMAIN e.live /\ CanAbsorb(l.payload, e.live[i + 1].payload)
      s       == TerminalSuffix([e EXCEPT !.live = Without(@, i)], l.block, l.payload, n)
      a       == IF absorbs
                 THEN [SendDelta(s, l.block, "sig", e.live[i + 1].payload.sig) EXCEPT
                         !.live = Without(@, i + 1), !.absorbed = @ \union {i + 1}]
                 ELSE s
      next    == IF i = e.next THEN i + 1 ELSE e.next
      z       == [a EXCEPT !.client = OnBlockStop(@, l.block),
                           !.open = IF @ = i THEN 0 ELSE @,
                           !.next = IF absorbs /\ next = i + 1 THEN i + 2 ELSE next]
  IN  TryStartNextLiveBlock(FlushReady(z))

BufferedNodeDone(e, i, n) ==
  LET p == IF i \in DOMAIN e.live THEN e.live[i].payload ELSE BlockFromNode(n)
      s == [e EXCEPT !.live = Without(@, i)]
  IN  IF p = NoBlock THEN MarkNodeWithoutBlock(s, i)
      ELSE TryStartNextLiveBlock(FlushReady(
             [s EXCEPT !.pending = With(@, i, MergeTerminal(p, n))]))

OnNodeDone(e, i, n) ==
  IF i \in e.absorbed THEN [e EXCEPT !.absorbed = @ \ {i}, !.live = Without(@, i)]
  ELSE IF i \in DOMAIN e.live /\ e.live[i].block # 0 THEN LiveNodeDone(e, i, n)
  ELSE BufferedNodeDone(e, i, n)

(* A node that never ended: the position of the node is looked up in the   *)
(* list of the nodes that did.                                             *)
RemainingNode(out, e, i) ==
  LET l == e.live[i]
      n == IF i \in DOMAIN out THEN out[i] ELSE NoNode
      s == [e EXCEPT !.live = Without(@, i)]
  IN  IF l.block # 0
      THEN [TerminalSuffix(s, l.block, l.payload, n) EXCEPT !.client = OnBlockStop(@, l.block)]
      ELSE [s EXCEPT !.pending = With(@, i, MergeTerminal(l.payload, n))]

RemainingLiveNodeBlocks(e, out) ==
  FoldAscending(LAMBDA a, i : RemainingNode(out, a, i), e, DOMAIN e.live)

(* Nodes of a surface of which nothing was sent.                           *)
Fallback(e, out) ==
  FoldLeft(LAMBDA a, n : LET p == BlockFromNode(n)
                         IN  IF p = NoBlock \/ Surface(p.kind) \in e.surfaces THEN a
                             ELSE EmitBlock(a, p),
           e, out)

OnResponseDone(e, out) ==
  LET wanted == \/ e.wanted \/ DOMAIN e.pending # {} \/ DOMAIN e.live # {}
                \/ \E k \in DOMAIN out : BlockFromNode(out[k]) # NoBlock
      r == RemainingLiveNodeBlocks([EnsureMessageStart(e) EXCEPT !.wanted = wanted], out)
      f == Fallback(FlushAllRemaining(r), out)
  IN  IF ~wanted /\ ~e.sent THEN e
      ELSE [f EXCEPT !.client = OnMessageStop(@), !.over = TRUE]

(* With the task that has returned its state is gone.                      *)
Returned(c) == [NewEncoder EXCEPT !.over = TRUE, !.client = c]

OnStreamError(e) == Returned(OnError(EnsureMessageStart(e).client))
=============================================================================
