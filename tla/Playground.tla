----------------------------- MODULE Playground -----------------------------
(***************************************************************************)
(* The chat playground of the dashboard (web/src/features/playground): the *)
(* conversation, the request that is filling its last message, and the copy*)
(* in localStorage.                                                        *)
(*                                                                         *)
(* A click is handled and rendered before anything else runs; a timer, an  *)
(* event of the stream or a response only queues updates, which React      *)
(* renders later.  An update is a function of the conversation at the time *)
(* it is evaluated and looks at requestGenerationRef then; React evaluates *)
(* the first update of an empty queue at once, or does not.                *)
(*                                                                         *)
(* A message that request r fills has the id r; of its text the model keeps*)
(* which pieces of which answer it is made of, and a piece of which only   *)
(* the end was taken counts as one.  The reasoning of an answer goes the   *)
(* same way as its content, beside it: the text is either.  Generations are*)
(* compared only for equality and each belongs to one request or to none:  *)
(* they are named r or 0.                                                  *)
(***************************************************************************)
EXTENDS Naturals, Sequences, FiniteSets, SequencesExt

CONSTANTS
    MaxSends,   \* bound: requests, with the one of the stored conversation
    MaxPieces,  \* bound: pieces of all answers, with that of the stored conversation
    MaxChanges, \* bound: edits opened, deletions and clearings
    MaxPages,   \* bound: times the page is opened
    MaxStored,  \* MAX_STORED_MESSAGES
    Text        \* what the pieces say: Text[<<r, k>>] is a sequence of characters

ASSUME PlaygroundAssumption ==
    /\ MaxSends \in Nat /\ MaxPieces \in Nat /\ MaxChanges \in Nat /\ MaxPages \in Nat
    /\ MaxStored \in Nat \ {0}
    /\ \A p \in (1..MaxSends) \X (1..MaxPieces) : Text[p] # <<>>

VARIABLES
    pages,      \* times the page was opened
    mounted,
    msgs, ui,   \* messages, isRequesting and isStreaming as rendered
    want,       \* the two flags as last set
    box,        \* updates not rendered, latestMessagesRef, is a save due?
    stored,     \* localStorage
    synced,     \* has it what this page loaded or saved last?
    gen,        \* requestGenerationRef
    buf, timer, \* pendingStreamChunksRef; is the flush timer set?
    cgen, source, \* the controller's generation, and the request it streams, or 0
    reqs,       \* the requests sent
    editing,    \* editingMessageKey, or <<>>
    changes     \* edits opened, deletions and clearings so far

screen == <<msgs, ui, want, box>>
chat   == <<gen, buf, timer, cgen, source, reqs>>
page   == <<pages, mounted, stored, synced, changes>>
vars   == <<screen, chat, page, editing>>

Off == [req |-> FALSE, str |-> FALSE]

-----------------------------------------------------------------------------
(* Messages.                                                               *)

Message(from, id, status) ==
    [from |-> from, id |-> id, status |-> status, text |-> <<>>, edited |-> FALSE]

\* A browser that has one conversation in its storage.
Init ==
    /\ pages = 0 /\ mounted = FALSE /\ synced = FALSE /\ changes = 0
    /\ msgs = <<>> /\ ui = Off /\ want = Off
    /\ box = [queue |-> <<>>, latest |-> <<>>, saving |-> FALSE]
    /\ stored = <<Message("user", 1, "none"),
                 [Message("assistant", 1, "complete") EXCEPT !.text = <<<<1, 1>>>>]>>
    /\ gen = 0 /\ buf = [gen |-> 0, text |-> <<>>] /\ timer = FALSE
    /\ cgen = 0 /\ source = 0
    /\ reqs = <<[phase |-> "over", got |-> 1, whole |-> FALSE, raced |-> FALSE]>>
    /\ editing = <<>>

Key(m) == <<m.from, m.id>>

Pending(m) == m.status \in {"loading", "streaming"}

\* An error leaves its own text in the message.
HasContent(m) == m.from = "user" \/ m.status = "error" \/ m.edited \/ m.text # <<>>

\* The text of a sequence of pieces.
Words(t) == FlattenSeq([k \in DOMAIN t |-> Text[t[k]]])

\* A chunk that begins with all the text before it is taken for a newer copy of it.
Repeats(chunk, before) == before # <<>> /\ IsPrefix(Words(before), Words(chunk))

\* mergePendingStreamChunk.
Merged(before, chunk) == IF Repeats(chunk, before) THEN chunk ELSE before \o chunk

\* getAppendableChunk: the pieces of the chunk that are not wholly cut off.
Appendable(before, chunk) ==
    LET cut == {k \in DOMAIN chunk : Len(Words(SubSeq(chunk, 1, k))) <= Len(Words(before))}
    IN  IF Repeats(chunk, before) THEN SubSeq(chunk, Cardinality(cut) + 1, Len(chunk)) ELSE chunk

\* applyStreamingChunk, completeAssistantMessage, updateAssistantMessageWithError
\* and applyChatCompletionResponse.
Changed(u, m) ==
    CASE u.op = "append" -> IF m.status = "error" THEN m
                            ELSE [m EXCEPT !.text = @ \o Appendable(@, u.val), !.status = "streaming"]
      [] u.op = "complete" -> IF Pending(m) THEN [m EXCEPT !.status = "complete"] ELSE m
      [] u.op = "error" -> [m EXCEPT !.text = <<>>, !.edited = FALSE, !.status = "error"]
      [] u.op = "answer" -> [m EXCEPT !.text = u.val, !.edited = FALSE, !.status = "complete"]

\* updateLastAssistantMessage.
UpdateLast(u, ms) ==
    IF ms = <<>> \/ Last(ms).from # "assistant" THEN ms
    ELSE [ms EXCEPT ![Len(ms)] = Changed(u, @)]

\* normalizeStoredMessageForLoad: what has text is complete.
Normalized(ms) ==
    [i \in DOMAIN ms |->
        IF Pending(ms[i]) /\ HasContent(ms[i]) THEN [ms[i] EXCEPT !.status = "complete"] ELSE ms[i]]

\* sanitizeMessagesOnLoad, for the last message that is still pending.
Sanitize(ms) ==
    LET n == Normalized(ms)
        open == {i \in DOMAIN n : Pending(n[i])}
    IN  [i \in DOMAIN n |->
            IF i \in open /\ \A j \in open : j <= i THEN Changed([op |-> "error"], n[i]) ELSE n[i]]

-----------------------------------------------------------------------------
(* Updates.                                                                *)

Update(op, g, val) == [op |-> op, gen |-> g, val |-> val]

\* The messages of ms that have another key.
Without(ms, key) ==
    LET kept[i \in 0..Len(ms)] ==
            IF i = 0 THEN <<>>
            ELSE IF Key(ms[i]) = key THEN kept[i - 1] ELSE Append(kept[i - 1], ms[i])
    IN  kept[Len(ms)]

\* What an update makes of the messages ms while the generation is g.
Evaluate(u, ms, g) ==
    CASE u.op \in {"set", "computed"} -> u.val
      [] u.op = "remove" -> Without(ms, u.val)
      [] OTHER -> IF u.gen = g THEN UpdateLast(u, ms) ELSE ms

\* updateMessages.  Whoever evaluates the update persists the result.
Put(b, u, g, eager) ==
    IF eager /\ b.queue = <<>>
      THEN LET v == Evaluate(u, msgs, g)
           IN  [queue |-> <<Update("computed", 0, v)>>, latest |-> v, saving |-> TRUE]
      ELSE [b EXCEPT !.queue = Append(@, u)]

\* Mutant of Persist: a save that is due is not put off.
PersistOnce(b, v) == IF b.saving THEN b ELSE [b EXCEPT !.latest = v, !.saving = TRUE]

\* persistMessages.
Persist(b, v) == [b EXCEPT !.latest = v, !.saving = TRUE]

\* What the updates q make of the messages ms, one after the other.
Rendered(q, ms, g) ==
    LET after[i \in 0..Len(q)] == IF i = 0 THEN ms ELSE Evaluate(q[i], after[i - 1], g)
    IN  after[Len(q)]

\* The queue b.queue is rendered, with the flags w, while the generation is g.
Show(b, g, w) ==
    LET v == Rendered(b.queue, msgs, g)
        d == [b EXCEPT !.queue = <<>>]
    IN  /\ msgs' = v
        /\ box' = IF \E i \in DOMAIN b.queue : b.queue[i].op # "computed" THEN Persist(d, v) ELSE d
        /\ ui' = w /\ want' = w

Later(b, w) == box' = b /\ want' = w /\ UNCHANGED <<msgs, ui>>

Render ==
    /\ mounted /\ (box.queue # <<>> \/ want # ui)
    /\ Show(box, gen, want)
    /\ UNCHANGED <<chat, page, editing>>

-----------------------------------------------------------------------------
(* Sending, from a click.                                                  *)

Generating == ui.req \/ ui.str

NextId == Len(reqs) + 1

\* abortControllerRef.current?.abort(): a response on its way is ignored.
Aborted == [r \in DOMAIN reqs |->
    IF reqs[r].phase = "sent" THEN [reqs[r] EXCEPT !.phase = "over"] ELSE reqs[r]]

\* Mutant of Discard: the pieces stay for the next answer.
DiscardTimer(g) == buf' = [buf EXCEPT !.gen = g] /\ timer' = FALSE

\* discardPendingStreamUpdates.
Discard(g) == buf' = [gen |-> g, text |-> <<>>] /\ timer' = FALSE

\* stopStream, and the first lines of the controller's send.
Supersede(g) == cgen' = g /\ source' = 0

\* sendStreamingChat and sendNonStreamingChat, with the conversation ms.
SendChat(ms) ==
    /\ Len(reqs) < MaxSends
    /\ gen' = NextId /\ Discard(NextId) /\ Supersede(NextId)
    /\ \E phase \in {"headers", "sent"} :
        reqs' = Append(Aborted, [phase |-> phase, got |-> 0, whole |-> FALSE, raced |-> FALSE])
    /\ Show(Put(box, Update("set", 0, ms), gen, FALSE), NextId, [req |-> TRUE, str |-> FALSE])
    /\ UNCHANGED page

\* The bound on edits, deletions and clearings.
Count == changes < MaxChanges /\ changes' = changes + 1

\* A click that only changes the conversation.
Change(u) ==
    /\ Show(Put(box, u, gen, FALSE), gen, want)
    /\ UNCHANGED <<gen, buf, timer, cgen, source, pages, mounted, stored, synced>>

Idle == mounted /\ ~Generating

\* The messages that show their actions; the one in the editor shows none.
Shown == {i \in DOMAIN msgs : Key(msgs[i]) # editing}

HandleSendMessage ==
    /\ Idle
    /\ SendChat(msgs \o <<Message("user", NextId, "none"), Message("assistant", NextId, "loading")>>)
    /\ UNCHANGED editing

HandleRegenerateMessage ==
    /\ Idle
    /\ \E i \in Shown :
        /\ HasContent(msgs[i]) /\ ~Pending(msgs[i])
        /\ SendChat(SubSeq(msgs, 1, IF msgs[i].from = "user" THEN i ELSE i - 1)
                      \o <<Message("assistant", NextId, "loading")>>)
    /\ UNCHANGED editing

HandleDeleteMessage ==
    /\ Idle /\ Count
    /\ \E i \in Shown : Change(Update("remove", 0, Key(msgs[i])))
    /\ UNCHANGED <<editing, reqs>>

HandleClearMessages ==
    /\ Idle /\ msgs # <<>> /\ Count
    /\ Change(Update("set", 0, <<>>))
    /\ editing' = <<>>
    /\ UNCHANGED reqs

HandleEditMessage ==
    /\ Idle /\ Count
    /\ \E i \in Shown : HasContent(msgs[i]) /\ editing' = Key(msgs[i])
    /\ UNCHANGED <<screen, chat, pages, mounted, stored, synced>>

HandleEditOpenChange ==
    /\ mounted /\ editing # <<>> /\ editing' = <<>>
    /\ UNCHANGED <<screen, chat, page>>

\* applyEdit puts the conversation as it was rendered in place of whatever is
\* queued; `raced` remembers that an answer was being filled by the queue.
ApplyEdit ==
    /\ mounted /\ editing # <<>>
    /\ \E i \in DOMAIN msgs :
        LET ms == [msgs EXCEPT ![i].text = <<>>, ![i].edited = TRUE] IN
        /\ Key(msgs[i]) = editing
        /\ \/ /\ Change(Update("set", 0, ms)) /\ UNCHANGED changes
              /\ reqs' = [r \in DOMAIN reqs |->
                    IF box.queue # <<>> /\ r = Last(msgs).id THEN [reqs[r] EXCEPT !.raced = TRUE]
                    ELSE reqs[r]]
           \/ /\ msgs[i].from = "user"
              /\ SendChat(SubSeq(ms, 1, i) \o <<Message("assistant", NextId, "loading")>>)
    /\ editing' = <<>>

-----------------------------------------------------------------------------
(* What comes back.                                                        *)

\* flushStreamUpdates: the buffered pieces become an update.
Flush(g, eager) ==
    IF g = gen /\ buf.gen = g /\ buf.text # <<>>
      THEN Put(box, Update("append", g, buf.text), g, eager) ELSE box

Flushed(g) ==
    IF g = gen THEN /\ timer' = FALSE
                    /\ buf' = IF buf.gen = g THEN [buf EXCEPT !.text = <<>>] ELSE buf
               ELSE UNCHANGED <<buf, timer>>

\* The timer of scheduleStreamFlush.
FlushTimer ==
    /\ mounted /\ timer
    /\ \E eager \in BOOLEAN : Later(Flush(gen, eager), want)
    /\ Flushed(gen)
    /\ UNCHANGED <<gen, cgen, source, reqs, page, editing>>

\* handleStreamComplete and handleStreamError of request r, in the state st of
\* the stream.
Handle(r, op, st) ==
    /\ Flushed(r)
    /\ IF r = gen
         THEN \E eager \in BOOLEAN :
                Later(Put(Flush(r, eager), Update(op, r, <<>>), r, FALSE), [req |-> FALSE, str |-> st])
         ELSE Later(box, [want EXCEPT !.str = st])
    /\ UNCHANGED <<gen, cgen, page, editing>>

Phase(r, p) == reqs' = [reqs EXCEPT ![r].phase = p]

\* send, after getHeaders.
Headers(r) ==
    /\ reqs[r].phase = "headers"
    /\ IF r # cgen
         THEN /\ Phase(r, "over")
              /\ UNCHANGED <<screen, gen, buf, timer, cgen, source, page, editing>>
         ELSE \/ /\ Phase(r, "open") /\ source' = r
                 /\ Later(box, [want EXCEPT !.str = TRUE])
                 /\ UNCHANGED <<gen, buf, timer, cgen, page, editing>>
              \/ /\ Phase(r, "over") /\ Handle(r, "error", want.str)
                 /\ UNCHANGED source

IsCurrent(r) == reqs[r].phase = "open" /\ cgen = r /\ source = r

\* The pieces of the answers so far.
Delivered == UNION {{<<r, k>> : k \in 1..reqs[r].got} : r \in DOMAIN reqs}

\* handleStreamUpdate.
StreamPiece(r) ==
    LET n == reqs[r].got + 1
    IN  /\ IsCurrent(r) /\ Cardinality(Delivered) < MaxPieces
        /\ reqs' = [reqs EXCEPT ![r].got = n]
        /\ IF r = gen /\ buf.gen = r
             THEN /\ buf' = [buf EXCEPT !.text = Merged(@, <<<<r, n>>>>)]
                  /\ timer' = TRUE
             ELSE UNCHANGED <<buf, timer>>
        /\ UNCHANGED <<screen, gen, cgen, source, page, editing>>

\* [DONE].
StreamDone(r) ==
    /\ IsCurrent(r)
    /\ reqs' = [reqs EXCEPT ![r].phase = "over", ![r].whole = TRUE]
    /\ source' = 0
    /\ Handle(r, "complete", FALSE)

\* An error event, a status other than 200, a message that cannot be parsed.
StreamError(r) ==
    /\ IsCurrent(r)
    /\ Phase(r, "over") /\ source' = 0
    /\ Handle(r, "error", FALSE)

\* The connection ends with status 200 and without [DONE]: no handler acts.
StreamEnds(r) ==
    /\ IsCurrent(r)
    /\ Phase(r, "over")
    /\ UNCHANGED <<screen, gen, buf, timer, cgen, source, page, editing>>

\* sendNonStreamingChat, after sendChatCompletion.
Response(r) ==
    /\ reqs[r].phase = "sent"
    /\ \/ /\ reqs' = [reqs EXCEPT ![r].phase = "over", ![r].got = 1, ![r].whole = TRUE]
          /\ \E eager \in BOOLEAN :
               Later(Put(box, Update("answer", r, <<<<r, 1>>>>), gen, eager),
                     [want EXCEPT !.req = FALSE])
          /\ UNCHANGED <<gen, buf, timer, cgen, page, editing>>
       \/ Phase(r, "over") /\ Handle(r, "error", want.str)
    /\ UNCHANGED source

\* Mutant of StopGeneration: the message is left as it is.
StopWithoutEnd ==
    /\ mounted /\ Generating
    /\ \E eager \in BOOLEAN : Show(Flush(gen, eager), 0, Off)
    /\ gen' = 0 /\ Discard(0) /\ Supersede(0)
    /\ reqs' = [r \in DOMAIN reqs |-> [Aborted[r] EXCEPT !.whole = @ /\ r # gen]]
    /\ UNCHANGED <<page, editing>>

\* stopGeneration.  Its own flush, and what is still queued, is dropped unless
\* it was evaluated at once: a stopped answer need not be whole.
StopGeneration ==
    /\ mounted /\ Generating
    /\ \E eager \in BOOLEAN :
        Show(Put(Flush(gen, eager), Update("complete", 0, <<>>), 0, FALSE), 0, Off)
    /\ gen' = 0 /\ Discard(0) /\ Supersede(0)
    /\ reqs' = [r \in DOMAIN reqs |-> [Aborted[r] EXCEPT !.whole = @ /\ r # gen]]
    /\ UNCHANGED <<page, editing>>

-----------------------------------------------------------------------------
(* The page and its copy.                                                  *)

\* trimMessages.
Trim(ms) == SubSeq(ms, IF Len(ms) > MaxStored THEN Len(ms) - MaxStored + 1 ELSE 1, Len(ms))

\* saveMessages: nothing is stored without a user or when the storage refuses,
\* which is logged and not tried again.
Save(ms) ==
    \/ stored' = Trim(ms) /\ synced' = TRUE
    \/ UNCHANGED stored /\ synced' = FALSE

\* MESSAGE_SAVE_DEBOUNCE_MS after the last update.
SaveTimer ==
    /\ mounted /\ box.saving
    /\ Save(box.latest) /\ box' = [box EXCEPT !.saving = FALSE]
    /\ UNCHANGED <<msgs, ui, want, chat, pages, mounted, changes, editing>>

\* loadMessages, by a timer of 0 ms, before the user can act.  What was loaded is
\* saved again; a copy that cannot be read is left alone, one that is too large
\* removed.
Mount ==
    /\ ~mounted /\ pages < MaxPages
    /\ mounted' = TRUE /\ pages' = pages + 1
    /\ \/ msgs' = Sanitize(Trim(stored)) /\ Save(msgs')
       \/ msgs' = <<>> /\ stored' \in {stored, <<>>} /\ synced' = (stored' = <<>>)
    /\ box' = [queue |-> <<>>, latest |-> msgs', saving |-> FALSE]
    /\ UNCHANGED <<ui, want, chat, changes, editing>>

\* Another page is opened and the hooks clean up, which saves what is due; or
\* the document is reloaded, or the user has signed out and nothing is saved.
\* The answers of this page end with it.
Unmount ==
    /\ mounted /\ mounted' = FALSE
    /\ stored' \in {stored, IF box.saving THEN Trim(box.latest) ELSE stored}
    /\ msgs' = <<>> /\ ui' = Off /\ want' = Off /\ editing' = <<>>
    /\ box' = [queue |-> <<>>, latest |-> <<>>, saving |-> FALSE]
    /\ gen' = 0 /\ Discard(0) /\ Supersede(0)
    /\ reqs' = [r \in DOMAIN reqs |-> [reqs[r] EXCEPT !.phase = "over", !.whole = FALSE]]
    /\ synced' = FALSE
    /\ UNCHANGED <<pages, changes>>

\* Another tab saves its own conversation in the same place.  An empty one stands
\* for it.
OtherTab ==
    /\ stored # <<>> /\ stored' = <<>> /\ synced' = FALSE
    /\ UNCHANGED <<screen, chat, pages, mounted, changes, editing>>

Next ==
    \/ Render \/ FlushTimer \/ SaveTimer \/ Mount \/ Unmount \/ OtherTab
    \/ HandleSendMessage \/ HandleRegenerateMessage \/ HandleDeleteMessage
    \/ HandleClearMessages \/ HandleEditMessage \/ HandleEditOpenChange \/ ApplyEdit
    \/ StopGeneration
    \/ \E r \in DOMAIN reqs :
        \/ Headers(r) \/ StreamPiece(r) \/ StreamDone(r) \/ StreamError(r) \/ StreamEnds(r)
        \/ Response(r)

Spec == Init /\ [][Next]_vars

-----------------------------------------------------------------------------
(* Properties.                                                             *)

\* The first n pieces of the answer r have a run that begins with the text of the
\* run just before it.
Run(r, i, j) == [k \in 1..(j - i + 1) |-> <<r, i + k - 1>>]
Stutters(r, n) ==
    \E k \in 1..n : \E j \in 1..(k - 1) : \E i \in 1..j :
        Repeats(Run(r, j + 1, k), Run(r, i, j))

\* However answers are overtaken, stopped and flushed, a message on the screen,
\* waiting to be saved or saved holds pieces of the one answer it was created for.
\* Unless an edit was saved while updates waited to be rendered, it has them in
\* order and none twice; and if moreover the answer does not repeat itself, which
\* the code takes for a newer copy of the same text, it has them without gaps, and
\* all of them once the answer has ended normally.
OwnAnswer ==
    \A ms \in {msgs, box.latest, stored} : \A i \in DOMAIN ms :
        LET m == ms[i]
            q == reqs[m.id]
        IN  m.from = "assistant" =>
                /\ \A k \in DOMAIN m.text : m.text[k][1] = m.id
                /\ ~q.raced => \A j, k \in DOMAIN m.text : j < k => m.text[j][2] < m.text[k][2]
                /\ ~q.raced /\ ~Stutters(m.id, q.got) =>
                    /\ \A k \in DOMAIN m.text : m.text[k][2] = k
                    /\ m.status = "complete" /\ q.whole /\ ~m.edited => Len(m.text) = q.got

\* When the page neither generates nor has anything to render, no message is
\* left waiting for an answer that will never come: not after an error, a stop,
\* a resubmitted edit or a reload in the middle of an answer.  A message whose end
\* was replaced by an edit, saved while that end waited to be rendered, is left
\* waiting by the code and is excepted (`raced').
Settled ==
    mounted /\ ~Generating /\ want = ui /\ box.queue = <<>> =>
        \A i \in DOMAIN msgs : Pending(msgs[i]) => reqs[msgs[i].id].raced

\* When nothing is queued and no save is due, localStorage has the end of what is
\* shown, however updates, renders and timers overlapped; unless the last save or
\* load failed or another tab has written since.
Saved == mounted /\ synced /\ box.queue = <<>> /\ ~box.saving => stored = Trim(msgs)

=============================================================================
