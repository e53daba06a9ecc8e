----------------------------- MODULE Playground -----------------------------
(***************************************************************************)
(* The chat of the playground page: hooks/playground/useApiRequest.jsx,    *)
(* useMessageActions.jsx, useMessageEdit.jsx, usePlaygroundState.js,       *)
(* pages/Playground/index.jsx and components/playground/configStorage.js.  *)
(*                                                                         *)
(* One page, one thread: clicks, events of a stream or of a fetch, and     *)
(* timers run one after the other, in any order.  Every handler works on   *)
(* the LAST message of the list; nothing ties an answer to its request.    *)
(* The text of a message is the set of its authors: 0 is the user, r the   *)
(* answer of request r.  A message has the id that the code gives it, which *)
(* is not unique: the counter restarts with the page, stored messages keep *)
(* their ids.  Its key tells it from every other message in the model.     *)
(* Left out: request bodies, reasoning and debug panels, the custom request *)
(* body, importing a configuration file.                                   *)
(***************************************************************************)
EXTENDS Integers, Sequences, FiniteSets

CONSTANTS
    MaxRequests, \* bound: requests of all page loads
    MaxSaves,    \* bound: saves waiting in setTimeout(..., 0)
    MaxClicks    \* bound: what the user does

ASSUME PlaygroundConstants ==
    MaxRequests \in Nat \ {0} /\ MaxSaves \in Nat \ {0} /\ MaxClicks \in Nat

VARIABLES
    message,      \* the list of messages
    requests,     \* per request: its kind, and whether events may still come
    sseSourceRef, \* the request of sseSourceRef.current, 0 for null
    saves,        \* lists waiting to be saved, in the order of their timers
    saved,        \* localStorage: <<list>>, or <<>> without an entry
    stored,       \* history: the last setItem of this page load did not throw
    firstVisit,   \* there was no entry when the page was loaded
    nextId,       \* messageId, the counter behind generateMessageId
    resends,      \* 100 ms timers of handleMessageReset
    regenerations,\* 100 ms timers of a regeneration after an edit
    restoring,    \* zero timer of handleConfigReset
    editing,      \* editingMessageRef.current: the message under edit, or NoMessage
    dialog,       \* the confirmation on screen, with what its closure captured
    crashed,      \* an updater threw: the error boundary replaced the page
    overlapped,   \* history: requests that were unfinished beside another one
    clicks        \* how often the user acted

timers == <<resends, regenerations, restoring>>
vars == <<message, requests, sseSourceRef, saves, saved, stored, firstVisit, nextId, timers,
          editing, dialog, crashed, overlapped, clicks>>

Requests   == 1..MaxRequests
Generating == {"loading", "incomplete"}
Finished   == {"complete", "error"}
Closed     == [kind |-> "closed"]
NoMessage  == [key |-> 0, id |-> 0]
FirstId    == 4                             \* messageId when the page is loaded

IsOpen(r) == requests[r].open
Used      == {r \in Requests : requests[r].kind # "none"}
NextRequest     == Cardinality(Used) + 1    \* the request sent next
LastMessage     == message[Len(message)]

\* createMessage, createLoadingAssistantMessage; own is the request that asked.
UserMessage(r, id) == [key |-> 2 * r + 1, id |-> id, role |-> "user", status |-> "none",
                       own |-> 0, text |-> {0}]
LoadingMessage(r, id) == [key |-> 2 * r + 2, id |-> id, role |-> "assistant",
                          status |-> "loading", own |-> r, text |-> {}]

\* getDefaultMessages.
DefaultMessages == <<UserMessage(0, 2), [LoadingMessage(0, 3) EXCEPT !.status = "none",
                                                                    !.text = {0}]>>

Init ==
    /\ message = DefaultMessages /\ saved = <<>> /\ saves = <<>> /\ stored = TRUE
    /\ firstVisit = TRUE /\ nextId = FirstId
    /\ requests = [r \in Requests |-> [kind |-> "none", open |-> FALSE]]
    /\ sseSourceRef = 0 /\ resends = 0 /\ regenerations = 0 /\ restoring = FALSE
    /\ editing = NoMessage /\ dialog = Closed /\ crashed = FALSE /\ overlapped = {} /\ clicks = 0

-----------------------------------------------------------------------------
(* Helpers: the list, its saves, and requests.                             *)

\* Mutant of SetLast: off by one.
SetLastButOne(m) ==
    IF Len(message) > 1 THEN [message EXCEPT ![Len(message) - 1] = m] ELSE <<m>>

SetLast(m) == [message EXCEPT ![Len(message)] = m]

\* setTimeout(() => saveMessages(list), 0).
Save(list) == Len(saves) < MaxSaves /\ saves' = Append(saves, list)

\* Where m is: by reference (only a handler's own change makes another object of
\* a message), or else the first message of its id.
OfId(id) == {i \in DOMAIN message : message[i].id = id}
Place(m) ==
    LET same == {i \in DOMAIN message : message[i] = m}
    IN  IF same # {} THEN same ELSE {i \in OfId(m.id) : \A j \in OfId(m.id) : i <= j}

\* list without the messages at the places in gone.
RankIn(k, places) == Cardinality({j \in places : j <= k})
Without(list, gone) ==
    LET kept == DOMAIN list \ gone
    IN  [i \in 1 .. Cardinality(kept) |-> list[CHOOSE k \in kept : RankIn(k, kept) = i]]

Unfinished(r) ==
    IsOpen(r) \/ \E i \in DOMAIN message : message[i].own = r /\ message[i].status \in Generating

\* sendRequest: a stream also becomes the source that Stop will close.
SendRequest(r, kind, opens) ==
    LET unfinished == {q \in Requests : Unfinished(q)} IN
    /\ requests' = [requests EXCEPT ![r] = [kind |-> kind, open |-> opens]]
    /\ sseSourceRef' = IF kind = "sse" THEN r ELSE sseSourceRef
    /\ overlapped' = IF unfinished # {} THEN overlapped \cup unfinished \cup {r}
                     ELSE overlapped

Close(r) == requests' = [requests EXCEPT ![r].open = FALSE]

\* Mutant of StreamMessageUpdate: a late chunk reopens what was finished.
StreamMessageUpdateAlways(r) ==
    IF message # <<>> /\ LastMessage.role = "assistant"
    THEN SetLast([LastMessage EXCEPT !.status = "incomplete", !.text = @ \cup {r}])
    ELSE message

\* Mutant of StreamMessageUpdate: every message of the assistant takes the text.
StreamMessageUpdateAll(r) ==
    [i \in DOMAIN message |->
        IF message[i].role = "assistant"
        THEN [message[i] EXCEPT !.text = @ \cup {r}] ELSE message[i]]

\* streamMessageUpdate: text goes to the last message, if that is generating.
StreamMessageUpdate(r) ==
    IF message # <<>> /\ LastMessage.role = "assistant" /\ LastMessage.status \in Generating
    THEN SetLast([LastMessage EXCEPT !.status = "incomplete", !.text = @ \cup {r}])
    ELSE message

\* Mutant of Complete: the list is saved as it was before.
CompleteSavesOld(list, status) ==
    IF list[Len(list)].status \in Finished THEN message' = list /\ UNCHANGED saves
    ELSE message' = [list EXCEPT ![Len(list)].status = status] /\ Save(list)

\* completeMessage on a list that is not empty.
Complete(list, status) ==
    IF list[Len(list)].status \in Finished THEN message' = list /\ UNCHANGED saves
    ELSE LET done == [list EXCEPT ![Len(list)].status = status]
         IN  message' = done /\ Save(done)

\* completeMessage; on an empty list lastMessage.status throws.
CompleteMessage(list, status) ==
    IF list = <<>> THEN crashed' = TRUE /\ UNCHANGED <<message, saves>>
    ELSE Complete(list, status) /\ UNCHANGED crashed

-----------------------------------------------------------------------------
(* Sending.                                                                *)

\* onMessageSend, default mode: of three ids the first is not used, and the user's
\* message takes the last.  Starting a stream may throw at once.
OnMessageSend(kind, starts) ==
    /\ NextRequest \in Requests
    /\ nextId' = nextId + 3
    /\ LET list == message \o <<UserMessage(NextRequest, nextId + 2),
                               LoadingMessage(NextRequest, nextId + 1)>> IN
       /\ IF starts THEN message' = list /\ Save(list)
          ELSE /\ kind = "sse" /\ Len(saves) + 1 < MaxSaves
               /\ LET failed == [list EXCEPT ![Len(list)].status = "error",
                                             ![Len(list)].text = {NextRequest}]
                  IN  message' = failed /\ saves' = saves \o <<list, failed>>
       /\ SendRequest(NextRequest, kind, starts)
    /\ UNCHANGED <<saved, stored, firstVisit, editing, dialog, crashed>>

\* The page takes clicks: no dialog is open, and zero timers have run.
Idle == ~crashed /\ dialog = Closed /\ saves = <<>> /\ ~restoring

\* The chat component (external) takes no input while the last message is generating.
Send(kind, starts) ==
    /\ Idle /\ (message # <<>> => LastMessage.status \notin Generating)
    /\ NextRequest + resends + regenerations \in Requests
    /\ OnMessageSend(kind, starts)
    /\ UNCHANGED timers

ResendTimer(kind, starts) ==
    /\ resends > 0 /\ ~crashed
    /\ resends' = resends - 1
    /\ OnMessageSend(kind, starts)
    /\ UNCHANGED <<regenerations, restoring>>

\* The second timer of "regenerate": only a loading message, which is not saved.
RegenerateTimer(kind) ==
    /\ regenerations > 0 /\ ~crashed /\ NextRequest \in Requests
    /\ regenerations' = regenerations - 1
    /\ nextId' = nextId + 1
    /\ message' = Append(message, LoadingMessage(NextRequest, nextId))
    /\ SendRequest(NextRequest, kind, TRUE)
    /\ UNCHANGED <<saves, saved, stored, firstVisit, resends, restoring, editing, dialog,
                   crashed>>

-----------------------------------------------------------------------------
(* Answers.                                                                *)

IsStream(r) == requests[r].kind = "sse" /\ IsOpen(r) /\ ~crashed
IsFetch(r)  == requests[r].kind = "fetch" /\ IsOpen(r) /\ ~crashed
page == <<saved, stored, firstVisit, nextId, timers, editing, dialog, overlapped>>

StreamChunk(r) ==
    /\ IsStream(r)
    /\ message' = StreamMessageUpdate(r)
    /\ UNCHANGED <<requests, sseSourceRef, saves, crashed, page>>

\* [DONE] forgets the current source, whichever it is.
StreamDone(r) ==
    /\ IsStream(r)
    /\ Close(r) /\ sseSourceRef' = 0
    /\ CompleteMessage(message, "complete")
    /\ UNCHANGED page

\* Data that does not parse: an error in the message, but the stream stays open.
StreamGarbage(r) ==
    /\ IsStream(r)
    /\ CompleteMessage(StreamMessageUpdate(r), "error")
    /\ UNCHANGED <<requests, sseSourceRef, page>>

\* 'error': whatever the last message is, even the user's.
StreamError(r) ==
    /\ IsStream(r)
    /\ Close(r) /\ sseSourceRef' = 0
    /\ message' = IF message # <<>> /\ LastMessage.status \notin Finished
                  THEN SetLast([LastMessage EXCEPT !.status = "error", !.text = @ \cup {r}])
                  ELSE message
    /\ UNCHANGED <<saves, crashed, page>>

\* A stream that ends without [DONE]: no listener.
StreamEnd(r) ==
    /\ IsStream(r)
    /\ Close(r)
    /\ UNCHANGED <<message, sseSourceRef, saves, crashed, page>>

\* handleNonStreamRequest after its await: only a loading message takes the answer.
FetchAnswer(r, status) ==
    /\ IsFetch(r)
    /\ Close(r)
    /\ message' = IF message # <<>> /\ LastMessage.status = "loading"
                  THEN SetLast([LastMessage EXCEPT !.status = status, !.text = {r}])
                  ELSE message
    /\ UNCHANGED <<sseSourceRef, saves, crashed, page>>

\* A response without choices leaves the message loading.
FetchEmpty(r) ==
    /\ IsFetch(r)
    /\ Close(r)
    /\ UNCHANGED <<message, sseSourceRef, saves, crashed, page>>

-----------------------------------------------------------------------------
(* The user's other actions.                                               *)

\* onStopGenerator; its button is there while the last message is generating.
Stop ==
    /\ Idle /\ message # <<>> /\ LastMessage.status \in Generating
    /\ requests' = IF sseSourceRef = 0 THEN requests
                   ELSE [requests EXCEPT ![sseSourceRef].open = FALSE]
    /\ sseSourceRef' = 0
    /\ LET list == SetLast([LastMessage EXCEPT !.status = "complete"])
       IN  message' = list /\ Save(list)
    /\ UNCHANGED <<crashed, page>>

\* handleClearMessages: requests go on.
Clear ==
    /\ Idle
    /\ message' = <<>> /\ Save(<<>>)
    /\ UNCHANGED <<requests, sseSourceRef, crashed, page>>

\* MessageActions: its buttons are disabled while any message is generating.
ActionsEnabled(i) ==
    /\ Idle /\ editing.id # message[i].id
    /\ \A j \in DOMAIN message : message[j].status \notin Generating

\* handleMessageReset: back to before the user's message, which is sent again.
Reset(i) ==
    /\ ActionsEnabled(i) /\ NextRequest + resends + regenerations \in Requests
    /\ \E u \in 1..i :
        /\ message[u].role = "user" /\ \A j \in u + 1 .. i : message[j].role # "user"
        /\ message' = SubSeq(message, 1, u - 1)
    /\ resends' = resends + 1
    /\ UNCHANGED <<requests, sseSourceRef, saves, saved, stored, firstVisit, nextId,
                   regenerations, restoring, editing, dialog, crashed, overlapped>>

AskDelete(i) ==
    /\ ActionsEnabled(i)
    /\ dialog' = [kind |-> "delete", target |-> message[i]]
    /\ UNCHANGED <<message, requests, sseSourceRef, saves, saved, stored, firstVisit,
                   nextId, timers, editing, crashed, overlapped>>

\* handleMessageDelete: a user's message goes with the answer behind it, both by
\* their places; anything else goes by its id, with every message of that id.
DeleteOk ==
    /\ dialog.kind = "delete" /\ ~crashed
    /\ dialog' = Closed
    /\ LET m == dialog.target IN
       IF Place(m) = {} THEN UNCHANGED <<message, saves>>
       ELSE \E i \in Place(m) :
              LET answered == m.role = "user" /\ i < Len(message)
                                /\ message[i + 1].role = "assistant"
                  list == Without(message, IF answered THEN {i, i + 1} ELSE OfId(m.id))
              IN  message' = list /\ Save(list)
    /\ UNCHANGED <<requests, sseSourceRef, saved, stored, firstVisit, nextId, timers,
                   editing, crashed, overlapped>>

DeleteCancel ==
    /\ dialog.kind = "delete" /\ ~crashed
    /\ dialog' = Closed
    /\ UNCHANGED <<message, requests, sseSourceRef, saves, saved, stored, firstVisit,
                   nextId, timers, editing, crashed, overlapped>>

\* handleRoleToggle: every answer of the id takes the new role.
RoleToggle(i) ==
    /\ ActionsEnabled(i) /\ message[i].role # "user"
    /\ LET role == IF message[i].role = "assistant" THEN "system" ELSE "assistant"
           list == [j \in DOMAIN message |->
                      IF message[j].id = message[i].id /\ message[j].role # "user"
                      THEN [message[j] EXCEPT !.role = role] ELSE message[j]]
       IN  message' = list /\ Save(list)
    /\ UNCHANGED <<requests, sseSourceRef, crashed, page>>

\* handleMessageEdit; a message without content has no such button.
Edit(i) ==
    /\ ActionsEnabled(i) /\ message[i].text # {}
    /\ editing' = message[i]
    /\ UNCHANGED <<message, requests, sseSourceRef, saves, saved, stored, firstVisit,
                   nextId, timers, dialog, crashed, overlapped>>

\* handleEditSave: every message of the id takes the text.  Possible while an answer
\* is generated; before an answer it asks, holding the list of this moment.
EditSave ==
    /\ Idle
    /\ editing' = NoMessage
    /\ \E i \in Place(editing) :
        LET list == [j \in DOMAIN message |-> IF message[j].id = editing.id
                                              THEN [message[j] EXCEPT !.text = {0}]
                                              ELSE message[j]] IN
        IF message[i].role = "user" /\ i < Len(message) /\ message[i + 1].role = "assistant"
        THEN /\ dialog' = [kind |-> "edit", list |-> list, index |-> i]
             /\ UNCHANGED <<message, saves>>
        ELSE message' = list /\ Save(list) /\ UNCHANGED dialog
    /\ UNCHANGED <<requests, sseSourceRef, saved, stored, firstVisit, nextId, timers,
                   crashed, overlapped>>

EditCancel ==
    /\ Idle /\ OfId(editing.id) # {}
    /\ editing' = NoMessage
    /\ UNCHANGED <<message, requests, sseSourceRef, saves, saved, stored, firstVisit,
                   nextId, timers, dialog, crashed, overlapped>>

EditRegenerate ==
    /\ dialog.kind = "edit" /\ ~crashed /\ NextRequest + resends + regenerations \in Requests
    /\ dialog' = Closed
    /\ LET list == SubSeq(dialog.list, 1, dialog.index)
       IN  message' = list /\ Save(list)
    /\ regenerations' = regenerations + 1
    /\ UNCHANGED <<requests, sseSourceRef, saved, stored, firstVisit, nextId, resends,
                   restoring, editing, crashed, overlapped>>

EditSaveOnly ==
    /\ dialog.kind = "edit" /\ ~crashed
    /\ dialog' = Closed
    /\ message' = dialog.list /\ Save(dialog.list)
    /\ UNCHANGED <<requests, sseSourceRef, saved, stored, firstVisit, nextId, timers,
                   editing, crashed, overlapped>>

-----------------------------------------------------------------------------
(* Storage, language, reset of the configuration, reload.                  *)

\* saveMessagesImmediately, whose caller catches and only logs what setItem throws
\* when the storage is full.
SaveTimer(works) ==
    /\ saves # <<>>
    /\ saves' = Tail(saves) /\ stored' = works
    /\ saved' = IF works THEN <<Head(saves)>> ELSE saved
    /\ UNCHANGED <<message, requests, sseSourceRef, firstVisit, nextId, timers, editing,
                   dialog, crashed, overlapped>>

\* The effect on a change of language, for a page that was loaded without an entry.
ChangeLanguage ==
    /\ Idle
    /\ message' = IF firstVisit THEN DefaultMessages ELSE message
    /\ UNCHANGED <<requests, sseSourceRef, saves, crashed, page>>

\* clearConfig drops the messages in either case; handleConfigReset then empties
\* the list, and a timer brings the default messages back.
ResetConfig(resetMessages) ==
    /\ Idle
    /\ saved' = <<>>
    /\ restoring' = resetMessages
    /\ message' = IF resetMessages THEN <<>> ELSE message
    /\ UNCHANGED <<requests, sseSourceRef, saves, stored, firstVisit, nextId, resends,
                   regenerations, editing, dialog, crashed, overlapped>>

RestoreTimer ==
    /\ restoring /\ ~crashed
    /\ restoring' = FALSE
    /\ message' = DefaultMessages
    /\ UNCHANGED <<requests, sseSourceRef, saves, saved, stored, firstVisit, nextId, resends,
                   regenerations, editing, dialog, crashed, overlapped>>

\* Mutant of Repaired: only a message without any text yet is repaired.
RepairedLoading(list) ==
    IF list # <<>> /\ list[Len(list)].status = "loading"
    THEN [list EXCEPT ![Len(list)].status = "complete"] ELSE list

\* The effect of the first render: an interrupted last message counts as complete.
Repaired(list) ==
    IF list # <<>> /\ list[Len(list)].status \in Generating
    THEN [list EXCEPT ![Len(list)].status = "complete"] ELSE list

\* Stored default messages; a Chinese page takes them for those of an old version.
IsDefault(list) ==
    /\ Len(list) = Len(DefaultMessages)
    /\ \A i \in DOMAIN list : list[i].id = DefaultMessages[i].id

\* Closing or reloading the page: requests, timers and pending saves are gone.
Reload ==
    /\ \/ saved' = saved
       \/ saved # <<>> /\ IsDefault(saved[1]) /\ saved' = <<>>
    /\ IF saved' = <<>> THEN message' = DefaultMessages /\ saves' = <<>>
       ELSE LET list == Repaired(saved[1]) IN
            message' = list /\ saves' = IF list = saved[1] THEN <<>> ELSE <<list>>
    /\ firstVisit' = (saved' = <<>>) /\ stored' = TRUE /\ nextId' = FirstId
    /\ requests' = [r \in Requests |-> [requests[r] EXCEPT !.open = FALSE]]
    /\ sseSourceRef' = 0 /\ resends' = 0 /\ regenerations' = 0 /\ restoring' = FALSE
    /\ editing' = NoMessage /\ dialog' = Closed /\ crashed' = FALSE
    /\ UNCHANGED overlapped

Kinds == {"sse", "fetch"}

\* What the network does.
Network ==
    \E r \in Requests :
        \/ StreamChunk(r) \/ StreamDone(r) \/ StreamGarbage(r) \/ StreamError(r) \/ StreamEnd(r)
        \/ FetchAnswer(r, "complete") \/ FetchAnswer(r, "error") \/ FetchEmpty(r)

\* What the user does.
Click ==
    \/ \E kind \in Kinds, starts \in BOOLEAN : Send(kind, starts)
    \/ Stop \/ Clear \/ ChangeLanguage \/ Reload
    \/ \E i \in DOMAIN message : Reset(i) \/ AskDelete(i) \/ RoleToggle(i) \/ Edit(i)
    \/ DeleteOk \/ DeleteCancel \/ EditSave \/ EditCancel \/ EditRegenerate \/ EditSaveOnly
    \/ \E resetMessages \in BOOLEAN : ResetConfig(resetMessages)

Timer ==
    \/ \E kind \in Kinds, starts \in BOOLEAN : ResendTimer(kind, starts)
    \/ \E kind \in Kinds : RegenerateTimer(kind)
    \/ \E works \in BOOLEAN : SaveTimer(works)
    \/ RestoreTimer

Next ==
    \/ Click /\ clicks < MaxClicks /\ clicks' = clicks + 1
    \/ (Network \/ Timer) /\ UNCHANGED clicks

Spec == Init /\ [][Next]_vars

-----------------------------------------------------------------------------
(* Properties.                                                             *)

Messages == [key : 1 .. 2 * MaxRequests + 2, id : Nat,
             role : {"user", "assistant", "system"}, status : {"none"} \cup Generating \cup Finished,
             own : 0..MaxRequests, text : SUBSET (0..MaxRequests)]

IsList(list) == \A i \in DOMAIN list : list[i] \in Messages

TypeOK ==
    /\ IsList(message) /\ \A i \in DOMAIN saved : IsList(saved[i])
    /\ Len(saved) <= 1 /\ stored \in BOOLEAN /\ firstVisit \in BOOLEAN
    /\ nextId \in Nat /\ restoring \in BOOLEAN
    /\ \A i \in DOMAIN saves : IsList(saves[i])
    /\ requests \in [Requests -> [kind : {"none", "sse", "fetch"}, open : BOOLEAN]]
    /\ sseSourceRef \in 0..MaxRequests /\ Len(saves) <= MaxSaves
    /\ resends \in 0..MaxRequests /\ regenerations \in 0..MaxRequests
    /\ editing \in Messages \cup {NoMessage} /\ crashed \in BOOLEAN
    /\ overlapped \in SUBSET Requests /\ clicks \in 0..MaxClicks

\* The text of a request is found in its own answer and nowhere else, except for
\* requests that overlapped (all of them write to whatever message is last) and
\* for one whose answer was taken out of the conversation while it was open.
AnswersAreOwn ==
    \A i \in DOMAIN message : \A r \in message[i].text \ {0, message[i].own} :
        r \in overlapped \/ \A j \in DOMAIN message : message[j].own # r

\* Only the last message can be generating, or nothing would ever finish it and
\* the buttons of all messages would stay disabled; the exception again are
\* requests that overlapped.
GeneratingIsLast ==
    \A i \in 1 .. Len(message) - 1 :
        message[i].status \in Generating => message[i].own \in overlapped

\* Stop closes "the active SSE connection": none is open afterwards.
StopClosesStreams ==
    [][Stop => \A r \in Requests : requests[r].kind = "sse" => ~requests'[r].open]_vars

\* A deletion finds its message by reference "against a wrong match by a repeated
\* id": it removes that message and at most the one behind it.
DeletesTheTarget ==
    [][DeleteOk => \A i \in DOMAIN message :
         \/ message[i].key = dialog.target.key
         \/ i > 1 /\ message[i - 1].key = dialog.target.key
         \/ \E j \in DOMAIN message' : message'[j].key = message[i].key]_vars

\* An answer that was streamed, holds no text of another request and is complete on
\* the screen is complete in localStorage once no save is pending, provided that
\* there is an entry and that the last setItem did not throw; whether earlier ones
\* threw makes no difference, nor whether requests overlapped.
CompletedIsSaved ==
    saves = <<>> /\ saved # <<>> /\ stored =>
        \A i \in DOMAIN message :
            LET m == message[i] IN
            m.status = "complete" /\ m.own # 0 /\ requests[m.own].kind = "sse"
              /\ m.text \subseteq {0, m.own}
            => \E j \in DOMAIN saved[1] :
                   saved[1][j].key = m.key /\ saved[1][j].status = "complete"

\* Nothing that arrives late changes a finished message.
FinishedIsFrozen ==
    [][Network => \A i \in DOMAIN message :
            message[i].status \in Finished => message'[i] = message[i]]_vars

\* After a reload the last message waits for no answer, and one before it does only
\* if its request overlapped another: nothing repairs that one.
ReloadRepairs ==
    [][Reload => \A i \in DOMAIN message' : message'[i].status \in Generating =>
                    i < Len(message') /\ message'[i].own \in overlapped]_vars

\* A change of language replaces the messages "only if there are no saved messages".
LanguageKeepsConversation ==
    [][ChangeLanguage /\ saved # <<>> => message' = message]_vars
=============================================================================
