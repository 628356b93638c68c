------------------------------ MODULE Playground ------------------------------
(***************************************************************************)
(* The chat page of the console (web/src/pages/Playground and the hooks    *)
(* under web/src/hooks/playground): the list of messages, the requests     *)
(* that fill its last message, what is kept in localStorage, and what the  *)
(* user may do to the list in between.                                     *)
(*                                                                         *)
(* A handler or a callback is one step, as in the browser's event loop.    *)
(* setTimeout(save, 0) puts a list on the queue saves, setTimeout(send,    *)
(* 100) an entry on the queue timers; network events, timers and clicks    *)
(* come in any order. A text is the set of requests whose answer is in it  *)
(* and the number of times it was edited. The custom request body, the     *)
(* debug panel, images and the folding of the reasoning are left out.      *)
(***************************************************************************)
EXTENDS Integers, SequencesExt

CONSTANTS
    MaxRequests,  \* bound: chat completions that are sent
    Streams,      \* values of inputs.stream, a subset of BOOLEAN
    MaxChanges,   \* bound: edits, deletions, role changes, resets, imports, languages
    MaxReloads    \* bound: reloads of the page

ASSUME PlaygroundAssumption ==
    /\ MaxRequests \in Nat /\ MaxChanges \in Nat /\ MaxReloads \in Nat
    /\ Streams \subseteq BOOLEAN

VARIABLES
    messages,  \* the list on the screen
    stored,    \* localStorage: playground_messages, or NoList
    saves,     \* lists that setTimeout(saveMessages, 0) will store
    timers,    \* other timers: requests to be sent after 100 ms ("send", "edited"),
               \* default messages to be shown after 0 ms ("defaults")
    net,       \* per request: "idle", "sse" or "fetch" under way, "ended", or
               \* "answered" for a fetch that is over
    ref,       \* sseSourceRef.current: a request, or 0
    nextId,    \* messageId of helpers/utils
    editing,   \* the message being edited as it was then, or NoMessage
    dialog,    \* an open confirmation
    broken,    \* the page failed to render
    changes,   \* changes so far
    reloads,   \* reloads so far
    fresh,     \* initialMessages is null: no messages were saved when the page was opened
    cause      \* history: what has interfered with a request under way

vars == <<messages, stored, saves, timers, net, ref, nextId, editing, dialog, broken,
          changes, reloads, fresh, cause>>

-----------------------------------------------------------------------------
Requests == 1..MaxRequests
Generating == {"loading", "incomplete"}

(* createMessage. of is history: the request that is to fill a reply, or that
   a question belongs to; from holds the requests whose text was written into
   the message, edits how often its text was replaced. *)
createMessage(id, role, status, r) ==
    [id |-> id, role |-> role, status |-> status, of |-> r, from |-> {}, edits |-> 0]

NoMessage == createMessage(0, "none", "none", 0)
NoList == <<NoMessage>>
NoDialog == [kind |-> "none", list |-> <<>>, at |-> 0]

(* getDefaultMessages *)
DefaultMessages ==
    <<createMessage(2, "user", "none", 0), createMessage(3, "assistant", "none", 0)>>

LastIsGenerating == messages # <<>> /\ Last(messages).status \in Generating
AnyGenerating == \E i \in DOMAIN messages : messages[i].status \in Generating

Live == {r \in Requests : net[r] \in {"sse", "fetch"}}
Used == {r \in Requests : net[r] # "idle"}
NewRequest == Cardinality(Used) + 1

(* A click reaches the page when no confirmation covers it. *)
Clickable == ~broken /\ dialog = NoDialog
Change == changes < MaxChanges /\ changes' = changes + 1

(* What is done while a request or a timer is under way. *)
Interfere(what) ==
    cause' = IF Live # {} \/ timers # <<>> \/ saves # <<>> THEN cause \cup {what} ELSE cause

Init ==
    /\ messages = DefaultMessages /\ stored = NoList
    /\ saves = <<>> /\ timers = <<>>
    /\ net = [r \in Requests |-> "idle"] /\ ref = 0
    /\ nextId = 4 /\ editing = NoMessage /\ dialog = NoDialog
    /\ broken = FALSE /\ changes = 0 /\ reloads = 0 /\ fresh = TRUE
    /\ cause = {}

-----------------------------------------------------------------------------
(* Updates of the last message. *)

(* mutant: writes a status that the page does not know *)
streamMessageUpdateUnknown(list, r) ==
    IF list # <<>> /\ Last(list).role = "assistant" /\ Last(list).status \in Generating
      THEN Append(Front(list), [Last(list) EXCEPT !.status = "streaming", !.from = @ \cup {r}])
      ELSE list

(* streamMessageUpdate(text of r) *)
streamMessageUpdate(list, r) ==
    IF list # <<>> /\ Last(list).role = "assistant" /\ Last(list).status \in Generating
      THEN Append(Front(list), [Last(list) EXCEPT !.status = "incomplete", !.from = @ \cup {r}])
      ELSE list

(* completeMessage(status): reads the status of the last message and fails
   when there is none. *)
CanComplete(list) == list # <<>> /\ Last(list).status \notin {"complete", "error"}

completeMessage(list, status) ==
    IF CanComplete(list) THEN Append(Front(list), [Last(list) EXCEPT !.status = status]) ELSE list

(* mutant: an ended message is not saved *)
CompleteUnsaved(list, status) ==
    /\ messages' = completeMessage(list, status)
    /\ broken' = (list = <<>>)
    /\ UNCHANGED saves

Complete(list, status) ==
    /\ messages' = completeMessage(list, status)
    /\ saves' = IF CanComplete(list) THEN Append(saves, completeMessage(list, status)) ELSE saves
    /\ broken' = (list = <<>>)

(* handleSSE and handleNonStreamRequest up to the first answer *)
sendRequest(r, stream) ==
    /\ net' = [net EXCEPT ![r] = IF stream THEN "sse" ELSE "fetch"]
    /\ ref' = IF stream THEN r ELSE ref

(* onMessageSend. Three messages are created, the first of which is not used
   outside the custom request mode. *)
onMessageSend ==
    /\ NewRequest \in Requests
    /\ LET list == messages \o <<createMessage(nextId + 2, "user", "none", NewRequest),
                                 createMessage(nextId + 1, "assistant", "loading", NewRequest)>>
       IN messages' = list /\ saves' = Append(saves, list)
    /\ nextId' = nextId + 3
    /\ \E stream \in Streams : sendRequest(NewRequest, stream)

-----------------------------------------------------------------------------
(* What the network reports to request r. *)

SseChunk(r) ==
    /\ net[r] = "sse" /\ ~broken
    /\ messages' = streamMessageUpdate(messages, r)
    /\ UNCHANGED <<stored, saves, timers, net, ref, nextId, editing, dialog, broken, changes,
                   reloads, fresh, cause>>

SseDone(r) ==
    /\ net[r] = "sse" /\ ~broken
    /\ net' = [net EXCEPT ![r] = "ended"] /\ ref' = 0
    /\ Complete(messages, "complete")
    /\ UNCHANGED <<stored, timers, nextId, editing, dialog, changes, reloads, fresh, cause>>

(* A line that is no JSON ends the message but not the stream. *)
SseParseError(r) ==
    /\ net[r] = "sse" /\ ~broken
    /\ Complete(streamMessageUpdate(messages, r), "error")
    /\ cause' = cause \cup {"parse error"}
    /\ UNCHANGED <<stored, timers, net, ref, nextId, editing, dialog, changes, reloads, fresh>>

SseError(r) ==
    /\ net[r] = "sse" /\ ~broken
    /\ Complete(streamMessageUpdate(messages, r), "error")
    /\ net' = [net EXCEPT ![r] = "ended"] /\ ref' = 0
    /\ UNCHANGED <<stored, timers, nextId, editing, dialog, changes, reloads, fresh, cause>>

(* readystatechange with an HTTP status other than 200 *)
SseHttpError(r) ==
    /\ net[r] = "sse" /\ ~broken
    /\ net' = [net EXCEPT ![r] = "ended"]
    /\ Complete(streamMessageUpdate(messages, r), "error")
    /\ UNCHANGED <<stored, timers, ref, nextId, editing, dialog, changes, reloads, fresh, cause>>

(* readystatechange to CLOSED with status 200 and no [DONE]: nothing is done *)
SseTruncated(r) ==
    /\ net[r] = "sse" /\ ~broken
    /\ net' = [net EXCEPT ![r] = "ended"]
    /\ UNCHANGED <<messages, stored, saves, timers, ref, nextId, editing, dialog, broken,
                   changes, reloads, fresh, cause>>

(* The answer of a request without a stream: a reply, an error, or a body
   without choices. It is written into a last message that is still loading. *)
FetchAnswered(r) ==
    /\ net[r] = "fetch" /\ ~broken
    /\ net' = [net EXCEPT ![r] = "answered"]
    /\ \/ UNCHANGED messages
       \/ \E status \in {"complete", "error"} :
            messages' = IF messages # <<>> /\ Last(messages).status = "loading"
                          THEN Append(Front(messages),
                                      [Last(messages) EXCEPT !.status = status, !.from = {r}])
                          ELSE messages
    /\ UNCHANGED <<stored, saves, timers, ref, nextId, editing, dialog, broken, changes,
                   reloads, fresh, cause>>

-----------------------------------------------------------------------------
(* Timers. *)

(* saveMessagesImmediately *)
SaveTimer ==
    /\ saves # <<>>
    /\ stored' = Head(saves) /\ saves' = Tail(saves)
    /\ UNCHANGED <<messages, timers, net, ref, nextId, editing, dialog, broken, changes,
                   reloads, fresh, cause>>

(* The list after a reset of the configuration *)
DefaultsTimer ==
    /\ Contains(timers, "defaults") /\ ~broken
    /\ timers' = RemoveFirst(timers, "defaults")
    /\ messages' = DefaultMessages
    /\ UNCHANGED <<stored, saves, net, ref, nextId, editing, dialog, broken, changes, reloads, fresh,
                   cause>>

(* The request of handleMessageReset, and that of an edited question: the
   latter adds only the reply and does not save. *)
SendTimer ==
    /\ timers # <<>> /\ ~broken
    /\ timers' = Tail(timers)
    /\ \/ Head(timers) = "send" /\ onMessageSend
       \/ /\ Head(timers) = "edited" /\ NewRequest \in Requests
          /\ messages' = Append(messages, createMessage(nextId, "assistant", "loading", NewRequest))
          /\ nextId' = nextId + 1
          /\ \E stream \in Streams : sendRequest(NewRequest, stream)
          /\ UNCHANGED saves
    /\ UNCHANGED <<stored, editing, dialog, broken, changes, reloads, fresh, cause>>

-----------------------------------------------------------------------------
(* Clicks. *)

(* mutant: the button stays on *)
SendClickAnyTime ==
    /\ Clickable
    /\ onMessageSend
    /\ UNCHANGED <<stored, timers, editing, dialog, broken, changes, reloads, fresh, cause>>

(* The send button is off while the last message is generated. *)
SendClick ==
    /\ Clickable /\ ~LastIsGenerating
    /\ onMessageSend
    /\ cause' = IF timers # <<>> THEN cause \cup {"overlap"} ELSE cause
    /\ UNCHANGED <<stored, timers, editing, dialog, broken, changes, reloads, fresh>>

(* mutant: the stream is dropped but not closed *)
onStopGeneratorKeepsStream ==
    /\ Clickable /\ LastIsGenerating
    /\ ref' = 0
    /\ LET list == Append(Front(messages), [Last(messages) EXCEPT !.status = "complete"])
       IN messages' = list /\ saves' = Append(saves, list)
    /\ UNCHANGED <<stored, timers, net, nextId, editing, dialog,
                   broken, changes, reloads, fresh, cause>>

(* onStopGenerator closes the stream it knows; a fetch goes on. *)
onStopGenerator ==
    /\ Clickable /\ LastIsGenerating
    /\ net' = IF ref # 0 THEN [net EXCEPT ![ref] = "ended"] ELSE net
    /\ ref' = 0
    /\ LET list == Append(Front(messages), [Last(messages) EXCEPT !.status = "complete"])
       IN messages' = list /\ saves' = Append(saves, list)
    /\ cause' = IF \E r \in Requests : net[r] = "fetch" THEN cause \cup {"stopped fetch"} ELSE cause
    /\ UNCHANGED <<stored, timers, nextId, editing, dialog, broken, changes, reloads, fresh>>

handleClearMessages ==
    /\ Clickable /\ Change
    /\ messages' = <<>> /\ saves' = Append(saves, <<>>)
    /\ Interfere("clear")
    /\ UNCHANGED <<stored, timers, net, ref, nextId, editing, dialog, broken, reloads, fresh>>

(* The actions of message i are off while any message is generated, and while
   message i is edited. *)
ActionsOn(i) == Clickable /\ i \in DOMAIN messages /\ ~AnyGenerating /\ editing.id # messages[i].id

(* handleMessageReset: back to before the question of message i *)
handleMessageReset(i) ==
    /\ ActionsOn(i) /\ Change
    /\ LET q == SelectLastInSubSeq(messages, 1, i, LAMBDA m : m.role = "user")
       IN /\ q # 0
          /\ messages' = SubSeq(messages, 1, q - 1)
    /\ timers' = Append(timers, "send")
    /\ cause' = IF timers # <<>> THEN cause \cup {"overlap"} ELSE cause
    /\ UNCHANGED <<stored, saves, net, ref, nextId, editing, dialog, broken, reloads, fresh>>

(* handleMessageDelete asks first. *)
handleMessageDelete(i) ==
    /\ ActionsOn(i) /\ Change
    /\ dialog' = [kind |-> "delete", list |-> <<messages[i]>>, at |-> 0]
    /\ UNCHANGED <<messages, stored, saves, timers, net, ref, nextId, editing,
                   broken, reloads, fresh, cause>>

(* Where a message is now: found by reference, or else by its id; 0 if it is gone *)
IndexOfMessage(target) ==
    LET same == SelectInSeq(messages, LAMBDA m : m = target)
    IN IF same # 0 THEN same ELSE SelectInSeq(messages, LAMBDA m : m.id = target.id)

(* The list without the messages that have an id: its n-th message is the n-th
   that is kept. *)
Without(list, id) ==
    LET kept == {i \in DOMAIN list : list[i].id # id}
    IN [n \in 1..Cardinality(kept) |->
          list[CHOOSE i \in kept : Cardinality({j \in kept : j <= i}) = n]]

(* onOk: a question goes with the reply that follows it, any other message with
   all that share its id. The question may have been asked while a request was about
   to be sent, and be answered when its reply is already in the list. *)
DeleteConfirmed ==
    /\ dialog.kind = "delete" /\ ~broken
    /\ dialog' = NoDialog
    /\ LET target == Head(dialog.list)
           at == IndexOfMessage(target)
           pair == /\ target.role = "user" /\ at < Len(messages)
                   /\ messages[at + 1].role = "assistant"
           list == IF pair THEN RemoveAt(RemoveAt(messages, at), at)
                           ELSE Without(messages, target.id)
       IN IF at = 0 THEN UNCHANGED <<messages, saves>>
                    ELSE messages' = list /\ saves' = Append(saves, list)
    /\ cause' = IF Live # {} THEN cause \cup {"delete"} ELSE cause
    /\ UNCHANGED <<stored, timers, net, ref, nextId, editing, broken, changes, reloads, fresh>>

DeleteCancelled ==
    /\ dialog.kind = "delete" /\ ~broken
    /\ dialog' = NoDialog
    /\ UNCHANGED <<messages, stored, saves, timers, net, ref, nextId, editing, broken, changes,
                   reloads, fresh, cause>>

handleRoleToggle(i) ==
    /\ ActionsOn(i) /\ Change
    /\ messages[i].role \in {"assistant", "system"}
    /\ LET newRole == IF messages[i].role = "assistant" THEN "system" ELSE "assistant"
           list == [j \in DOMAIN messages |->
                      IF messages[j].id = messages[i].id /\ messages[j].role # "user"
                        THEN [messages[j] EXCEPT !.role = newRole] ELSE messages[j]]
       IN messages' = list /\ saves' = Append(saves, list)
    /\ UNCHANGED <<stored, timers, net, ref, nextId, editing, dialog, broken, reloads, fresh, cause>>

(* handleMessageEdit: only a message with a text can be edited *)
handleMessageEdit(i) ==
    /\ ActionsOn(i)
    /\ messages[i].status = "none" \/ messages[i].from # {} \/ messages[i].edits > 0
    /\ editing' = messages[i]
    /\ UNCHANGED <<messages, stored, saves, timers, net, ref, nextId, dialog, broken, changes,
                   reloads, fresh, cause>>

(* handleEditSave: every message with the id gets the new text. A question that
   has a reply asks first, and keeps the changed list for the answer. *)
handleEditSave ==
    /\ Clickable /\ Change
    /\ \E i \in DOMAIN messages : messages[i].id = editing.id
    /\ LET at == IndexOfMessage(editing)
           list == [j \in DOMAIN messages |->
                      IF messages[j].id = editing.id
                        THEN [messages[j] EXCEPT !.from = {}, !.edits = @ + 1] ELSE messages[j]]
       IN IF /\ messages[at].role = "user" /\ at < Len(messages)
             /\ messages[at + 1].role = "assistant"
            THEN /\ dialog' = [kind |-> "edit", list |-> list, at |-> at]
                 /\ UNCHANGED <<messages, saves>>
            ELSE /\ messages' = list /\ saves' = Append(saves, list)
                 /\ UNCHANGED dialog
    /\ editing' = NoMessage
    /\ Interfere("edit")
    /\ UNCHANGED <<stored, timers, net, ref, nextId, broken, reloads, fresh>>

handleEditCancel ==
    /\ Clickable /\ editing # NoMessage
    /\ editing' = NoMessage
    /\ UNCHANGED <<messages, stored, saves, timers, net, ref, nextId, dialog, broken, changes,
                   reloads, fresh, cause>>

(* onOk: up to the edited question, and ask it again *)
EditRegenerate ==
    /\ dialog.kind = "edit" /\ ~broken
    /\ messages' = SubSeq(dialog.list, 1, dialog.at)
    /\ saves' = Append(saves, SubSeq(dialog.list, 1, dialog.at))
    /\ timers' = Append(timers, "edited") /\ dialog' = NoDialog
    /\ UNCHANGED <<stored, net, ref, nextId, editing, broken, changes, reloads, fresh, cause>>

(* onCancel: the list of the time the dialog was opened *)
EditKeep ==
    /\ dialog.kind = "edit" /\ ~broken
    /\ messages' = dialog.list /\ saves' = Append(saves, dialog.list)
    /\ dialog' = NoDialog
    /\ UNCHANGED <<stored, timers, net, ref, nextId, editing, broken, changes, reloads, fresh, cause>>

-----------------------------------------------------------------------------
(* Configuration and reload. *)

(* handleReset of ConfigManager: clearConfig also removes the saved messages,
   whether the user wants to keep the list or not. *)
handleConfigReset ==
    /\ Clickable /\ Change
    /\ stored' = NoList
    /\ \/ /\ messages' = <<>> /\ timers' = Append(timers, "defaults")
          /\ Interfere("reset")
       \/ /\ cause' = cause \cup {"reset"}
          /\ UNCHANGED <<messages, timers>>
    /\ UNCHANGED <<saves, net, ref, nextId, editing, dialog, broken, reloads, fresh>>

(* importConfig stores the messages of the file before the user is asked. *)
Imported == <<createMessage(4, "user", "none", 0)>>

importConfig ==
    /\ Clickable /\ Change
    /\ stored' = Imported
    /\ dialog' = [kind |-> "import", list |-> Imported, at |-> 0]
    /\ Interfere("import")
    /\ UNCHANGED <<messages, saves, timers, net, ref, nextId, editing, broken, reloads, fresh>>

handleConfigImport ==
    /\ dialog.kind = "import" /\ ~broken
    /\ dialog' = NoDialog
    /\ \/ messages' = dialog.list /\ Interfere("import")
       \/ cause' = cause \cup {"import"} /\ UNCHANGED messages
    /\ UNCHANGED <<stored, saves, timers, net, ref, nextId, editing, broken, changes, reloads, fresh>>

(* The page is opened again: usePlaygroundState loads what was stored and ends
   a last message that was being generated. *)
Repaired(list) ==
    IF list # <<>> /\ Last(list).status \in Generating
      THEN Append(Front(list), [Last(list) EXCEPT !.status = "complete"]) ELSE list

(* Two messages with the ids of the default ones; what is stored of them is
   removed when one has the text of the old Chinese defaults. *)
HasDefaultIds(list) == Len(list) = 2 /\ list[1].id = 2 /\ list[2].id = 3

Reload ==
    /\ reloads < MaxReloads /\ reloads' = reloads + 1
    /\ \/ UNCHANGED stored
       \/ HasDefaultIds(stored) /\ stored' = NoList
    /\ LET list == IF stored' = NoList THEN DefaultMessages ELSE stored'
       IN /\ messages' = Repaired(list)
          /\ saves' = IF Repaired(list) # list THEN <<Repaired(list)>> ELSE <<>>
    /\ fresh' = (stored' = NoList)
    /\ net' = [r \in Requests |-> IF r \in Live THEN "ended" ELSE net[r]]
    /\ ref' = 0 /\ timers' = <<>> /\ nextId' = 4
    /\ editing' = NoMessage /\ dialog' = NoDialog /\ broken' = FALSE
    /\ UNCHANGED <<changes, cause>>

(* The user chooses another language. A page that was opened without saved
   messages shows the default ones again, whatever has been said since, and leaves
   what is stored. *)
LanguageChange ==
    /\ Clickable /\ Change /\ fresh
    /\ messages' = DefaultMessages
    /\ cause' = IF messages = DefaultMessages /\ stored = NoList /\ saves = <<>>
                  THEN cause ELSE cause \cup {"language"}
    /\ UNCHANGED <<stored, saves, timers, net, ref, nextId, editing, dialog, broken, reloads, fresh>>

-----------------------------------------------------------------------------
NetworkEvent(r) ==
    \/ SseChunk(r) \/ SseDone(r) \/ SseParseError(r) \/ SseError(r) \/ SseHttpError(r)
    \/ SseTruncated(r) \/ FetchAnswered(r)

MessageAction(i) ==
    handleMessageReset(i) \/ handleMessageDelete(i) \/ handleRoleToggle(i) \/ handleMessageEdit(i)

Next ==
    \/ \E r \in Requests : NetworkEvent(r)
    \/ SaveTimer \/ SendTimer \/ DefaultsTimer
    \/ SendClick \/ onStopGenerator \/ handleClearMessages
    \/ \E i \in DOMAIN messages : MessageAction(i)
    \/ DeleteConfirmed \/ DeleteCancelled
    \/ handleEditSave \/ handleEditCancel \/ EditRegenerate \/ EditKeep
    \/ handleConfigReset \/ importConfig \/ handleConfigImport
    \/ Reload \/ LanguageChange

Spec == Init /\ [][Next]_vars

-----------------------------------------------------------------------------
(* Properties. The page follows one request at a time and finds "its" message by
   position: the last of the list. What the user can do to the list while a
   request is under way breaks this, and so does a change of the language on a page
   that was opened without saved messages (see cause); everything else may not. *)

Texts == [id : 0..(4 + 3 * MaxRequests), role : {"none", "user", "assistant", "system"},
          status : {"none", "complete", "error"} \cup Generating, of : 0..MaxRequests,
          from : SUBSET Requests, edits : 0..MaxChanges]

(* Type invariant: the statuses, roles and ids of every list, shown, stored or
   waiting to be saved, are those the page knows. *)
TypeOK ==
    /\ \A list \in {messages, stored, dialog.list} \cup ToSet(saves) :
         \A i \in DOMAIN list : list[i] \in Texts
    /\ ToSet(timers) \subseteq {"send", "edited", "defaults"}
    /\ net \in [Requests -> {"idle", "sse", "fetch", "ended", "answered"}]
    /\ ref \in 0..MaxRequests /\ editing \in Texts
    /\ broken \in BOOLEAN /\ changes \in 0..MaxChanges /\ reloads \in 0..MaxReloads
    /\ fresh \in BOOLEAN

(* Late chunks, errors and answers never reach the reply of another request,
   whatever was stopped, failed or reloaded before (and nothing of cause happened:
   a list that is replaced under a request, by a reset, an import or a change of the
   language, hands its chunks to the next reply). *)
OwnAnswers ==
    cause = {} => \A i \in DOMAIN messages : messages[i].from \subseteq {messages[i].of}

(* Only the last message is being generated: one further up is never completed
   and turns off the actions of all messages, also after a reload. *)
OnlyLastGenerates ==
    cause = {} => /\ ~broken
                  /\ \A i \in DOMAIN messages : messages[i].status \in Generating => i = Len(messages)

(* When nothing is under way the conversation on the screen is the one a reload
   loads. The answer of a request without a stream is the exception: it is not
   saved until the next change of the list. (Default messages that were changed and
   saved in Chinese are loaded, and then removed as old ones: see Reload.) *)
Quiet == saves = <<>> /\ timers = <<>> /\ dialog = NoDialog /\ ~AnyGenerating

SavedWhenQuiet ==
    (cause = {} /\ Quiet) =>
        LET list == IF stored = NoList THEN DefaultMessages ELSE stored
        IN /\ Len(list) <= Len(messages)
           /\ \A i \in DOMAIN messages :
                \/ i \in DOMAIN list /\ list[i] = messages[i]
                \/ messages[i].of # 0 /\ net[messages[i].of] = "answered"

=============================================================================
