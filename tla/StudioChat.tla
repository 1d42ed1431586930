------------------------------ MODULE StudioChat ------------------------------
(***************************************************************************)
(* The chat page of Studio (web/src/pages/Chat.tsx, ChatBubble.tsx) over   *)
(* the conversations of ChatService: one user in one tab, whose requests   *)
(* overlap each other and the fetches of the query cache.                  *)
(*                                                                         *)
(* The cache is TanStack Query, modelled from how the page uses it: a      *)
(* query without data, or invalidated, is fetched when it is shown; a      *)
(* fetch under way is shared, unless an invalidation of a shown query      *)
(* that has data cancels it and begins anew; setQueryData leaves a fetch   *)
(* alone, whose answer then replaces what was set.                         *)
(*                                                                         *)
(* Left out: attachments, but for the time it takes to read them; visuals; *)
(* feedback; editing a message the server has not answered yet, whose name *)
(* it does not know; and the conversation that /chat?new=1 creates of      *)
(* itself: the effect cancels its own answer, and what is left is a        *)
(* conversation without messages that the list shows later.                *)
(***************************************************************************)
EXTENDS ChatService

CONSTANTS
    Sends,      \* runs of handleSend at once
    Drafts,     \* what the user may type
    Edits,      \* what a message may be edited to
    AtOnce,     \* bound: requests under way at once
    MaxVersion  \* bound: how often a turn is edited or regenerated

ASSUME PageAssumption ==
    /\ AtOnce \in Nat
    /\ MaxVersion \in Nat
    /\ Texts = Drafts \cup Edits
    /\ Slots = Sends \cup {"edit", "regenerate", "delete"}
    /\ Sends \cap {"edit", "regenerate", "delete"} = {}

VARIABLES
    url,        \* is the address /chat?new=1
    active,     \* activeConversationId
    draft,      \* the text in the input field
    detail,     \* per conversation, the cached messages, None without data
    fetch,      \* per conversation, the fetch of its messages
    pend,       \* what the page's handlers wait for
    missed,     \* history: changed by a request no fetch has followed
    due         \* history: texts submitted, not stored yet nor written over by the
                \* user, unless submissions have overlapped

view == <<url, active>>
cache == <<detail, fetch, missed>>
pageVars == <<url, active, draft, detail, fetch, pend, missed>>
vars == <<conv, turn, begun, call, url, active, draft, detail, fetch, pend,
          missed, due>>

NoFetch == [pc |-> "idle", turns |-> {}]
Asking == [pc |-> "asked", turns |-> {}]
NoPend == [pc |-> "idle", conv |-> None, text |-> None]

\* A message that is shown: its turn as it was read.
ShownAs(i) == [id |-> i, said |-> turn[i].said, reply |-> turn[i].reply, version |-> turn[i].version]
Stored(c) == {ShownAs(i) : i \in TurnsOf(c)}

Init ==
    /\ ServerInit
    /\ url = "chat"
    /\ active = None
    /\ draft = None
    /\ detail = [c \in Convs |-> None]
    /\ fetch = [c \in Convs |-> NoFetch]
    /\ pend = [s \in Slots |-> NoPend]
    /\ missed = {}
    /\ due = {}

-----------------------------------------------------------------------------
(* The query cache *)

HasData(c) == detail[c] # None
\* The list of conversations may be of any moment.
Listed(c) == conv[c].state # "absent"
Busy == {s \in Slots : pend[s].pc # "idle" \/ call[s].pc # "idle"}
Free(s) == s \notin Busy /\ Cardinality(Busy) < AtOnce
Request(s, op, c, i, t) ==
    call' = [call EXCEPT ![s] = [op |-> op, pc |-> "asked", conv |-> c, id |-> i, text |-> t]]

\* The messages of c with turn r, which a cached copy of it wins over, and
\* without the optimistic message of s.
Answered(c, r, s) ==
    LET old == IF HasData(c) THEN detail[c].turns ELSE {}
        ghosts == IF HasData(c) THEN detail[c].ghosts ELSE {}
    IN  [turns |-> IF \E x \in old : x.id = r.id THEN old ELSE old \cup {r},
         ghosts |-> ghosts \ {s}]
Withdrawn(c, s) ==
    IF HasData(c) THEN [detail[c] EXCEPT !.ghosts = @ \ {s}]
    ELSE [turns |-> {}, ghosts |-> {}]
Expected(c, s) ==
    IF HasData(c) THEN [detail[c] EXCEPT !.ghosts = @ \cup {s}]
    ELSE [turns |-> {}, ghosts |-> {s}]

\* What is owed to a change is missing unless a fetch of it is yet to be
\* answered.
Missing(C) == missed' = {c \in missed \cup C : fetch'[c].pc # "asked"}

\* Conversation c comes into view.
Shown(c) ==
    fetch' = IF fetch[c].pc = "idle" /\ ~HasData(c)
             THEN [fetch EXCEPT ![c] = Asking] ELSE fetch

\* invalidateQueries for a conversation in view.
Invalidate(c) ==
    fetch' = IF HasData(c) \/ fetch[c].pc = "idle" THEN [fetch EXCEPT ![c] = Asking] ELSE fetch

-----------------------------------------------------------------------------
(* The user: typing and moving between conversations *)

Type ==
    /\ draft' \in Drafts \ {draft}
    /\ due' = due \ {draft}
    /\ UNCHANGED <<serverVars, view, cache, pend>>

\* A link of the sidebar to /chat?conversation=c.
Visit(c) ==
    /\ Listed(c)
    /\ active # c
    /\ url' = "chat"
    /\ active' = c
    /\ Shown(c)
    /\ Missing({})
    /\ UNCHANGED <<serverVars, draft, detail, pend, due>>

\* Mutant: the link leaves the page in its conversation.
VisitNewStays ==
    /\ url # "new"
    /\ url' = "new"
    /\ draft' = None
    /\ due' = due \ {draft}
    /\ UNCHANGED <<serverVars, active, cache, pend>>

\* A link to /chat?new=1.
VisitNew ==
    /\ url # "new"
    /\ url' = "new"
    /\ active' = None
    /\ draft' = None
    /\ due' = due \ {draft}
    /\ UNCHANGED <<serverVars, cache, pend>>

\* createConversationMutation.isPending
Creating == \E s \in Sends : pend[s].pc = "creating"

-----------------------------------------------------------------------------
(* How a request ends *)

Over == {"ok", "failed", "undone"}
Waits(s, state) == pend[s].pc = state
Succeeded(s) == call[s].pc = "ok"

\* The server's error, or the page's own for an answer that is lost.
Failed(s) == call[s].pc \in {"failed", "undone"}
Changed(s) == IF call[s].pc = "undone" THEN {call[s].conv} \ {None} ELSE {}
Close(s) == call' = [call EXCEPT ![s] = NoCall]

-----------------------------------------------------------------------------
(* handleSend *)

\* The conversation the page knows itself to be in: the list may not hold it.
Known == IF active = None \/ HasData(active) THEN {active} ELSE {active, None}

UnderWay == {s \in Sends : pend[s].pc # "idle"}

\* Draft and conversation are those of this moment; attachments are read.  The
\* guard knows of messages posted and of conversations being created alone:
\* while attachments are read there may be another submission.
Submit(s) ==
    /\ draft # None
    /\ Free(s)
    /\ \A r \in Sends : pend[r].pc # "posting"
    /\ active = None => ~Creating
    /\ \E c \in Known : pend' = [pend EXCEPT ![s] = [pc |-> "reading", conv |-> c, text |-> draft]]
    /\ due' = IF UnderWay = {} THEN due \cup {draft} ELSE {}
    /\ UNCHANGED <<serverVars, view, cache, draft>>

\* The optimistic message is shown, and the field cleared of what it holds.
Post(s, c) ==
    /\ draft' = None
    /\ detail' = [detail EXCEPT ![c] = Expected(c, s)]
    /\ pend' = [pend EXCEPT ![s] = [pc |-> "posting", conv |-> c, text |-> pend[s].text]]
    /\ Request(s, "send", c, None, pend[s].text)
    /\ UNCHANGED <<conv, turn, begun, fetch, missed, due>>

Proceed(s) ==
    /\ Waits(s, "reading")
    /\ pend[s].conv # None
    /\ Post(s, pend[s].conv)
    /\ UNCHANGED view

ProceedNew(s) ==
    /\ Waits(s, "reading")
    /\ pend[s].conv = None
    /\ pend' = [pend EXCEPT ![s].pc = "creating"]
    /\ Request(s, "create", None, None, None)
    /\ UNCHANGED <<conv, turn, begun, view, draft, cache, due>>

Created(s) ==
    /\ Waits(s, "creating")
    /\ Succeeded(s)
    /\ active' = call[s].conv
    /\ url' = "chat"
    /\ Post(s, call[s].conv)

\* The field still holds the draft, unless the user has written over it.
CreateFails(s) ==
    /\ Waits(s, "creating")
    /\ Failed(s)
    /\ pend' = [pend EXCEPT ![s] = NoPend]
    /\ Close(s)
    /\ UNCHANGED <<conv, turn, begun, view, draft, cache, due>>

\* The exchange takes the place of the optimistic message, wherever the user
\* is by now, and is fetched: at once if it is in view, else when it comes.
Sent(s) ==
    /\ Waits(s, "posting")
    /\ Succeeded(s)
    /\ LET c == pend[s].conv
           r == [id |-> call[s].id, said |-> call[s].text, reply |-> call[s].text, version |-> 0]
       IN  /\ detail' = [detail EXCEPT ![c] = Answered(c, r, s)]
           /\ fetch' = IF active = c \/ fetch[c].pc = "idle" THEN [fetch EXCEPT ![c] = Asking]
                       ELSE fetch
           /\ Missing({c})
           /\ active' = c
           /\ url' = "chat"
    /\ pend' = [pend EXCEPT ![s] = NoPend]
    /\ call' = [call EXCEPT ![s] = NoCall]
    /\ UNCHANGED <<conv, turn, begun, draft, due>>

\* Mutant: the draft is not given back.
SendForgets(s) ==
    /\ Waits(s, "posting")
    /\ Failed(s)
    /\ detail' = [detail EXCEPT ![pend[s].conv] = Withdrawn(pend[s].conv, s)]
    /\ pend' = [pend EXCEPT ![s] = NoPend]
    /\ Close(s)
    /\ UNCHANGED fetch
    /\ Missing(Changed(s))
    /\ UNCHANGED <<conv, turn, begun, view, draft, due>>

\* The optimistic message is withdrawn, and its text put back into the field,
\* over what the user has written there since.
SendFails(s) ==
    /\ Waits(s, "posting")
    /\ Failed(s)
    /\ detail' = [detail EXCEPT ![pend[s].conv] = Withdrawn(pend[s].conv, s)]
    /\ draft' = pend[s].text
    /\ pend' = [pend EXCEPT ![s] = NoPend]
    /\ Close(s)
    /\ UNCHANGED fetch
    /\ Missing(Changed(s))
    /\ UNCHANGED <<conv, turn, begun, view, due>>

-----------------------------------------------------------------------------
(* Editing, regenerating, deleting *)

\* The bubbles offer both for the last turn alone.
LastShown(i) ==
    /\ active # None /\ HasData(active)
    /\ detail[active].ghosts = {}
    /\ \E x \in detail[active].turns : x.id = i
    /\ \A x \in detail[active].turns : x.id <= i

Await(s) == pend' = [pend EXCEPT ![s] = [pc |-> "waiting", conv |-> active, text |-> None]]

EditBegin(i) ==
    /\ Free("edit")
    /\ LastShown(i)
    /\ turn[i].version < MaxVersion
    /\ Await("edit")
    /\ \E t \in Edits :
        /\ \A x \in detail[active].turns : x.id = i => x.said # t
        /\ Request("edit", "edit", active, i, t)
    /\ UNCHANGED <<conv, turn, begun, view, cache, draft, due>>

RegenerateBegin(i) ==
    /\ Free("regenerate")
    /\ LastShown(i)
    /\ turn[i].version < MaxVersion
    /\ Await("regenerate")
    /\ Request("regenerate", "regenerate", active, i, None)
    /\ UNCHANGED <<conv, turn, begun, view, cache, draft, due>>

\* Mutant: nothing is fetched again.
TurnDoneQuietly(s) ==
    /\ s \in {"edit", "regenerate"}
    /\ Waits(s, "waiting")
    /\ Succeeded(s)
    /\ missed' = missed \cup IF active = pend[s].conv THEN {} ELSE {pend[s].conv}
    /\ pend' = [pend EXCEPT ![s] = NoPend]
    /\ call' = [call EXCEPT ![s] = NoCall]
    /\ UNCHANGED <<conv, turn, begun, view, draft, detail, fetch, due>>

\* What is invalidated is the conversation in view by now.
TurnDone(s) ==
    /\ s \in {"edit", "regenerate"}
    /\ Waits(s, "waiting")
    /\ Succeeded(s)
    /\ IF active = None THEN UNCHANGED fetch ELSE Invalidate(active)
    /\ Missing({pend[s].conv})
    /\ pend' = [pend EXCEPT ![s] = NoPend]
    /\ call' = [call EXCEPT ![s] = NoCall]
    /\ UNCHANGED <<conv, turn, begun, view, draft, detail, due>>

TurnFails(s) ==
    /\ s \in {"edit", "regenerate"}
    /\ Waits(s, "waiting")
    /\ Failed(s)
    /\ pend' = [pend EXCEPT ![s] = NoPend]
    /\ Close(s)
    /\ UNCHANGED fetch
    /\ Missing(Changed(s))
    /\ UNCHANGED <<conv, turn, begun, view, draft, detail, due>>

DeleteBegin ==
    /\ Free("delete")
    /\ active # None
    /\ Await("delete")
    /\ Request("delete", "delete", active, None, None)
    /\ UNCHANGED <<conv, turn, begun, view, cache, draft, due>>

\* The list is asked for again, and awaited.
DeleteDone ==
    /\ Waits("delete", "waiting")
    /\ Succeeded("delete")
    /\ pend' = [pend EXCEPT !["delete"].pc = "leaving"]
    /\ call' = [call EXCEPT !["delete"] = NoCall]
    /\ UNCHANGED <<conv, turn, begun, view, draft, cache, due>>

\* Then /chat: the deleted conversation stays the active one.
DeleteLeave ==
    /\ Waits("delete", "leaving")
    /\ url' = "chat"
    /\ pend' = [pend EXCEPT !["delete"] = NoPend]
    /\ UNCHANGED <<serverVars, active, draft, cache, due>>

DeleteFails ==
    /\ Waits("delete", "waiting")
    /\ Failed("delete")
    /\ pend' = [pend EXCEPT !["delete"] = NoPend]
    /\ Close("delete")
    /\ UNCHANGED <<conv, turn, begun, view, draft, cache, due>>

-----------------------------------------------------------------------------
(* Fetches *)

\* staleTime is over and the connection comes back, or the page is opened again.
Refetch(c) ==
    /\ active = c
    /\ fetch[c].pc = "idle"
    /\ fetch' = [fetch EXCEPT ![c] = Asking]
    /\ Missing({})
    /\ UNCHANGED <<serverVars, view, draft, detail, pend, due>>

\* get_conversation
FetchAnswer(c) ==
    /\ fetch[c].pc = "asked"
    /\ IsOpen(c)
    /\ fetch' = [fetch EXCEPT ![c] = [pc |-> "answered", turns |-> Stored(c)]]
    /\ UNCHANGED <<serverVars, view, draft, detail, missed, pend, due>>

FetchLand(c) ==
    /\ fetch[c].pc = "answered"
    /\ detail' = [detail EXCEPT ![c] = [turns |-> fetch[c].turns, ghosts |-> {}]]
    /\ fetch' = [fetch EXCEPT ![c] = NoFetch]
    /\ UNCHANGED <<serverVars, view, draft, missed, pend, due>>

FetchFails(c) ==
    /\ \/ fetch[c].pc = "asked" /\ ~IsOpen(c)
       \/ fetch[c].pc # "idle" /\ "fetch" \in Fails
    /\ fetch' = [fetch EXCEPT ![c] = NoFetch]
    /\ missed' = missed \cup {c}
    /\ UNCHANGED <<serverVars, view, draft, detail, pend, due>>

\* A page at /chat that is in no conversation enters one, when the list comes.
EnterFirst(c) ==
    /\ url = "chat" /\ active = None
    /\ Listed(c)
    /\ active' = c
    /\ Shown(c)
    /\ Missing({})
    /\ UNCHANGED <<serverVars, url, draft, detail, pend, due>>

-----------------------------------------------------------------------------
Serve ==
    /\ ServerNext
    /\ due' = due \ {turn'[i].said : i \in {j \in Ids : turn'[j] # turn[j]}}
    /\ UNCHANGED pageVars

Handle(s) ==
    \/ Submit(s) \/ Proceed(s) \/ ProceedNew(s) \/ Created(s) \/ CreateFails(s)
    \/ Sent(s) \/ SendFails(s)

Next ==
    \/ Serve
    \/ Type \/ VisitNew
    \/ \E c \in Convs : Visit(c) \/ EnterFirst(c) \/ Refetch(c) \/ FetchAnswer(c) \/ FetchLand(c) \/ FetchFails(c)
    \/ \E s \in Sends : Handle(s)
    \/ \E i \in Ids : EditBegin(i) \/ RegenerateBegin(i)
    \/ \E s \in Slots : TurnDone(s) \/ TurnFails(s)
    \/ DeleteBegin \/ DeleteDone \/ DeleteLeave \/ DeleteFails

Spec == Init /\ [][Next]_vars

-----------------------------------------------------------------------------
(* Properties *)

ShownType == [id : Ids, said : Texts, reply : Texts, version : Nat]
ConvType == [state : {"absent", "open", "deleted"}, count : Nat]
TurnType == [conv : Convs \cup {None}, said : Texts \cup {None}, reply : Texts \cup {None},
             version : Nat]
CallType == [op : {"none", "create", "send", "edit", "regenerate", "delete"},
             pc : {"idle", "asked", "thinking", "stored"} \cup Over,
             conv : Convs \cup {None}, id : Ids \cup {None}, text : Texts \cup {None}]
DetailType == [turns : SUBSET ShownType, ghosts : SUBSET Sends]
FetchType == [pc : {"idle", "asked", "answered"}, turns : SUBSET ShownType]
PendType == [pc : {"idle", "reading", "creating", "posting", "waiting", "leaving"},
             conv : Convs \cup {None}, text : Texts \cup {None}]

\* null is none of the objects the cache holds.
ASSUME NoneIsNoDetail == None \notin DetailType

\* Records, cache and requests have values the code can give them; a page
\* that is asked for a new conversation is in none.
TypeOK ==
    /\ conv \in [Convs -> ConvType]
    /\ turn \in [Ids -> TurnType]
    /\ begun \in 0..MaxTurns
    /\ call \in [Slots -> CallType]
    /\ url \in {"chat", "new"}
    /\ active \in Convs \cup {None}
    /\ url = "new" => active = None
    /\ draft \in Texts \cup {None}
    /\ detail \in [Convs -> DetailType \cup {None}]
    /\ fetch \in [Convs -> FetchType]
    /\ pend \in [Slots -> PendType]
    /\ missed \subseteq Convs
    /\ due \subseteq Texts

\* Nothing about the conversation is under way.
Quiet(c) ==
    /\ fetch[c].pc = "idle"
    /\ \A s \in Slots : pend[s].conv # c /\ call[s].conv # c

\* The conversation in view, once nothing about it is under way, shows
\* what is stored, and no optimistic message: however sends, edits, regenerations
\* and fetches overtake each other.  Excepted is a change no fetch has
\* followed: its answer was lost, it ended while another conversation was in
\* view, or the fetch failed.
QuietMeansTrue ==
    \A c \in Convs : active = c /\ IsOpen(c) /\ Quiet(c) /\ c \notin missed =>
        /\ HasData(c)
        /\ detail[c].turns = Stored(c)
        /\ detail[c].ghosts = {}

\* A text that was submitted while no other submission was under way, and
\* until one is, is under way, stored, or back in the field, unless the user
\* has written over it there: whatever fails, and wherever the user is when it
\* does.  Where two submissions overlap the code may lose a text.
SentIsKept ==
    \A t \in due :
        \/ draft = t
        \/ \E s \in Sends : pend[s].pc # "idle" /\ pend[s].text = t
===============================================================================
