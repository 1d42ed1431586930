----------------------------- MODULE ChatService -----------------------------
(***************************************************************************)
(* Studio's conversations on the server: services/chat_service.py with the *)
(* updates of conversation_ops.py.  A request resolves the conversation    *)
(* and the turn it is about, awaits a language model, applies its change   *)
(* in one mutate and reads the result again for its answer.  StudioStore   *)
(* says when a mutate is one step; here it is, and so are the reads of one *)
(* resolve.                                                                *)
(*                                                                         *)
(* A turn is a user message and the reply stored with it.  It is named by  *)
(* the stamp the user message takes before the model is asked, so a turn   *)
(* may be stored after a later one.  A reply is known by the text it       *)
(* answers, `version` counts the edits and regenerations of the reply.     *)
(*                                                                         *)
(* Left out: feedback and revert, which the page modelled in StudioChat    *)
(* does not offer or does not read back; attachments, moderation, titles   *)
(* and the model's words.                                                  *)
(***************************************************************************)
EXTENDS Naturals, FiniteSets

CONSTANTS
    Convs,      \* conversations that may be created
    Slots,      \* requests that may be under way at once
    TurnLimit,  \* chat_message_limit of the plan, where it has one
    Fails,      \* slots whose requests the server may fail
    Texts,      \* what a user may write
    MaxTurns,   \* bound: turns in all
    None        \* no conversation, turn, text, list or detail

ASSUME ChatAssumption ==
    /\ TurnLimit \in Nat \ {0}
    /\ MaxTurns \in Nat
    /\ None \notin Convs \cup Texts \cup Nat

Ids == 1..MaxTurns

VARIABLES
    conv,       \* the conversation records
    turn,       \* the messages, by turn
    begun,      \* turns begun so far
    call        \* the requests

serverVars == <<conv, turn, begun, call>>

NoConv == [state |-> "absent", count |-> 0]
NoTurn == [conv |-> None, said |-> None, reply |-> None, version |-> 0]
NoCall == [op |-> "none", pc |-> "idle", conv |-> None, id |-> None, text |-> None]

ServerInit ==
    /\ conv = [c \in Convs |-> NoConv]
    /\ turn = [i \in Ids |-> NoTurn]
    /\ begun = 0
    /\ call = [s \in Slots |-> NoCall]

IsOpen(c) == c \in Convs /\ conv[c].state = "open"
TurnsOf(c) == {i \in Ids : turn[i].conv = c}
IsLatest(c, i) == i \in TurnsOf(c) /\ \A j \in TurnsOf(c) : j <= i

Asked(s, op) == call[s].pc = "asked" /\ call[s].op = op
Answer(s, how) == call' = [call EXCEPT ![s].pc = how]
Becomes(s, pc, c, i, t) ==
    call' = [call EXCEPT ![s] = [op |-> call[s].op, pc |-> pc, conv |-> c, id |-> i, text |-> t]]

-----------------------------------------------------------------------------
\* create_conversation
Create(s) ==
    /\ Asked(s, "create")
    /\ \E c \in Convs :
        /\ conv[c].state = "absent"
        /\ conv' = [conv EXCEPT ![c] = [state |-> "open", count |-> 0]]
        /\ Becomes(s, "ok", c, None, None)
    /\ UNCHANGED <<turn, begun>>

\* send_chat_message up to the model: the plan's limit is read here alone.
ResolveSend(s) ==
    /\ Asked(s, "send")
    /\ IsOpen(call[s].conv)
    /\ Cardinality(TurnsOf(call[s].conv)) < TurnLimit
    /\ begun < MaxTurns
    /\ begun' = begun + 1
    /\ Becomes(s, "thinking", call[s].conv, begun + 1, call[s].text)
    /\ UNCHANGED <<conv, turn>>

\* edit_chat_message and regenerate_chat_message up to the model: only the
\* latest turn; a regeneration answers the text it finds now.
ResolveTurn(s) ==
    /\ Asked(s, "edit") \/ Asked(s, "regenerate")
    /\ IsOpen(call[s].conv)
    /\ IsLatest(call[s].conv, call[s].id)
    /\ Becomes(s, "thinking", call[s].conv, call[s].id,
               IF call[s].op = "edit" THEN call[s].text ELSE turn[call[s].id].said)
    /\ UNCHANGED <<conv, turn, begun>>

ResolveDelete(s) ==
    /\ Asked(s, "delete")
    /\ IsOpen(call[s].conv)
    /\ Answer(s, "thinking")
    /\ UNCHANGED <<conv, turn, begun>>

\* What is asked for is not there, or not allowed.
Refuse(s) ==
    /\ \/ /\ Asked(s, "send")
          /\ ~IsOpen(call[s].conv) \/ Cardinality(TurnsOf(call[s].conv)) >= TurnLimit
       \/ /\ Asked(s, "edit") \/ Asked(s, "regenerate")
          /\ ~IsOpen(call[s].conv) \/ ~IsLatest(call[s].conv, call[s].id)
       \/ Asked(s, "delete") /\ ~IsOpen(call[s].conv)
    /\ Answer(s, "failed")
    /\ UNCHANGED <<conv, turn, begun>>

-----------------------------------------------------------------------------
\* The mutations

Thought(s, op) == call[s].pc = "thinking" /\ call[s].op = op

\* As a bug would have it: the exchange is stored by its own keys, whatever
\* has become of the conversation.
StoreAnyway(s) ==
    /\ Thought(s, "send")
    /\ conv' = [conv EXCEPT ![call[s].conv].count = @ + 2]
    /\ turn' = [turn EXCEPT ![call[s].id] =
            [conv |-> call[s].conv, said |-> call[s].text, reply |-> call[s].text, version |-> 0]]
    /\ Answer(s, "stored")
    /\ UNCHANGED begun

\* apply_chat_exchange_to_state
StoreSend(s) ==
    /\ Thought(s, "send")
    /\ IsOpen(call[s].conv)
    /\ conv' = [conv EXCEPT ![call[s].conv].count = @ + 2]
    /\ turn' = [turn EXCEPT ![call[s].id] =
            [conv |-> call[s].conv, said |-> call[s].text, reply |-> call[s].text, version |-> 0]]
    /\ Answer(s, "stored")
    /\ UNCHANGED begun

\* apply_message_pair_edit_to_state: nobody asks again whether the turn is
\* the latest, or which text it has by now.
StoreTurn(s) ==
    /\ Thought(s, "edit") \/ Thought(s, "regenerate")
    /\ LET i == call[s].id
       IN  /\ turn[i] # NoTurn
           /\ turn' = [turn EXCEPT ![i] =
                [conv |-> turn[i].conv,
                 said |-> IF call[s].op = "edit" THEN call[s].text ELSE turn[i].said,
                 reply |-> call[s].text,
                 version |-> turn[i].version + 1]]
    /\ Answer(s, "stored")
    /\ UNCHANGED <<conv, begun>>

\* remove_conversation_from_state; its answer needs no reading.
StoreDelete(s) ==
    /\ Thought(s, "delete")
    /\ conv' = [conv EXCEPT ![call[s].conv] = [state |-> "deleted", count |-> 0]]
    /\ turn' = [i \in Ids |-> IF turn[i].conv = call[s].conv THEN NoTurn ELSE turn[i]]
    /\ Answer(s, "ok")
    /\ UNCHANGED begun

\* The keys of the mutation are gone: KeyError, before anything is written.
StoreFinds(s) ==
    /\ \/ Thought(s, "send") /\ ~IsOpen(call[s].conv)
       \/ (Thought(s, "edit") \/ Thought(s, "regenerate")) /\ turn[call[s].id] = NoTurn
    /\ Answer(s, "failed")
    /\ UNCHANGED <<conv, turn, begun>>

\* require_owned_model for the answer, after the mutation.  "undone" is an
\* error in answer to a request that was carried out.
Reread(s) ==
    /\ call[s].pc = "stored"
    /\ Answer(s, IF IsOpen(call[s].conv) THEN "ok" ELSE "undone")
    /\ UNCHANGED <<conv, turn, begun>>

\* The model or the database fails, before or after the mutation.
Fail(s) ==
    /\ s \in Fails
    /\ \/ call[s].pc \in {"asked", "thinking"} /\ Answer(s, "failed")
       \/ call[s].pc = "stored" /\ Answer(s, "undone")
    /\ UNCHANGED <<conv, turn, begun>>

ServerNext == \E s \in Slots :
    \/ Create(s) \/ ResolveSend(s) \/ ResolveTurn(s) \/ ResolveDelete(s) \/ Refuse(s)
    \/ StoreSend(s) \/ StoreTurn(s) \/ StoreDelete(s) \/ StoreFinds(s)
    \/ Reread(s) \/ Fail(s)

-----------------------------------------------------------------------------
\* However requests overlap, every message belongs to a conversation that is
\* there, and a conversation counts the messages it has: a send that was
\* thinking while its conversation was deleted leaves nothing behind.
ConversationsAddUp ==
    /\ \A i \in Ids : turn[i] # NoTurn => IsOpen(turn[i].conv)
    /\ \A c \in Convs : conv[c].count = 2 * Cardinality(TurnsOf(c))

\* The plan's limit.  Two sends that are thinking at once exceed it.
LimitIsKept == \A c \in Convs : Cardinality(TurnsOf(c)) <= TurnLimit

\* A reply answers the text it stands under.  A regeneration that overlaps
\* an edit stores the answer to the older text.
RepliesAnswer == \A i \in Ids : turn[i].reply = turn[i].said
===============================================================================
