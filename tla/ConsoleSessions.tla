---------------------------- MODULE ConsoleSessions ----------------------------
(***************************************************************************)
(* The conversations of the web console (web/static/app.js): every open    *)
(* tab holds a list of them in memory and writes the whole list into the   *)
(* one localStorage of the browser.  What streamCompletion does with one   *)
(* stream is the subject of CompletionStream; here it is a prompt whose    *)
(* reply first says "running", then shows streamed text and is settled     *)
(* some day, while the user goes on clicking.                              *)
(*                                                                         *)
(* A handler runs to its end before another one starts, in any tab.        *)
(***************************************************************************)
EXTENDS Naturals, Sequences, SequencesExt

CONSTANTS
  Tabs,
  MaxSessions,   \* bound on the conversations created
  MaxPrompts     \* bound on the prompts sent

ASSUME ConsoleAssumption == MaxSessions \in Nat /\ MaxPrompts \in Nat

VARIABLES
  storage,    \* localStorage[SESSION_KEY]: <<>> when there is none
  sessions,   \* state.sessions of each tab; <<>> while it is closed
  active,     \* state.activeSessionId of each tab
  awaited,    \* the prompt each tab waits for; 0: none
  created,    \* conversations created so far
  asked,      \* the conversation that each prompt was sent in
  asker,      \* the tab that a prompt was sent from; NoTab once that was closed
  fate,       \* what became of each prompt
  shared,     \* prompts beside whose sending or waiting another tab was open
  cleared,    \* prompts whose conversation was cleared
  wiped       \* those of them cleared while no other tab was open

sessionsVars == <<storage, sessions, active, awaited, created, asked, asker, fate, shared, cleared, wiped>>
history == <<asked, asker, fate, shared, cleared, wiped>>

NoTab == "closed"
Settled == {"answer", "failed"}
Open == {t \in Tabs : sessions[t] # <<>>}
Asked == DOMAIN asked

\* A conversation and its messages; the welcome message is left out.
Session(id) == [id |-> id, messages |-> <<>>]
UserMessage(p) == [prompt |-> p, kind |-> "prompt"]
Reply(p, kind) == [prompt |-> p, kind |-> kind]

InSession(list, id, Change(_)) ==
  [i \in DOMAIN list |-> IF list[i].id = id THEN [list[i] EXCEPT !.messages = Change(@)] ELSE list[i]]

ActiveOf(t) == SelectInSeq(sessions[t], LAMBDA s : s.id = active[t])
PromptsIn(messages) == {messages[i].prompt : i \in DOMAIN messages}

\* persistSessions
Persist(t) == storage' = sessions'[t]

SetSessions(t, list) == sessions' = [sessions EXCEPT ![t] = list]

-----------------------------------------------------------------------------
OpenTabUnchosen(t) ==   \* mutant: a conversation is made active only if it is new
  /\ t \notin Open
  /\ LET fresh == storage = <<>>
         list == IF fresh THEN <<Session(created + 1)>> ELSE storage
     IN  /\ fresh => created < MaxSessions
         /\ SetSessions(t, list)
         /\ active' = IF fresh THEN [active EXCEPT ![t] = list[1].id] ELSE active
         /\ created' = created + (IF fresh THEN 1 ELSE 0)
  /\ shared' = shared \cup {awaited[o] : o \in {o \in Open : awaited[o] # 0}}
  /\ UNCHANGED <<storage, awaited, asked, asker, fate, cleared, wiped>>

\* loadState; a conversation that it creates is not persisted yet.
OpenTab(t) ==
  /\ t \notin Open
  /\ LET fresh == storage = <<>>
         list == IF fresh THEN <<Session(created + 1)>> ELSE storage
     IN  /\ fresh => created < MaxSessions
         /\ SetSessions(t, list)
         /\ active' = [active EXCEPT ![t] = list[1].id]
         /\ created' = created + (IF fresh THEN 1 ELSE 0)
  /\ shared' = shared \cup {awaited[o] : o \in {o \in Open : awaited[o] # 0}}
  /\ UNCHANGED <<storage, awaited, asked, asker, fate, cleared, wiped>>

\* The tab is closed or about to be reloaded; a prompt it waits for is abandoned.
CloseTab(t) ==
  /\ t \in Open
  /\ SetSessions(t, <<>>)
  /\ active' = [active EXCEPT ![t] = 0]
  /\ awaited' = [awaited EXCEPT ![t] = 0]
  /\ asker' = [p \in Asked |-> IF asker[p] = t THEN NoTab ELSE asker[p]]
  /\ UNCHANGED <<storage, created, asked, fate, shared, cleared, wiped>>

NewConversation(t) ==
  /\ t \in Open /\ created < MaxSessions
  /\ SetSessions(t, <<Session(created + 1)>> \o sessions[t])
  /\ active' = [active EXCEPT ![t] = created + 1]
  /\ Persist(t)
  /\ created' = created + 1
  /\ UNCHANGED <<awaited, history>>

SwitchTo(t, id) ==
  /\ t \in Open /\ id \in {sessions[t][i].id : i \in DOMAIN sessions[t]} \ {active[t]}
  /\ active' = [active EXCEPT ![t] = id]
  /\ UNCHANGED <<storage, sessions, awaited, created, history>>

\* submitPrompt up to the fetch: the user's message and the placeholder.
SubmitPrompt(t) ==
  /\ t \in Open /\ awaited[t] = 0 /\ Len(asked) < MaxPrompts
  /\ LET p == Len(asked) + 1
     IN  /\ awaited' = [awaited EXCEPT ![t] = p]
         /\ SetSessions(t, InSession(sessions[t], active[t],
                             LAMBDA messages : messages \o <<UserMessage(p), Reply(p, "running")>>))
         /\ shared' = shared \cup (IF Open = {t} THEN {} ELSE {p})
  /\ Persist(t)
  /\ asked' = Append(asked, active[t])
  /\ asker' = Append(asker, t)
  /\ fate' = Append(fate, "none")
  /\ UNCHANGED <<active, created, cleared, wiped>>

\* The placeholder of p becomes kind; nothing happens if it was cleared away.
Written(list, id, p, kind) ==
  InSession(list, id, LAMBDA messages :
    [i \in DOMAIN messages |->
       IF messages[i].prompt = p /\ messages[i].kind # "prompt" THEN Reply(p, kind) ELSE messages[i]])

\* A token or replace event: placeholder.content, in memory only.
Receive(t) ==
  /\ t \in Open /\ awaited[t] # 0
  /\ SetSessions(t, Written(sessions[t], asked[awaited[t]], awaited[t], "partial"))
  /\ sessions' # sessions
  /\ UNCHANGED <<storage, active, awaited, created, history>>

SettleInActive(t, kind) ==   \* mutant: the last message of the conversation on screen is taken
  /\ t \in Open /\ awaited[t] # 0
  /\ SetSessions(t, InSession(sessions[t], active[t], LAMBDA messages :
       IF messages = <<>> THEN messages
       ELSE [messages EXCEPT ![Len(messages)] = Reply(awaited[t], kind)]))
  /\ Persist(t)
  /\ fate' = [fate EXCEPT ![awaited[t]] = kind]
  /\ awaited' = [awaited EXCEPT ![t] = 0]
  /\ UNCHANGED <<active, created, asked, asker, shared, cleared, wiped>>

SettleAppends(t, kind) ==   \* mutant: the reply is appended if its placeholder is gone
  /\ t \in Open /\ awaited[t] # 0
  /\ SetSessions(t, InSession(sessions[t], asked[awaited[t]], LAMBDA messages :
       SelectSeq(messages, LAMBDA m : m.prompt # awaited[t])
         \o <<UserMessage(awaited[t]), Reply(awaited[t], kind)>>))
  /\ Persist(t)
  /\ fate' = [fate EXCEPT ![awaited[t]] = kind]
  /\ awaited' = [awaited EXCEPT ![t] = 0]
  /\ UNCHANGED <<active, created, asked, asker, shared, cleared, wiped>>

SettleUnsaved(t, kind) ==   \* mutant: without persistSessions
  /\ t \in Open /\ awaited[t] # 0
  /\ SetSessions(t, Written(sessions[t], asked[awaited[t]], awaited[t], kind))
  /\ fate' = [fate EXCEPT ![awaited[t]] = kind]
  /\ awaited' = [awaited EXCEPT ![t] = 0]
  /\ UNCHANGED <<storage, active, created, asked, asker, shared, cleared, wiped>>

\* submitPrompt after the stream: its answer, or the error.
SettlePrompt(t, kind) ==
  /\ t \in Open /\ awaited[t] # 0
  /\ SetSessions(t, Written(sessions[t], asked[awaited[t]], awaited[t], kind))
  /\ Persist(t)
  /\ fate' = [fate EXCEPT ![awaited[t]] = kind]
  /\ awaited' = [awaited EXCEPT ![t] = 0]
  /\ UNCHANGED <<active, created, asked, asker, shared, cleared, wiped>>

\* clearActiveSession, confirmed.
Clear(t) ==
  /\ t \in Open
  /\ SetSessions(t, InSession(sessions[t], active[t], LAMBDA messages : <<>>))
  /\ Persist(t)
  /\ LET gone == PromptsIn(sessions[t][ActiveOf(t)].messages)
     IN  /\ cleared' = cleared \cup gone
         /\ wiped' = IF Open = {t} THEN wiped \cup gone ELSE wiped
  /\ UNCHANGED <<active, awaited, created, asked, asker, fate, shared>>

-----------------------------------------------------------------------------
SessionsInit ==
  /\ storage = <<>>
  /\ sessions = [t \in Tabs |-> <<>>]
  /\ active = [t \in Tabs |-> 0]
  /\ awaited = [t \in Tabs |-> 0]
  /\ created = 0
  /\ asked = <<>> /\ asker = <<>> /\ fate = <<>>
  /\ shared = {} /\ cleared = {} /\ wiped = {}

SessionsNext ==
  \E t \in Tabs :
    \/ OpenTab(t) \/ CloseTab(t) \/ NewConversation(t) \/ SubmitPrompt(t) \/ Receive(t) \/ Clear(t)
    \/ \E id \in 1..MaxSessions : SwitchTo(t, id)
    \/ \E kind \in Settled : SettlePrompt(t, kind)

SessionsSpec == SessionsInit /\ [][SessionsNext]_sessionsVars

-----------------------------------------------------------------------------
(* Properties *)

Kinds == {"prompt", "running", "partial"} \cup Settled
Lists == {storage} \cup {sessions[t] : t \in Open}
Messages(list) == UNION {Range(list[i].messages) : i \in DOMAIN list}

SessionsTypeOK ==
  /\ created \in 0..MaxSessions
  /\ \A list \in Lists : \A i \in DOMAIN list :
       /\ list[i].id \in 1..created
       /\ \A m \in Range(list[i].messages) : m.prompt \in Asked /\ m.kind \in Kinds
       /\ \A j \in DOMAIN list : list[j].id = list[i].id => i = j
  /\ \A t \in Tabs : awaited[t] \in {0} \cup Asked
  /\ \A t \in Open : \E i \in DOMAIN sessions[t] : sessions[t][i].id = active[t]
  /\ asked \in Seq(1..MaxSessions) /\ asker \in Seq(Tabs \cup {NoTab})
  /\ fate \in Seq({"none"} \cup Settled)
  /\ shared \cup cleared \cup wiped \subseteq Asked

\* Whatever the user does while a reply is under way, and whichever tab wrote the
\* list: a conversation consists of prompts that were sent in it, each once and
\* followed by its own reply.
RepliesFollowPrompts ==
  \A list \in Lists : \A i \in DOMAIN list :
    LET ms == list[i].messages
    IN  /\ Len(ms) % 2 = 0
        /\ \A j \in DOMAIN ms :
             /\ asked[ms[j].prompt] = list[i].id
             /\ ms[j].kind = "prompt" <=> j % 2 = 1
             /\ \A k \in DOMAIN ms : ms[k].prompt = ms[j].prompt <=> (k + 1) \div 2 = (j + 1) \div 2

\* A prompt that was settled shows so in the tab it was sent from and, unless
\* another tab was open beside it, in what a reload will find: neither keeps a
\* placeholder or ungated text of it.  Only a clear takes it away.
SettledPromptsAreKept ==
  \A p \in Asked : fate[p] \in Settled /\ p \notin cleared =>
    /\ asker[p] # NoTab => Reply(p, fate[p]) \in Messages(sessions[asker[p]])
    /\ p \notin shared => Reply(p, fate[p]) \in Messages(storage)

\* What was cleared in the only open tab never comes back, not even the reply that
\* was still under way.
ClearedStaysCleared ==
  \A p \in wiped : \A list \in Lists : \A m \in Messages(list) : m.prompt # p
=============================================================================
