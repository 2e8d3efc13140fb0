----------------------------- MODULE MCRegistry ------------------------------
(***************************************************************************)
(* What is kept of agents: what the commands do to the hierarchy with its  *)
(* budgets, the archive, the conversations that belong to an agent, the    *)
(* tokens counted from them and the summaries of its pane.  The modules    *)
(* share no variable, so a behaviour shows one of them.  Of the hierarchy  *)
(* it shows either two agents under two commands at a time, or three       *)
(* agents, one above the other perhaps, under one command, with one dollar *)
(* that nobody spends.                                                     *)
(***************************************************************************)
EXTENDS AgentTree, SessionArchive, Conversations, TokenCounts, Summariser, TLC

CONSTANTS a1, a2, a3, c1, c2, s1, s2, s3, p1, p2, p3, o1, o2, t1, t2, dir, Parts

VARIABLE part

MCAgents == {a1, a2, a3}
MCClients == {c1, c2}
MCIds == {s1, s2, s3}
MCProcs == {p1, p2, p3}
MCOwners == {o1, o2}
MCTmuxSessions == {t1, t2}
MCDirectoryOf == o1 :> dir @@ o2 :> dir

\* Local time in the token counts: that of Greenwich, and one hour to the west.
MCUTC == 0
MCWest == -1

\* The names of the tmux sessions are interchangeable.
MCInit ==
  /\ part \in Parts /\ Init /\ ArchiveInit /\ ConvInit /\ TokenInit /\ SumInit
  /\ tmuxOf[o1] = t1 /\ (part # "conversations" => tmuxOf[o2] = t1)

Pair == \A c \in Clients : arg'[c].agent # a3
\* The agents of TokenCounts are interchangeable: the first is launched first.
InOrder == Alive(o1)' \/ ~Alive(o2)'

\* Two conversations and no restart are shown of agents in two tmux sessions, and beside
\* prompts elsewhere.
InTwo ==
  tmuxOf[o1] # tmuxOf[o2] \/ (\E i \in DOMAIN prompts' : prompts'[i].dir = Elsewhere)
    => convs' <= 2 /\ relaunches' = 0

Chain == pc'[c2] = "idle" /\ minted' <= 1 /\ spent' = spent

MCNext ==
  \/ part = "pair" /\ Next /\ Pair /\ UNCHANGED <<part, archiveVars, convVars, tokenVars, sumVars>>
  \/ part = "chain" /\ Next /\ Chain /\ UNCHANGED <<part, archiveVars, convVars, tokenVars, sumVars>>
  \/ part = "archive" /\ ArchiveNext /\ UNCHANGED <<part, vars, convVars, tokenVars, sumVars>>
  \/ part = "conversations" /\ ConvNext /\ InTwo
     /\ UNCHANGED <<part, vars, archiveVars, tokenVars, sumVars>>
  \/ part = "tokens" /\ TokenNext /\ InOrder /\ UNCHANGED <<part, vars, archiveVars, convVars, sumVars>>
  \/ part = "summaries" /\ SumNext /\ UNCHANGED <<part, vars, archiveVars, convVars, tokenVars>>

MCSpec == MCInit /\ [][MCNext]_<<part, vars, archiveVars, convVars, tokenVars, sumVars>>

\* The fairness of Conversations and of Summariser, in the behaviours that show them.
MCFairSpec ==
  /\ MCSpec
  /\ \A a \in Owners : WF_convVars(part = "conversations" /\ SyncLooks(a))
  /\ \A t \in TmuxSessions :
       /\ WF_convVars(part = "conversations" /\ SyncBinds(t))
       /\ WF_convVars(part = "conversations" /\ SyncDiscovers(t))
  /\ \A k \in Rounds : WF_sumVars(part = "summaries" /\ RoundStep(k))
  /\ WF_sumVars(part = "summaries" /\ IntervalPasses)
  /\ WF_sumVars(part = "summaries" /\ ContextIntervalPasses)

-----------------------------------------------------------------------------
(* Properties *)

\* Every variable of every part keeps its type.
TypesOK == TypeOK /\ ConvTypeOK /\ TokenTypeOK /\ SumTypeOK
=============================================================================
