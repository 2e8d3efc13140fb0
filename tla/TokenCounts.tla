----------------------------- MODULE TokenCounts -----------------------------
(***************************************************************************)
(* What the monitor daemon counts an agent's tokens from.  Claude writes   *)
(* each of its calls, with the time, into the file of the conversation or  *)
(* into that of a subagent; compaction leaves copies, and a forked agent   *)
(* begins with a copy of its source's conversation.  The daemon adds up    *)
(* the files of the agent's conversations, without the copies and without  *)
(* what is older than the agent; in a container it reads through docker.   *)
(*                                                                         *)
(* A call counts one, whatever its tokens.  Which conversations belong to  *)
(* which agent is modelled in Conversations; here each knows its own, and  *)
(* no two agents own one, as those of a tmux session do not.               *)
(***************************************************************************)
EXTENDS Integers, FiniteSets, FiniteSetsExt

CONSTANTS
  Billed,   \* agents
  Offset,   \* local time less UTC
  MaxHours, \* bound on the clock
  MaxCalls, \* bound on calls of Claude
  MaxFiles  \* bound on conversations

ASSUME TokenAssumption ==
  Offset \in Int /\ MaxHours \in Nat /\ MaxCalls \in Nat /\ MaxFiles \in Nat \ {0}

Transcripts == 1 .. MaxFiles
Call == [number : 1 .. MaxCalls, at : 0 .. MaxHours]

NotYet == -1
NoFile == 0

VARIABLES
  clock,     \* in UTC
  started,   \* start_time of each agent
  place,     \* where its files are, on the host or in a container
  own,       \* its conversations that had a prompt: claude_session_ids
  current,   \* its conversation
  source,    \* the conversation it will be forked from, until Claude has copied it
  file,      \* calls in the file of each conversation
  agentLogs, \* calls in the files of its subagents
  metaLogs,  \* calls in the copies that compaction leaves among them
  recorded,  \* total_tokens of each agent
  calls,     \* history: the calls made for each agent
  late,      \* history: calls of its source between its start and the copy
  owed       \* history: what recorded should be, when it was last written

tokenVars == <<clock, started, place, own, current, source, file, agentLogs, metaLogs, recorded,
               calls, late, owed>>

Alive(a) == started[a] # NotYet

Made == UNION {calls[a] : a \in Billed}

NewCall == [number |-> Cardinality(Made) + 1, at |-> clock]

Unused == {c \in Transcripts : file[c] = {} /\ \A a \in Billed : current[a] # c}

-----------------------------------------------------------------------------
(* Agents and Claude *)

Launches(a) ==
  /\ ~Alive(a)
  /\ started' = [started EXCEPT ![a] = clock]
  /\ \E where \in {"host", "container"} : place' = [place EXCEPT ![a] = where]
  /\ UNCHANGED <<clock, own, current, source, file, agentLogs, metaLogs, recorded, calls, late, owed>>

\* launch_fork: registered now; Claude copies the conversation when it starts.
Forks(a, b) ==
  /\ Alive(a) /\ ~Alive(b) /\ place[a] = "host" /\ current[a] # NoFile
  /\ started' = [started EXCEPT ![b] = clock]
  /\ source' = [source EXCEPT ![b] = current[a]]
  /\ UNCHANGED <<clock, place, own, current, file, agentLogs, metaLogs, recorded, calls, late, owed>>

ForkCopies(b) ==
  /\ source[b] # NoFile
  /\ \E c \in Unused :
       /\ file' = [file EXCEPT ![c] = file[source[b]]]
       /\ current' = [current EXCEPT ![b] = c]
  /\ late' = [late EXCEPT ![b] = {m \in file[source[b]] : m.at >= started[b]}]
  /\ source' = [source EXCEPT ![b] = NoFile]
  /\ UNCHANGED <<clock, started, place, own, agentLogs, metaLogs, recorded, calls, owed>>

Calls(a) ==
  /\ Cardinality(Made) < MaxCalls
  /\ calls' = [calls EXCEPT ![a] = @ \cup {NewCall}]

\* A prompt and its answer, in a new conversation after a launch or /clear.
Answers(a) ==
  /\ Alive(a) /\ source[a] = NoFile /\ Calls(a)
  /\ \E c \in IF current[a] = NoFile THEN Unused ELSE {current[a]} :
       /\ file' = [file EXCEPT ![c] = @ \cup {NewCall}]
       /\ current' = [current EXCEPT ![a] = c]
       /\ own' = [own EXCEPT ![a] = @ \cup {c}]
  /\ UNCHANGED <<clock, started, place, source, agentLogs, metaLogs, recorded, late, owed>>

AsksSubagent(a) ==
  /\ current[a] \in own[a] /\ Calls(a)
  /\ agentLogs' = [agentLogs EXCEPT ![current[a]] = @ \cup {NewCall}]
  /\ UNCHANGED <<clock, started, place, own, current, source, file, metaLogs, recorded, late, owed>>

\* Compaction or /btw: a copy of the conversation, marked isMeta.
Compacts(a) ==
  /\ current[a] \in own[a]
  /\ metaLogs' = [metaLogs EXCEPT ![current[a]] = file[current[a]]]
  /\ UNCHANGED <<clock, started, place, own, current, source, file, agentLogs, recorded, calls, late, owed>>

ClearsConversation(a) ==
  /\ current[a] # NoFile
  /\ current' = [current EXCEPT ![a] = NoFile]
  /\ UNCHANGED <<clock, started, place, own, source, file, agentLogs, metaLogs, recorded, calls, late, owed>>

HourPasses ==
  /\ clock < MaxHours /\ clock' = clock + 1
  /\ UNCHANGED <<started, place, own, current, source, file, agentLogs, metaLogs, recorded, calls, late, owed>>

-----------------------------------------------------------------------------
(* The monitor daemon *)

\* get_session_stats: start_time, a local time, is converted to UTC.
SessionStart(a) == started[a]

\* Mutant: calls are counted whenever they were made.
AnyTime(call, since) == TRUE

\* _parse_session_lines: the time of a call is converted to local time.
Recent(call, since) == call.at + Offset >= since

\* _is_duplicate_subagent: the copies are told by their mark.
SubagentCalls(c) == agentLogs[c]

\* What each conversation contributes to an agent's total.
CountedIn(a) ==
  [c \in Transcripts |->
     LET recent(log) == {m \in log : Recent(m, SessionStart(a))} IN
     Cardinality(recent(file[c])) + Cardinality(recent(SubagentCalls(c)))]

HostTotal(a) == MapThenSumSet(LAMBDA c : CountedIn(a)[c], own[a])

Records(a, total) ==
  /\ recorded' = [recorded EXCEPT ![a] = total]
  /\ owed' = [owed EXCEPT ![a] =
       Cardinality(calls[a]) + Cardinality({m \in late[a] : \E c \in own[a] : m \in file[c]})]
  /\ UNCHANGED <<clock, started, place, own, current, source, file, agentLogs, metaLogs, calls, late>>

SyncsHost(a) == Alive(a) /\ place[a] = "host" /\ Records(a, HostTotal(a))

InContainer == [c \in Transcripts |-> Cardinality(file[c])]

\* _sync_container_stats: through docker the files are read from their
\* beginning, those of subagents not at all, and a file that cannot be read is
\* passed over.  If all fail, the host's files are read, and have nothing.
SyncsContainer(a) ==
  /\ Alive(a) /\ place[a] = "container"
  /\ \E read \in SUBSET own[a] : Records(a, MapThenSumSet(LAMBDA c : InContainer[c], read))

-----------------------------------------------------------------------------

TokenInit ==
  /\ clock = 0
  /\ started = [a \in Billed |-> NotYet] /\ place = [a \in Billed |-> "host"]
  /\ own = [a \in Billed |-> {}] /\ current = [a \in Billed |-> NoFile]
  /\ source = [a \in Billed |-> NoFile]
  /\ file = [c \in Transcripts |-> {}] /\ agentLogs = [c \in Transcripts |-> {}] /\ metaLogs = [c \in Transcripts |-> {}]
  /\ recorded = [a \in Billed |-> 0]
  /\ calls = [a \in Billed |-> {}] /\ late = [a \in Billed |-> {}] /\ owed = [a \in Billed |-> 0]

TokenNext ==
  \/ \E a \in Billed :
       \/ Launches(a) \/ ForkCopies(a) \/ Answers(a) \/ AsksSubagent(a) \/ Compacts(a)
       \/ ClearsConversation(a) \/ SyncsHost(a) \/ SyncsContainer(a)
  \/ \E a, b \in Billed : Forks(a, b)
  \/ HourPasses

TokenSpec == TokenInit /\ [][TokenNext]_tokenVars

-----------------------------------------------------------------------------
(* Properties *)

TokenTypeOK ==
  /\ started \in [Billed -> {NotYet} \cup 0 .. MaxHours]
  /\ file \in [Transcripts -> SUBSET Call] /\ agentLogs \in [Transcripts -> SUBSET Call]
  /\ recorded \in [Billed -> Nat]

\* Where local time is UTC: each call is counted for the agent it was made for
\* and for no other, once, although forks and compaction copy it, over clears
\* and subagents; only what the source says before the fork is copied is
\* counted for both.  In a container calls may be missing, never too many.
TokensAreTrue ==
  \A a \in Billed :
    IF place[a] = "host" THEN recorded[a] = owed[a] ELSE recorded[a] <= owed[a]

\* "The token counts themselves are accurate": no call goes uncounted.
NoTokenIsLost == \A a \in Billed : place[a] = "host" => recorded[a] >= owed[a]
=============================================================================
