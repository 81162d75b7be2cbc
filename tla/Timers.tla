------------------------------- MODULE Timers --------------------------------
(***************************************************************************)
(* The two timer tasks of a Raft actor (efis/src/consensus.rs): the        *)
(* election timer and the heartbeat, which role changes start and abort.   *)
(* Module RaftLog lets an election or a heartbeat happen at any time; this *)
(* module shows when they do.                                              *)
(*                                                                         *)
(* Time is discrete and relative: since is the time since the last         *)
(* election_reset_event, due the time to the next tick of a timer.  A tick *)
(* may come late, and the one after it is then early (tokio's Burst).      *)
(***************************************************************************)
EXTENDS Integers

CONSTANTS
    Timeouts,       \* the randomised election timeouts (150..300 ms)
    Heartbeat,      \* the heartbeat interval (50 ms)
    FirstDelay,     \* what start adds to the first reset event (500 ms)
    MaxHeard        \* bound: messages of peers that matter to the timers

ASSUME TimeoutsAssumption == Timeouts \subseteq Nat \ {0} /\ Timeouts # {}

VARIABLES
    started,            \* has start been called?
    state,              \* State: "Follower", "Candidate", "Leader"
    since,              \* time since election_reset_event, may be negative
    election_handle,    \* timeout of the running election timer, or None
    due,                \* time to its next tick
    heartbeat_handle,   \* is the heartbeat task running?
    beat_due,           \* time to its next tick
    asked,              \* StartElection messages in the mailbox
    aes,                \* is a SendAES in the mailbox?
    elections, beats,   \* history: parity of elections started, of heartbeats sent
    heard               \* history: messages of peers

timersVars == <<started, state, since, election_handle, due, heartbeat_handle,
                beat_due, asked, aes, elections, beats, heard>>

None == 0
Longest == CHOOSE t \in Timeouts : \A u \in Timeouts : u <= t
CountDown(n) == IF n = 0 THEN 0 ELSE n - 1

\* A new timer ticks at once; the running one, if any, is aborted.
SpawnElectionTimer == election_handle' \in Timeouts /\ due' = 0

\* Consensus::new.
TimersInit ==
    /\ started = FALSE
    /\ state = "Follower" /\ since = 0
    /\ election_handle = None /\ due = 0
    /\ heartbeat_handle = FALSE /\ beat_due = 0
    /\ asked = {} /\ aes = FALSE
    /\ elections = 0 /\ beats = 0 /\ heard = 0

\* start, before it enters its loop.
TimersStart ==
    /\ ~started /\ started' = TRUE
    /\ since' = -FirstDelay
    /\ SpawnElectionTimer
    /\ UNCHANGED <<state, heartbeat_handle, beat_due, asked, aes, elections,
                   beats, heard>>

-----------------------------------------------------------------------------
(* The timer tasks.                                                        *)

Tick ==
    /\ since' = IF since < Longest THEN since + 1 ELSE since
    /\ due' = CountDown(due) /\ beat_due' = CountDown(beat_due)
    /\ UNCHANGED <<started, state, election_handle, heartbeat_handle, asked, aes,
                   elections, beats, heard>>

ElectionTick ==
    /\ election_handle # None /\ due = 0
    /\ asked' = asked \cup {election_handle}
    /\ due' \in 0 .. election_handle
    /\ UNCHANGED <<started, state, since, election_handle, heartbeat_handle, beat_due,
                   aes, elections, beats, heard>>

Beat ==
    /\ heartbeat_handle /\ beat_due = 0
    /\ aes' = TRUE
    /\ beat_due' \in 0 .. Heartbeat
    /\ UNCHANGED <<started, state, since, election_handle, due, heartbeat_handle, asked,
                   elections, beats, heard>>

-----------------------------------------------------------------------------
(* The actor.                                                              *)

\* start_election aborts the heartbeat; the election timer goes on.
StartElection ==
    /\ state' = "Candidate"
    /\ since' = 0
    /\ heartbeat_handle' = FALSE
    /\ elections' = 1 - elections
    /\ UNCHANGED <<election_handle, due>>

\* Mutant: a leader that is asked for an election starts one.
TakeStartElectionAny(tm) ==
    /\ tm \in asked
    /\ asked' = asked \ {tm}
    /\ IF since >= tm THEN StartElection
       ELSE UNCHANGED <<state, since, election_handle, due, heartbeat_handle, elections>>
    /\ UNCHANGED <<started, beat_due, aes, beats, heard>>

\* StartElection(tm), perhaps of a timer that has been aborted since.
TakeStartElection(tm) ==
    /\ tm \in asked
    /\ asked' = asked \ {tm}
    /\ IF state # "Leader" /\ since >= tm THEN StartElection
       ELSE UNCHANGED <<state, since, election_handle, due, heartbeat_handle, elections>>
    /\ UNCHANGED <<started, beat_due, aes, beats, heard>>

\* Mutant: only a change of role restarts the timer.
BecomeFollowerSameRole ==
    /\ heard < MaxHeard /\ heard' = heard + 1
    /\ state' = "Follower"
    /\ since' = 0
    /\ IF state = "Follower" THEN SpawnElectionTimer
       ELSE UNCHANGED <<election_handle, due>>
    /\ UNCHANGED <<started, heartbeat_handle, beat_due, asked, aes, elections, beats>>

\* become_follower, after a message of a newer term; the heartbeat task of a
\* former leader goes on.
BecomeFollower ==
    /\ heard < MaxHeard /\ heard' = heard + 1
    /\ state' = "Follower"
    /\ since' = 0
    /\ SpawnElectionTimer
    /\ UNCHANGED <<started, heartbeat_handle, beat_due, asked, aes, elections, beats>>

\* A vote is granted, or append_entries of the present leader is accepted: a
\* candidate stays one.
HearLeader ==
    /\ heard < MaxHeard /\ heard' = heard + 1
    /\ state # "Leader"
    /\ since' = 0
    /\ UNCHANGED <<started, state, election_handle, due, heartbeat_handle, beat_due,
                   asked, aes, elections, beats>>

\* Mutant: the task that is still there is kept.
StartLeaderKeeps ==
    /\ state = "Candidate" /\ heard < MaxHeard /\ heard' = heard + 1
    /\ state' = "Leader"
    /\ election_handle' = None /\ due' = 0
    /\ aes' = TRUE
    /\ UNCHANGED <<started, since, heartbeat_handle, beat_due, asked, elections, beats>>

\* start_leader, after the vote that completes the quorum.
StartLeader ==
    /\ state = "Candidate" /\ heard < MaxHeard /\ heard' = heard + 1
    /\ state' = "Leader"
    /\ election_handle' = None /\ due' = 0
    /\ aes' = TRUE
    /\ heartbeat_handle' = TRUE /\ beat_due' = 0
    /\ UNCHANGED <<started, since, asked, elections, beats>>

\* SendAES; a node that does not lead ignores it.
TakeSendAES ==
    /\ aes
    /\ aes' = FALSE
    /\ beats' = IF state = "Leader" THEN 1 - beats ELSE beats
    /\ UNCHANGED <<started, state, since, election_handle, due, heartbeat_handle, beat_due,
                   asked, elections, heard>>

-----------------------------------------------------------------------------

Running ==
    /\ started
    /\ \/ Tick \/ ElectionTick \/ Beat
       \/ \E tm \in Timeouts : TakeStartElection(tm)
       \/ BecomeFollower \/ HearLeader \/ StartLeader \/ TakeSendAES

TimersNext == TimersStart \/ Running

TimersSpec == TimersInit /\ [][TimersNext]_timersVars

\* Time passes, the timer tasks are scheduled, and the actor drains its mailbox.
TimersFairness ==
    /\ WF_timersVars(started /\ Tick)
    /\ WF_timersVars(ElectionTick)
    /\ WF_timersVars(Beat)
    /\ \A tm \in Timeouts : WF_timersVars(TakeStartElection(tm))
    /\ WF_timersVars(TakeSendAES)

-----------------------------------------------------------------------------
(* Properties.                                                             *)

\* After any sequence of role changes, and whatever messages of aborted
\* timers are still in the mailbox, a node that does not lead has a running
\* election timer and one that leads a heartbeat, and no election timer
\* (consensus.rs:548-673).
TimersRight ==
    /\ election_handle # None <=> started /\ state # "Leader"
    /\ state = "Leader" => heartbeat_handle

\* A node that hears nothing more stands for election, and stands again as
\* long as it does not win (consensus.rs:229-251, 562-567).
StandsAgain ==
    \/ []<>(~started \/ state = "Leader")
    \/ []<><<elections' # elections>>_timersVars

\* A leader keeps sending append_entries for as long as it leads
\* (consensus.rs:655-672).
LeaderBeats ==
    []<>(state # "Leader") \/ []<><<beats' # beats>>_timersVars
=============================================================================
