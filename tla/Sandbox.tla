------------------------------- MODULE Sandbox -------------------------------
(***************************************************************************)
(* The node's sandbox (node.core.runtime): git worktrees that several      *)
(* tasks create, run commands in and clean up, and the log of what those   *)
(* commands print, which the control API streams to a viewer.              *)
(*                                                                         *)
(* Every git or docker command is awaited, so tasks interleave between any *)
(* two of them.  Git and docker are external: a worktree is a directory on *)
(* disk and an entry in git's own list, and the two can disagree.          *)
(***************************************************************************)
EXTENDS Naturals, Sequences

CONSTANTS
    Task,        \* tasks that use the manager
    Branch,      \* branch names
    Nobody,      \* no branch
    Dir,         \* the directory a branch name is cut down to (safe_name)
    MaxOps,      \* bound on operations
    LogCapacity, \* maxlen of the ring
    LogLimit     \* how much of the log a new stream replays

Directory == {Dir[b] : b \in Branch}

VARIABLES
    task,        \* where each task is: [pc, branch, then, fresh]
    worktrees,   \* keys of _worktrees
    disk,        \* the branch whose files a directory holds, or Nobody
    listed,      \* the branch git's list has for a directory, or Nobody
    refs,        \* branches that exist
    ops,         \* operations so far
    mixed,       \* history: directories two creations or cleanups were in at once
    lines,       \* history: log lines written so far, numbered from 1
    buffer,      \* _buffer
    viewer       \* the stream: [open, replay, queue, got]

gitVars == <<worktrees, disk, listed, refs>>
logVars == <<lines, buffer, viewer>>
sandboxVars == <<task, gitVars, ops, mixed, logVars>>

Idle == [pc |-> "idle", branch |-> Nobody, then |-> "nothing", fresh |-> FALSE]

Here(t) == Dir[task[t].branch]
Goto(t, pc) == task' = [task EXCEPT ![t].pc = pc]

Changes(t) == task[t].pc \notin {"idle", "running"}

Begin(t, b, pc, then) ==
    /\ task[t] = Idle /\ ops < MaxOps
    /\ task' = [task EXCEPT ![t] = [pc |-> pc, branch |-> b, then |-> then,
                                    fresh |-> FALSE]]
    /\ ops' = ops + 1
    /\ mixed' = IF pc # "running" /\ \E u \in Task \ {t} : Changes(u) /\ Here(u) = Dir[b]
                THEN mixed \cup {Dir[b]} ELSE mixed
    /\ UNCHANGED <<gitVars, logVars>>

-----------------------------------------------------------------------------
(***************************************************************************)
(* cleanup_worktree, called for itself or by create_worktree               *)
(***************************************************************************)

CleanupWorktree(t, b) == Begin(t, b, "remove", "nothing")

\* git worktree remove -f knows only what git lists.
Remove(t) ==
    /\ task[t].pc = "remove"
    /\ disk' = IF listed[Here(t)] # Nobody THEN [disk EXCEPT ![Here(t)] = Nobody] ELSE disk
    /\ listed' = [listed EXCEPT ![Here(t)] = Nobody]
    /\ Goto(t, "prune")
    /\ UNCHANGED <<worktrees, refs, ops, mixed, logVars>>

\* git worktree prune drops every listed directory that is gone.
Prune(t) ==
    /\ task[t].pc \in {"prune", "prune again"}
    /\ listed' = [d \in Directory |-> IF disk[d] = Nobody THEN Nobody ELSE listed[d]]
    /\ Goto(t, IF task[t].pc = "prune" THEN "delete" ELSE "retry")
    /\ UNCHANGED <<worktrees, disk, refs, ops, mixed, logVars>>

\* rmtree may fail; the record goes all the same.
Kept(b) == worktrees
Popped(b) == worktrees \ {b}

Delete(t, deleted) ==
    /\ task[t].pc = "delete"
    /\ disk' = IF deleted THEN [disk EXCEPT ![Here(t)] = Nobody] ELSE disk
    /\ worktrees' = Popped(task[t].branch)
    /\ task' = [task EXCEPT ![t] = IF @.then = "create" THEN [@ EXCEPT !.pc = "check"]
                                                        ELSE Idle]
    /\ UNCHANGED <<listed, refs, ops, mixed, logVars>>

-----------------------------------------------------------------------------
(***************************************************************************)
(* create_worktree                                                         *)
(***************************************************************************)

CreateWorktree(t, b) ==
    Begin(t, b, IF disk[Dir[b]] # Nobody THEN "remove" ELSE "check", "create")

CheckRef(t) ==
    /\ task[t].pc = "check"
    /\ task' = [task EXCEPT ![t].pc = "add", ![t].fresh = task[t].branch \notin refs]
    /\ UNCHANGED <<gitVars, ops, mixed, logVars>>

\* git worktree add: the directory must be free on disk and in git's list, and the
\* branch must still be as the check found it.
CanAdd(t) ==
    /\ disk[Here(t)] = Nobody /\ listed[Here(t)] = Nobody
    /\ task[t].fresh = (task[t].branch \notin refs)

Added(t) ==
    /\ task[t].pc \in {"add", "retry"}
    /\ CanAdd(t)
    /\ disk' = [disk EXCEPT ![Here(t)] = task[t].branch]
    /\ listed' = [listed EXCEPT ![Here(t)] = task[t].branch]
    /\ refs' = refs \cup {task[t].branch}
    /\ Goto(t, "added")
    /\ UNCHANGED <<worktrees, ops, mixed, logVars>>

\* The task resumes after git has exited, and only then records the worktree.
Record(t) ==
    /\ task[t].pc = "added"
    /\ worktrees' = worktrees \cup {task[t].branch}
    /\ task' = [task EXCEPT ![t] = Idle]
    /\ UNCHANGED <<disk, listed, refs, ops, mixed, logVars>>

\* "already exists" and "already registered" are retried once after a prune; git may
\* have made the branch before it found the directory taken.
AddRefused(t) ==
    /\ task[t].pc \in {"add", "retry"}
    /\ ~CanAdd(t)
    /\ refs' \in {refs, refs \cup {task[t].branch}}
    /\ task' = [task EXCEPT ![t] = IF @.pc = "add" THEN [@ EXCEPT !.pc = "prune again"]
                                                   ELSE Idle]
    /\ UNCHANGED <<worktrees, disk, listed, ops, mixed, logVars>>

\* Any other failure of git is raised at once.
AddFails(t) ==
    /\ task[t].pc \in {"add", "retry"}
    /\ task' = [task EXCEPT ![t] = Idle]
    /\ UNCHANGED <<gitVars, ops, mixed, logVars>>

-----------------------------------------------------------------------------
(***************************************************************************)
(* execute_in_sandbox and the log                                          *)
(***************************************************************************)

ExecuteInSandbox(t, b) == b \in worktrees /\ Begin(t, b, "running", "nothing")

LastOf(s, n) == SubSeq(s, IF Len(s) > n THEN Len(s) - n + 1 ELSE 1, Len(s))

\* add_log gives an entry to the ring and to every subscribed queue, also while the
\* stream still replays.
QueuedWhenLive(entry) ==
    IF viewer.open /\ viewer.replay = <<>> THEN Append(viewer.queue, entry) ELSE viewer.queue
Queued(entry) == IF viewer.open THEN Append(viewer.queue, entry) ELSE viewer.queue

AddLog ==
    /\ lines' = lines + 1
    /\ buffer' = LastOf(Append(buffer, lines + 1), LogCapacity)
    /\ viewer' = [viewer EXCEPT !.queue = Queued(lines + 1)]

\* The command ended or was killed after 60 s; what it printed is logged either way.
ExecutionEnds(t, printed) ==
    /\ task[t].pc = "running"
    /\ task' = [task EXCEPT ![t] = Idle]
    /\ IF printed THEN AddLog ELSE UNCHANGED logVars
    /\ UNCHANGED <<gitVars, ops, mixed>>

\* log_generator subscribes and takes the end of the ring before it first suspends.
OpenStream ==
    /\ ~viewer.open
    /\ viewer' = [open |-> TRUE, replay |-> LastOf(buffer, LogLimit), queue |-> <<>>,
                  got |-> <<>>]
    /\ UNCHANGED <<task, gitVars, ops, mixed, lines, buffer>>

\* It yields what it replays, then what is queued.
Yield ==
    /\ viewer.open
    /\ \/ /\ viewer.replay # <<>>
          /\ viewer' = [viewer EXCEPT !.replay = Tail(@),
                                      !.got = Append(@, Head(viewer.replay))]
       \/ /\ viewer.replay = <<>> /\ viewer.queue # <<>>
          /\ viewer' = [viewer EXCEPT !.queue = Tail(@),
                                      !.got = Append(@, Head(viewer.queue))]
    /\ UNCHANGED <<task, gitVars, ops, mixed, lines, buffer>>

\* max_events, a disconnect or an abandoned response: unsubscribe
CloseStream ==
    /\ viewer.open
    /\ viewer' = [open |-> FALSE, replay |-> <<>>, queue |-> <<>>, got |-> <<>>]
    /\ UNCHANGED <<task, gitVars, ops, mixed, lines, buffer>>

-----------------------------------------------------------------------------
Init ==
    /\ task = [t \in Task |-> Idle]
    /\ worktrees = {}
    /\ disk = [d \in Directory |-> Nobody]
    /\ listed = [d \in Directory |-> Nobody]
    /\ refs = {}
    /\ ops = 0 /\ mixed = {}
    /\ lines = 0 /\ buffer = <<>>
    /\ viewer = [open |-> FALSE, replay |-> <<>>, queue |-> <<>>, got |-> <<>>]

Next ==
    \/ \E t \in Task, b \in Branch :
          CreateWorktree(t, b) \/ CleanupWorktree(t, b) \/ ExecuteInSandbox(t, b)
    \/ \E t \in Task :
          \/ Remove(t) \/ Prune(t) \/ CheckRef(t) \/ Added(t) \/ Record(t) \/ AddRefused(t)
          \/ AddFails(t)
          \/ \E deleted \in BOOLEAN : Delete(t, deleted)
          \/ \E printed \in BOOLEAN : ExecutionEnds(t, printed)
    \/ OpenStream \/ Yield \/ CloseStream

-----------------------------------------------------------------------------
Shared == {d \in Directory : \E a, b \in Branch : a # b /\ Dir[a] = d /\ Dir[b] = d}
Busy == {Here(t) : t \in {u \in Task : Changes(u)}}

\* Between operations a recorded branch has its own files in its directory, whatever
\* git refused, pruned or left behind, unless its name is cut down to another's or
\* two creations or cleanups were once in the directory together.
WorktreeIsOwn ==
    \A b \in worktrees : disk[Dir[b]] = b \/ Dir[b] \in Shared \cup mixed \cup Busy

\* What a stream has shown, replays and has queued is one run of lines, none missing
\* and none twice, up to the last line written.
StreamIsContiguous ==
    LET shown == viewer.got \o viewer.replay \o viewer.queue
    IN  \A i \in DOMAIN shown : shown[i] = lines - Len(shown) + i
=============================================================================
