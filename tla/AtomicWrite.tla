---------------------------- MODULE AtomicWrite ----------------------------
(***************************************************************************)
(* state.rs's atomic_write on one path, by one or several processes, down  *)
(* to the system calls: the `.tmp` sibling has one fixed name, so writers  *)
(* of the same path share it. Readers (read_to_string) hold the inode they *)
(* opened. A version is written in two halves, which is enough to tell a   *)
(* whole file from a torn one.                                             *)
(*                                                                         *)
(* With one writer this implements AtomicFile. Several processes write     *)
(* quota.json (every session's loop and `quota check`), a job's metrics    *)
(* file (two sessions that both take it for theirs) and permissions.kdl.   *)
(***************************************************************************)
EXTENDS Naturals, FiniteSets

CONSTANTS Writers, Readers, Versions, None,
          Inodes   \* model bound: inodes in use at once

ASSUME InodesAssumption ==
  IsFiniteSet(Inodes) /\ Cardinality(Inodes) >= Cardinality(Writers \cup Readers) + 2

VARIABLES
  tmp, path,   \* the directory: the inode behind each name, or None
  data,        \* inode -> the version each half holds
  writer,      \* writer -> where it is in atomic_write
  reader       \* reader -> where it is in read_to_string, and what it has read

vars == <<tmp, path, data, writer, reader>>

Empty == <<None, None>>
Whole(d) == d[1] = d[2] /\ d[1] # None

Idle == [at |-> "idle", fd |-> None, version |-> None]
Quiet == [at |-> "idle", fd |-> None, got |-> Empty]

Used == {tmp, path} \cup {writer[w].fd : w \in Writers} \cup {reader[r].fd : r \in Readers}

TypeOK ==
  /\ tmp \in Inodes \cup {None} /\ path \in Inodes \cup {None}
  /\ tmp # None => tmp # path
  /\ data \in [Inodes -> (Versions \cup {None}) \X (Versions \cup {None})]
  /\ \A w \in Writers :
       /\ writer[w].at \in {"idle", "first", "second", "rename", "failed"}
       /\ writer[w].fd # None <=> writer[w].at \in {"first", "second"}
       /\ writer[w].fd \in Inodes \cup {None} /\ writer[w].version \in Versions \cup {None}
  /\ \A r \in Readers :
       /\ reader[r].at \in {"idle", "first", "second"}
       /\ reader[r].fd # None <=> reader[r].at \in {"first", "second"}
       /\ reader[r].fd \in Inodes \cup {None}

Init ==
  /\ tmp = None /\ path = None
  /\ data = [i \in Inodes |-> Empty]
  /\ writer = [w \in Writers |-> Idle]
  /\ reader = [r \in Readers |-> Quiet]

----------------------------------------------------------------------------
(* The writer.                                                             *)

\* (mutant) File::create returns before the descriptor is kept.
OpenTmpWithoutFd(w) ==
  /\ writer[w].at = "idle" /\ tmp = None
  /\ \E i \in Inodes \ Used, v \in Versions :
       /\ tmp' = i /\ data' = [data EXCEPT ![i] = Empty]
       /\ writer' = [writer EXCEPT ![w] = [at |-> "first", fd |-> None, version |-> v]]
  /\ UNCHANGED <<path, reader>>

\* fs::write opens the sibling with O_CREAT and O_TRUNC: a file of that name,
\* left by a crash or held by another writer, is emptied and used.
OpenTmp(w) ==
  /\ writer[w].at = "idle"
  /\ \E i \in (IF tmp = None THEN Inodes \ Used ELSE {tmp}), v \in Versions :
       /\ tmp' = i
       /\ data' = [data EXCEPT ![i] = Empty]
       /\ writer' = [writer EXCEPT ![w] = [at |-> "first", fd |-> i, version |-> v]]
  /\ UNCHANGED <<path, reader>>

\* write_all, through the descriptor and whatever the inode is called by then.
WriteFirst(w) ==
  /\ writer[w].at = "first"
  /\ data' = [data EXCEPT ![writer[w].fd][1] = writer[w].version]
  /\ writer' = [writer EXCEPT ![w].at = "second"]
  /\ UNCHANGED <<tmp, path, reader>>

WriteSecond(w) ==
  /\ writer[w].at = "second"
  /\ data' = [data EXCEPT ![writer[w].fd][2] = writer[w].version]
  /\ writer' = [writer EXCEPT ![w].at = "rename", ![w].fd = None]
  /\ UNCHANGED <<tmp, path, reader>>

\* A full disk, or a quota.
WriteFails(w) ==
  /\ writer[w].at \in {"first", "second"}
  /\ writer' = [writer EXCEPT ![w].at = "failed", ![w].fd = None]
  /\ UNCHANGED <<tmp, path, data, reader>>

\* set_permissions and rename work on the name: what they publish is the file
\* called .tmp now, and an error when there is none.
Rename(w) ==
  /\ writer[w].at = "rename"
  /\ IF tmp = None
       THEN writer' = [writer EXCEPT ![w].at = "failed"] /\ UNCHANGED <<tmp, path>>
       ELSE /\ path' = tmp /\ tmp' = None
            /\ writer' = [writer EXCEPT ![w] = Idle]
  /\ UNCHANGED <<data, reader>>

\* (mutant) The error path publishes what there is.
DropTmpByRename(w) ==
  /\ writer[w].at = "failed"
  /\ path' = (IF tmp = None THEN path ELSE tmp) /\ tmp' = None
  /\ writer' = [writer EXCEPT ![w] = Idle]
  /\ UNCHANGED <<data, reader>>

\* On an error the sibling is removed, by name.
DropTmp(w) ==
  /\ writer[w].at = "failed"
  /\ tmp' = None
  /\ writer' = [writer EXCEPT ![w] = Idle]
  /\ UNCHANGED <<path, data, reader>>

\* The process is killed anywhere in between; a later process (a requeued job,
\* the next `quota check`) writes the path again.
Crash(w) ==
  /\ writer[w].at # "idle"
  /\ writer' = [writer EXCEPT ![w] = Idle]
  /\ UNCHANGED <<tmp, path, data, reader>>

\* StateDir::cleanup of this path, by a process that is not writing it.
Cleanup(w) ==
  /\ writer[w].at = "idle"
  /\ path' = None /\ tmp' = None
  /\ UNCHANGED <<data, writer, reader>>

----------------------------------------------------------------------------
(* The reader.                                                             *)

OpenPath(r) ==
  /\ reader[r].at = "idle" /\ path # None
  /\ reader' = [reader EXCEPT ![r] = [at |-> "first", fd |-> path, got |-> Empty]]
  /\ UNCHANGED <<tmp, path, data, writer>>

ReadFirst(r) ==
  /\ reader[r].at = "first"
  /\ reader' = [reader EXCEPT ![r].at = "second", ![r].got[1] = data[reader[r].fd][1]]
  /\ UNCHANGED <<tmp, path, data, writer>>

\* (mutant) The second half is read from the file that has the name by then.
ReadSecondByName(r) ==
  /\ reader[r].at = "second" /\ path # None
  /\ reader' = [reader EXCEPT ![r].at = "idle", ![r].fd = None,
                              ![r].got[2] = data[path][2]]
  /\ UNCHANGED <<tmp, path, data, writer>>

\* The text is complete: what is parsed stays in `got`.
ReadSecond(r) ==
  /\ reader[r].at = "second"
  /\ reader' = [reader EXCEPT ![r].at = "idle", ![r].fd = None,
                              ![r].got[2] = data[reader[r].fd][2]]
  /\ UNCHANGED <<tmp, path, data, writer>>

Next ==
  \/ \E w \in Writers : \/ OpenTmp(w) \/ WriteFirst(w) \/ WriteSecond(w)
                        \/ WriteFails(w) \/ Rename(w) \/ DropTmp(w)
                        \/ Crash(w) \/ Cleanup(w)
  \/ \E r \in Readers : OpenPath(r) \/ ReadFirst(r) \/ ReadSecond(r)

Spec == Init /\ [][Next]_vars

----------------------------------------------------------------------------
\* state.rs:12, "reads are atomic": what a reader that has finished has read
\* is one whole version, however long it took and whatever was written,
\* removed or left behind by a crash meanwhile.
ReadsAreAtomic ==
  \A r \in Readers : reader[r].at = "idle" /\ reader[r].got # Empty => Whole(reader[r].got)

\* The file behind the name, as a reader that opened it now would find it.
Published == IF path = None THEN None
             ELSE IF Whole(data[path]) THEN data[path][1] ELSE "torn"

Register == INSTANCE AtomicFile WITH value <- Published

\* With one writer, the calls of atomic_write implement one atomic write: a
\* failed or a killed one changes nothing.
ImplementsAtomicFile == Register!Spec
=============================================================================
