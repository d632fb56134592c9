---------------------------- MODULE ConfigSnapshot ----------------------------
(***************************************************************************)
(* uni_api/rust_responses_snapshot.py and NativeConfigStore::refresh: how  *)
(* a configuration reaches the Rust front.  Python writes a temporary file *)
(* and renames it over the snapshot; the watcher of the front stats the    *)
(* file, reads it if its stamp is new and publishes what it has read.  The *)
(* file may be replaced between any two of the watcher's steps.            *)
(***************************************************************************)
EXTENDS Integers

CONSTANTS Revisions,   \* configurations
          Invalid,     \* the ones that the front cannot decode
          MaxPublished \* renames

ASSUME SnapshotAssumption == Invalid \subseteq Revisions /\ MaxPublished \in Nat

VARIABLES disk,     \* the temporary file, and the snapshot with its stamp: mtime and length
          watcher   \* its step, what it has seen of the file, its stamp and its configuration

snapshotVars == <<disk, watcher>>

Absent == "absent"

\* A stamp is new with every rename; two files of one length within one tick of the file
\* system's clock would have the same one.
SnapshotInit ==
    /\ disk = [temporary |-> Absent, content |-> Absent, stamp |-> 0]
    /\ watcher = [pc |-> "stat", seen |-> 0, bytes |-> Absent, stamp |-> 0, current |-> Absent]

WriteTemporary ==
    /\ disk.temporary = Absent /\ disk.stamp < MaxPublished
    /\ \E c \in Revisions : disk' = [disk EXCEPT !.temporary = c]
    /\ UNCHANGED watcher

\* os.replace, or a failure that removes the temporary file.
Replace ==
    /\ disk.temporary # Absent
    /\ \/ disk' = [disk EXCEPT !.temporary = Absent, !.content = disk.temporary, !.stamp = @ + 1]
       \/ disk' = [disk EXCEPT !.temporary = Absent]
    /\ UNCHANGED watcher

\* The stamp is compared with that of the file read last.
StatFile ==
    /\ watcher.pc = "stat" /\ disk.content # Absent /\ disk.stamp # watcher.stamp
    /\ watcher' = [watcher EXCEPT !.pc = "read", !.seen = disk.stamp]
    /\ UNCHANGED disk

ReadFile ==
    /\ watcher.pc = "read"
    /\ watcher' = [watcher EXCEPT !.pc = "apply", !.bytes = disk.content]
    /\ UNCHANGED disk

\* Mutant: the stamp is taken when the file has been read.
StampOf_Late(w) == disk.stamp

\* The stamp kept is the one from before the read.
StampOf(w) == w.seen

\* Bytes that cannot be decoded change nothing, and are read again a second later.
ApplyBytes ==
    /\ watcher.pc = "apply"
    /\ watcher' = [watcher EXCEPT !.pc = "stat", !.seen = 0, !.bytes = Absent,
                     !.stamp = IF watcher.bytes \in Invalid THEN @ ELSE StampOf(watcher),
                     !.current = IF watcher.bytes \in Invalid THEN @ ELSE watcher.bytes]
    /\ UNCHANGED disk

SnapshotNext == WriteTemporary \/ Replace \/ StatFile \/ ReadFile \/ ApplyBytes

SnapshotSpec == SnapshotInit /\ [][SnapshotNext]_snapshotVars
-----------------------------------------------------------------------------
\* The front never takes a configuration for current that the file no longer holds
\* (responses_native.rs, refresh): if its stamp is the file's, so is its configuration, even
\* if the file was replaced while it was read; otherwise the next round reads it again.
SnapshotTrue == watcher.stamp = disk.stamp => watcher.current = disk.content
=============================================================================
