--------------------------------- MODULE Fs ---------------------------------
(***************************************************************************)
(* The fs module of scripts (src/zjs_fs.c): descriptors, open files with a *)
(* position of the file system and a read position of their own, and what  *)
(* each call does to the files.  The file system below is external: files  *)
(* are sequences of bytes that every open file sees, a seek past the end   *)
(* is refused, a full disk writes less than asked, and a file is removed   *)
(* only while nobody has it open.                                          *)
(*                                                                         *)
(* A byte is the number of the call that wrote it.  Reading a whole file   *)
(* or a directory, "stat" and the queued answers of the asynchronous       *)
(* variants, which are not built by default, change none of this.          *)
(***************************************************************************)
EXTENDS Integers, Sequences, FiniteSets, SequencesExt, FiniteSetsExt

CONSTANTS
  FsNames,   \* paths
  FsFds,     \* descriptors there are; the code has 32
  FsCalls,   \* model bound: calls
  FsLengths  \* model bound: lengths and positions

ASSUME FsAssumption == FsFds \in Nat \ {0} /\ FsCalls \in Nat /\ FsLengths \subseteq Nat

VARIABLES
  disk,      \* what each path names
  opened,    \* opened_handles, newest first
  fdUsed,    \* fd_used, as a set
  fsLeft,    \* model bound: calls left
  lostFds,   \* history: descriptors of opens that failed
  appended,  \* history: what appending calls wrote to each file since it was empty
  rewritten, \* history: files that changed in another way since
  fsFault    \* the undefined behaviour that ended this behaviour, or "none"

fsVars == <<disk, opened, fdUsed, fsLeft, lostFds, appended, rewritten, fsFault>>

Absent    == [kind |-> "none", data |-> <<>>]
Appending == {"a", "a+"}
FsModes   == {"r", "r+", "w", "w+"} \union Appending
Data(h)   == disk[opened[h].name].data
FdsOpen   == {opened[h].fd : h \in DOMAIN opened}
FsCall ==
  /\ fsFault = "none" /\ fsLeft > 0
  /\ fsLeft' = fsLeft - 1
  /\ UNCHANGED fsFault

\* The bytes of a file after "bytes" were written at position "at".
Put(data, at, bytes) ==
  [i \in 1..Max({at + Len(bytes), Len(data)}) |->
     IF i \in (at + 1)..(at + Len(bytes)) THEN bytes[i - at] ELSE data[i]]

\* A file changed other than by appending: what its readers got is no part of it any more.
Disturbed(name) ==
  [h \in DOMAIN opened |-> IF opened[h].name = name THEN [opened[h] EXCEPT !.steady = FALSE] ELSE opened[h]]
Emptied(name) ==
  /\ appended' = [appended EXCEPT ![name] = <<>>]
  /\ rewritten' = rewritten \ {name}
Rewritten(name) ==
  /\ appended' = [appended EXCEPT ![name] = <<>>]
  /\ rewritten' = rewritten \union {name}

-----------------------------------------------------------------------------
(***************************************************************************)
(* Opening and closing.                                                    *)
(***************************************************************************)

\* new_file: the lowest descriptor that is free.
FreeFd == Min((0..FsFds) \ fdUsed)

MayOpen(name, mode) ==
  /\ mode \in {"r", "r+"} => disk[name].kind # "none"
  /\ FreeFd < FsFds

\* zjs_fs_open.  The modes w and w+ go on when the file cannot be cut.
Open(name, mode, cut) ==
  /\ FsCall
  /\ MayOpen(name, mode) /\ disk[name].kind # "dir"
  /\ fdUsed' = fdUsed \union {FreeFd}
  /\ LET empty == disk[name].kind = "none" \/ (mode \in {"w", "w+"} /\ cut)
         new   == [fd |-> FreeFd, name |-> name, mode |-> mode, pos |-> 0, rpos |-> 0,
                   start |-> 0, got |-> <<>>, steady |-> TRUE]
     IN /\ cut \/ mode \in {"w", "w+"}
        /\ disk' = [disk EXCEPT ![name] = [kind |-> "file", data |-> IF empty THEN <<>> ELSE @.data]]
        /\ opened' = <<new>> \o (IF empty THEN Disturbed(name) ELSE opened)
        /\ IF empty THEN Emptied(name) ELSE UNCHANGED <<appended, rewritten>>
  /\ UNCHANGED lostFds

\* The file system refuses: the handle is freed, the descriptor stays taken.
OpenFails(name, mode) ==
  /\ FsCall
  /\ MayOpen(name, mode)
  /\ fdUsed' = fdUsed \union {FreeFd} /\ lostFds' = lostFds \union {FreeFd}
  /\ UNCHANGED <<disk, opened, appended, rewritten>>

\* zjs_fs_close and free_file.
Close(h) ==
  /\ FsCall
  /\ opened' = RemoveAt(opened, h)
  /\ fdUsed' = fdUsed \ {opened[h].fd}
  /\ UNCHANGED <<disk, lostFds, appended, rewritten>>

\* zjs_fs_cleanup: every open file is freed.
FsCleanup ==
  /\ FsCall
  /\ opened # <<>>
  /\ opened' = <<>> /\ fdUsed' = fdUsed \ FdsOpen
  /\ UNCHANGED <<disk, lostFds, appended, rewritten>>

-----------------------------------------------------------------------------
(***************************************************************************)
(* Reading and writing.                                                    *)
(***************************************************************************)
Null == -1  \* no position was given

\* Where zjs_fs_read reads: an a+ file goes on at its read position, the others where the
\* file system stands.
ReadFrom(h, position) ==
  IF position # Null THEN position
  ELSE IF opened[h].mode = "a+" THEN opened[h].rpos ELSE opened[h].pos

\* zjs_fs_read.
FsRead(h, length, position) ==
  /\ FsCall
  /\ opened[h].mode \notin {"w", "a"}
  /\ opened[h].mode = "a+" => opened[h].rpos <= Len(Data(h))
  /\ position <= Len(Data(h))
  /\ LET from == ReadFrom(h, position)
         data == SubSeq(Data(h), from + 1, Min({from + length, Len(Data(h))}))
         base == IF position # Null THEN position ELSE opened[h].rpos
     IN opened' = [opened EXCEPT
          ![h].pos = from + Len(data), ![h].rpos = base + Len(data),
          ![h].start = IF position # Null THEN position ELSE @,
          ![h].got = (IF position # Null THEN <<>> ELSE @) \o data]
  /\ UNCHANGED <<disk, fdUsed, lostFds, appended, rewritten>>

\* The position is past the end: it is kept as the read position all the same, and an a+
\* file already stands at the one before.
FsReadSeekFails(h, position) ==
  /\ FsCall
  /\ opened[h].mode \notin {"w", "a"}
  /\ opened[h].mode = "a+" => opened[h].rpos <= Len(Data(h))
  /\ position > Len(Data(h))
  /\ opened' = [opened EXCEPT ![h].rpos = position, ![h].start = position, ![h].got = <<>>,
                              ![h].pos = IF opened[h].mode = "a+" THEN opened[h].rpos ELSE @]
  /\ UNCHANGED <<disk, fdUsed, lostFds, appended, rewritten>>

\* A plausible mistake: only mode "a" seeks to the end.
WriteAtPlus(h, position) == IF opened[h].mode = "a" THEN Len(Data(h)) ELSE position

\* Where zjs_fs_write writes: at the end, or at the position, which is 0 unless given.
WriteAt(h, position) == IF opened[h].mode \in Appending THEN Len(Data(h)) ELSE position

\* zjs_fs_write of so many bytes, with room for them on the disk.
FsWrite(h, length, position) ==
  /\ FsCall
  /\ opened[h].mode # "r" /\ length > 0
  /\ WriteAt(h, position) <= Len(Data(h))
  /\ LET name  == opened[h].name
         bytes == [i \in 1..length |-> FsCalls - fsLeft + 1]
         at    == WriteAt(h, position)
     IN /\ disk' = [disk EXCEPT ![name].data = Put(@, at, bytes)]
        /\ IF opened[h].mode \in Appending
           THEN /\ opened' = [opened EXCEPT ![h].pos = at + length]
                /\ appended' = [appended EXCEPT ![name] = IF name \in rewritten THEN @ ELSE @ \o bytes]
                /\ UNCHANGED rewritten
           ELSE /\ opened' = [Disturbed(name) EXCEPT ![h].pos = at + length]
                /\ Rewritten(name)
  /\ UNCHANGED <<fdUsed, lostFds>>

-----------------------------------------------------------------------------
(***************************************************************************)
(* Calls that name a path.                                                 *)
(***************************************************************************)
\* zjs_fs_truncate of a path: the result of the open is taken the wrong way around, so a
\* file that opens, and was made if it was not there, is refused as one that does not.
TruncateRefused(name) ==
  /\ FsCall
  /\ disk[name].kind # "dir"
  /\ disk' = [disk EXCEPT ![name].kind = "file"]
  /\ UNCHANGED <<opened, fdUsed, lostFds, appended, rewritten>>

\* And one that does not open is cut.
TruncateUnopened(name) ==
  /\ fsFault = "none" /\ fsLeft > 0
  /\ disk[name].kind = "dir"
  /\ fsFault' = "truncates a file that is not open"
  /\ disk' = [n \in FsNames |-> Absent] /\ opened' = <<>> /\ fdUsed' = {} /\ lostFds' = {}
  /\ appended' = [n \in FsNames |-> <<>>] /\ rewritten' = {} /\ fsLeft' = 0

\* zjs_fs_mkdir: the directory is made; the result is taken the wrong way around here too.
Mkdir(name) ==
  /\ FsCall
  /\ disk[name].kind = "none"
  /\ disk' = [disk EXCEPT ![name].kind = "dir"]
  /\ UNCHANGED <<opened, fdUsed, lostFds, appended, rewritten>>

\* zjs_fs_unlink, of a file or of an empty directory.
Unlink(name) ==
  /\ FsCall
  /\ disk[name].kind # "none" /\ \A h \in DOMAIN opened : opened[h].name # name
  /\ disk' = [disk EXCEPT ![name] = Absent]
  /\ Emptied(name)
  /\ UNCHANGED <<opened, fdUsed, lostFds>>

\* zjs_fs_write_file: the file is cut, which leaves it open if it fails, and as much written
\* as fits; a short write is reported as the result of the close, that is as a success.
WriteFile(name, length, cut) ==
  /\ FsCall
  /\ disk[name].kind # "dir"
  /\ disk' = [disk EXCEPT ![name] = [kind |-> "file", data |->
                IF cut THEN [i \in 1..length |-> FsCalls - fsLeft + 1] ELSE @.data]]
  /\ cut \/ length = 0
  /\ IF cut THEN opened' = Disturbed(name) /\ Rewritten(name) ELSE UNCHANGED <<opened, appended, rewritten>>
  /\ UNCHANGED <<fdUsed, lostFds>>

-----------------------------------------------------------------------------
FsInit ==
  /\ disk = [n \in FsNames |-> Absent] /\ opened = <<>> /\ fdUsed = {} /\ fsLeft = FsCalls
  /\ lostFds = {} /\ appended = [n \in FsNames |-> <<>>] /\ rewritten = {} /\ fsFault = "none"

FsNext ==
  \/ \E n \in FsNames, m \in FsModes : OpenFails(n, m) \/ \E cut \in BOOLEAN : Open(n, m, cut)
  \/ \E h \in DOMAIN opened :
       \/ Close(h)
       \/ \E l \in FsLengths, p \in FsLengths : FsWrite(h, l, p)
       \/ \E l \in FsLengths, p \in FsLengths \union {Null} : FsRead(h, l, p)
       \/ \E p \in FsLengths : FsReadSeekFails(h, p)
  \/ FsCleanup
  \/ \E n \in FsNames :
       \/ TruncateRefused(n) \/ TruncateUnopened(n) \/ Mkdir(n) \/ Unlink(n)
       \/ \E l \in FsLengths, cut \in BOOLEAN : WriteFile(n, l, cut)
  \/ (fsLeft = 0 \/ fsFault # "none") /\ UNCHANGED fsVars

FsSpec == FsInit /\ [][FsNext]_fsVars

-----------------------------------------------------------------------------
(***************************************************************************)
(* Properties.                                                             *)
(***************************************************************************)

\* A descriptor names one open file, however files are opened, closed and refused in between,
\* and the descriptors that are taken are those of open files and those refused opens lost.
FdNamesOneFile ==
  /\ \A g, h \in DOMAIN opened : opened[g].fd = opened[h].fd => g = h
  /\ fdUsed = FdsOpen \union lostFds /\ FdsOpen \intersect lostFds = {}

\* "The write pointer will always seek to the end of the file during a write" (docs/fs.md):
\* while a file is only appended to, through whichever of the files opened on it and with
\* reads at any position in between, it holds everything that was appended, in order.
AppendsAreKept ==
  \A n \in FsNames : n \notin rewritten => disk[n].data = appended[n]

\* "The read pointer is saved across different read calls": what successive reads of an a+
\* file bring are the bytes of the file in order, whoever appends to it meanwhile, itself
\* included.
ReadsGoOn ==
  \A h \in DOMAIN opened :
    opened[h].mode = "a+" /\ opened[h].steady /\ opened[h].got # <<>> =>
      /\ opened[h].start + Len(opened[h].got) <= Len(Data(h))
      /\ opened[h].got = SubSeq(Data(h), opened[h].start + 1, opened[h].start + Len(opened[h].got))

\* Files hold what was written to them and are read from where reading stopped.
FilesHold == FdNamesOneFile /\ AppendsAreKept /\ ReadsGoOn
=============================================================================
