------------------------------ MODULE AtomicFile ------------------------------
(***************************************************************************)
(* write_json_private, one system call at a time: the temporary file is    *)
(* opened, written, given mode 0600 and renamed onto the path.  Files are  *)
(* inodes behind two names, so that what a writer holds open may have been *)
(* renamed by another.  Every call can raise, and the process can die      *)
(* between any two; a temporary file that stays behind is used again.      *)
(***************************************************************************)
CONSTANTS
    Value,      \* what is saved
    Writer,     \* processes that save to this path
    Inode,
    Torn,       \* no JSON: empty, cut short, or mixed from two writes
    Nothing

ASSUME FileAssumption ==
    /\ Nothing \notin Inode \cup Value
    /\ Torn \notin Value \cup {Nothing}

VARIABLES
    names,      \* "tmp" and "path": the inode behind the name
    data,       \* per inode: what it contains
    private,    \* per inode: whether its mode is 0600
    at,         \* per writer: the next system call of write_json_private
    val,        \* per writer: what it writes
    fd          \* per writer: the inode it has open

fileVars == <<names, data, private, at, val, fd>>

FileInit ==
    /\ names = [n \in {"tmp", "path"} |-> Nothing]
    /\ data = [i \in Inode |-> Torn]
    /\ private = [i \in Inode |-> FALSE]
    /\ at = [w \in Writer |-> "idle"]
    /\ val = [w \in Writer |-> Nothing]
    /\ fd = [w \in Writer |-> Nothing]

Unused == {i \in Inode : i # names["tmp"] /\ i # names["path"] /\ \A w \in Writer : i # fd[w]}

--------------------------------------------------------------------------------
\* The directory exists, the data was serialized.
BeginWrite(w, v) ==
    /\ at[w] = "idle"
    /\ at' = [at EXCEPT ![w] = "open"]
    /\ val' = [val EXCEPT ![w] = v]
    /\ UNCHANGED <<names, data, private, fd>>

\* The inode that opening a name for writing leads to.
Opened(name) == IF names[name] # Nothing THEN {names[name]} ELSE Unused

\* Mutant: the path itself is opened, there is no temporary file.
OpenInPlace(w) ==
    /\ at[w] = "open"
    /\ \E i \in Opened("path") :
          /\ names' = [names EXCEPT !["path"] = i, !["tmp"] = i]
          /\ data' = [data EXCEPT ![i] = Torn]
          /\ fd' = [fd EXCEPT ![w] = i]
    /\ at' = [at EXCEPT ![w] = "write"]
    /\ UNCHANGED <<private, val>>

\* tmp.write_text opens the file: one that exists is cut to nothing and keeps
\* its mode, a new one gets what the umask leaves.
OpenTmp(w) ==
    /\ at[w] = "open"
    /\ \E i \in Opened("tmp") :
          /\ names' = [names EXCEPT !["tmp"] = i]
          /\ data' = [data EXCEPT ![i] = Torn]
          /\ private' = [private EXCEPT ![i] = IF names["tmp"] = Nothing THEN FALSE ELSE @]
          /\ fd' = [fd EXCEPT ![w] = i]
    /\ at' = [at EXCEPT ![w] = "write"]
    /\ UNCHANGED val

\* ... writes and closes it.  Data of another writer in the same file may have
\* been the longer.
WriteTmp(w) ==
    /\ at[w] = "write"
    /\ \E d \in {val[w]} \cup (IF data[fd[w]] \in Value THEN {Torn} ELSE {}) :
          data' = [data EXCEPT ![fd[w]] = d]
    /\ fd' = [fd EXCEPT ![w] = Nothing]
    /\ at' = [at EXCEPT ![w] = "chmod"]
    /\ UNCHANGED <<names, private, val>>

\* Mutant: the mode is left to the umask.
SkipChmod(w) ==
    /\ at[w] = "chmod"
    /\ at' = [at EXCEPT ![w] = "replace"]
    /\ UNCHANGED <<names, data, private, val, fd>>

\* tmp.chmod(0o600) and tmp.replace(path) look the temporary file up by name.
ChmodTmp(w) ==
    /\ at[w] = "chmod" /\ names["tmp"] # Nothing
    /\ private' = [private EXCEPT ![names["tmp"]] = TRUE]
    /\ at' = [at EXCEPT ![w] = "replace"]
    /\ UNCHANGED <<names, data, val, fd>>

Replace(w) ==
    /\ at[w] = "replace" /\ names["tmp"] # Nothing
    /\ names' = [tmp |-> Nothing, path |-> names["tmp"]]
    /\ at' = [at EXCEPT ![w] = "return"]
    /\ UNCHANGED <<data, private, val, fd>>

WriteStep(w) == OpenTmp(w) \/ WriteTmp(w) \/ ChmodTmp(w) \/ Replace(w)

\* The call is over: it returned, or ...
Leave(w) ==
    /\ at' = [at EXCEPT ![w] = "idle"]
    /\ val' = [val EXCEPT ![w] = Nothing]
    /\ fd' = [fd EXCEPT ![w] = Nothing]
    /\ UNCHANGED <<names, data, private>>

ReturnOk(w) == at[w] = "return" /\ Leave(w)

\* ... a system call raised, whatever it was, or the process died.
Raise(w) == at[w] \in {"open", "write", "chmod", "replace"} /\ Leave(w)

Die(w) == at[w] # "idle" /\ Leave(w)

--------------------------------------------------------------------------------
\* What a reader of the path finds.
Visible == IF names["path"] = Nothing THEN Nothing ELSE data[names["path"]]

\* With one writer, the file is a cell that is written in one step: a
\* reader finds the old value or the new one, and a call that raises has changed
\* nothing that can be read, also when it died over a temporary file earlier.
Cell == INSTANCE AtomicCell WITH
            cell <- Visible,
            pending <- [w \in Writer |-> IF at[w] = "return" THEN Nothing ELSE val[w]]

ImplementsAtomicCell == Cell!Spec

\* "Atomically write JSON to *path*" (the docstring of write_json_private):
\* what is at the path is one value, whole.
FileIsWhole == Visible \in Value \cup {Nothing}

\* Whatever was saved has mode 0600, also when the temporary file it came from
\* was left behind by a process that died before it set the mode.
SavedIsPrivate == names["path"] # Nothing => private[names["path"]]
================================================================================
