----------------------------- MODULE ServicesProofs -----------------------------
(***************************************************************************)
(* The stores of a service relationship, for every set of requests,        *)
(* responses, grants, nonces and inodes: the file that one process writes  *)
(* is an atomic and private cell, the index answers as it was told, the    *)
(* user hears of each response once, and follow-ups keep their distance.   *)
(***************************************************************************)
EXTENDS GroupIndex, ServiceCalls, FollowupGrants, TLAPS

(***************************************************************************)
(* The index of groups and the file under it.                              *)
(***************************************************************************)

\* "Assumes a single-writer context" (the docstring of the class).
OneWriter == \E w : Writer = {w}

--------------------------------------------------------------------------------
InFlight == {"open", "write", "chmod", "replace"}

Types ==
    /\ names \in [{"tmp", "path"} -> Inode \cup {Nothing}]
    /\ data \in [Inode -> Value \cup {Torn}]
    /\ at \in [Writer -> {"idle", "return"} \cup InFlight]
    /\ val \in [Writer -> Value \cup {Nothing}]
    /\ fd \in [Writer -> Inode \cup {Nothing}]
    /\ call \in [Writer -> [nonce : Nonce \cup {Nothing},
                            says : Conversation \cup {Nothing}]]
    /\ said \in [Nonce -> Conversation \cup {Nothing, Unknown}]

\* The writer has the temporary file to itself, which is another inode than the
\* one behind the path, torn until it was written and then what is to be saved.
OwnTemp ==
    /\ names["path"] # Nothing =>
          names["tmp"] # names["path"] /\ data[names["path"]] \in Value
    /\ \A w \in Writer :
          /\ at[w] = "idle" <=> val[w] = Nothing
          /\ at[w] \in {"write", "chmod", "replace"} => names["tmp"] # Nothing
          /\ at[w] = "write" =>
                fd[w] = names["tmp"] /\ data[names["tmp"]] = Torn
          /\ at[w] \in {"chmod", "replace"} => data[names["tmp"]] = val[w]

FileInv == Types /\ OwnTemp

\* A call in flight will save what the file says now, but for its own nonce.
CallInv ==
    \A w \in Writer : at[w] # "idle" =>
        /\ call[w].nonce \in Nonce
        /\ said[call[w].nonce] = Unknown
        /\ at[w] \in InFlight => val[w] = [Loaded EXCEPT ![call[w].nonce] = call[w].says]
        /\ at[w] = "return" => Loaded[call[w].nonce] = call[w].says

IndexInv == FileInv /\ CallInv /\ IndexAsTold

--------------------------------------------------------------------------------
LEMMA LoadedIsIndex == Loaded \in Value
BY IndexAssumption DEF Loaded, EmptyIndex

LEMMA IndexInitHolds == IndexInit => IndexInv
BY IndexAssumption, FileAssumption
DEF IndexInit, FileInit, IndexInv, FileInv, Types, OwnTemp, InFlight, CallInv, IndexAsTold,
    EmptyIndex, NoCall, Loaded, Visible

\* What each system call does to the file, when there is one writer.
LEMMA ChangeFacts ==
    ASSUME OneWriter, FileInv, NEW w \in Writer, NEW n \in Nonce,
           NEW e \in Conversation \cup {Nothing}, Change(w, n, e)
    PROVE  FileInv' /\ Visible' = Visible
<1>1. [Loaded EXCEPT ![n] = e] \in Value
  BY LoadedIsIndex, IndexAssumption
<1>2. Types'
  BY <1>1 DEF FileInv, Types, InFlight, Change, BeginWrite
<1>3. OwnTemp'
  BY <1>1, FileAssumption DEF FileInv, Types, OwnTemp, Change, BeginWrite, OneWriter
<1> QED
  BY <1>2, <1>3 DEF FileInv, Visible, Change, BeginWrite

LEMMA OpenFacts ==
    ASSUME OneWriter, FileInv, NEW w \in Writer, OpenTmp(w), UNCHANGED <<call, said>>
    PROVE  FileInv' /\ Visible' = Visible
<1>1. PICK i \in Opened("tmp") :
        /\ names' = [names EXCEPT !["tmp"] = i]
        /\ data' = [data EXCEPT ![i] = Torn]
        /\ fd' = [fd EXCEPT ![w] = i]
  BY DEF OpenTmp
<1>2. i \in Inode /\ i # names["path"]
  BY <1>1, FileAssumption DEF Opened, Unused, FileInv, Types, OwnTemp
<1>3. Types'
  BY <1>1, <1>2 DEF FileInv, Types, InFlight, OpenTmp
<1>4. OwnTemp'
  BY <1>1, <1>2, FileAssumption DEF FileInv, Types, OwnTemp, OpenTmp, OneWriter
<1> QED
  BY <1>1, <1>2, <1>3, <1>4 DEF FileInv, Types, Visible

LEMMA WriteFacts ==
    ASSUME OneWriter, FileInv, NEW w \in Writer, WriteTmp(w), UNCHANGED <<call, said>>
    PROVE  FileInv' /\ Visible' = Visible
<1>1. /\ names["tmp"] \in Inode /\ names["tmp"] # names["path"]
      /\ val[w] \in Value
  BY FileAssumption DEF FileInv, Types, OwnTemp, WriteTmp
<1>2. data' = [data EXCEPT ![names["tmp"]] = val[w]]
  BY FileAssumption DEF FileInv, OwnTemp, WriteTmp
<1>3. Types'
  BY <1>1, <1>2 DEF FileInv, Types, InFlight, WriteTmp
<1>4. OwnTemp'
  BY <1>1, <1>2, FileAssumption DEF FileInv, Types, OwnTemp, WriteTmp, OneWriter
<1> QED
  BY <1>1, <1>2, <1>3, <1>4 DEF FileInv, Types, Visible, WriteTmp

LEMMA ChmodFacts ==
    ASSUME OneWriter, FileInv, NEW w \in Writer, ChmodTmp(w), UNCHANGED <<call, said>>
    PROVE  FileInv' /\ Visible' = Visible
<1>1. Types'
  BY DEF FileInv, Types, InFlight, ChmodTmp
<1>2. OwnTemp'
  BY FileAssumption DEF FileInv, Types, OwnTemp, ChmodTmp, OneWriter
<1> QED
  BY <1>1, <1>2 DEF FileInv, Visible, ChmodTmp

LEMMA ReplaceFacts ==
    ASSUME OneWriter, FileInv, NEW w \in Writer, Replace(w), UNCHANGED <<call, said>>
    PROVE  FileInv' /\ Visible' = val[w] /\ val[w] \in Value
<1>1. /\ names["tmp"] \in Inode
      /\ val[w] \in Value
      /\ data[names["tmp"]] = val[w]
  BY FileAssumption DEF FileInv, Types, OwnTemp, Replace
<1>2. Types'
  BY <1>1 DEF FileInv, Types, InFlight, Replace
<1>3. OwnTemp'
  BY <1>1, FileAssumption DEF FileInv, Types, OwnTemp, Replace, OneWriter
<1> QED
  BY <1>1, <1>2, <1>3, FileAssumption DEF FileInv, Visible, Replace

LEMMA LeaveFacts ==
    ASSUME OneWriter, FileInv, NEW w \in Writer, Leave(w),
           NEW o \in Conversation \cup {Nothing, Unknown}, Over(w, o)
    PROVE  FileInv' /\ Visible' = Visible
<1>1. Types'
  BY DEF FileInv, Types, InFlight, Leave, Over, NoCall
<1>2. OwnTemp'
  BY FileAssumption DEF FileInv, Types, OwnTemp, Leave, OneWriter
<1> QED
  BY <1>1, <1>2 DEF FileInv, Visible, Leave

--------------------------------------------------------------------------------
\* The steps of a process, with what each does to the file.
LEMMA IndexSteps ==
    ASSUME OneWriter, FileInv, CallInv, [IndexNext]_indexVars
    PROVE  \/ \E w \in Writer, n \in Nonce, e \in Conversation \cup {Nothing} : Change(w, n, e)
           \/ \E w \in Writer : WriteStep(w) /\ UNCHANGED <<call, said>>
           \/ \E w \in Writer : at[w] # "idle" /\ Leave(w) /\ Over(w, Unknown)
           \/ \E w \in Writer : ReturnOk(w) /\ Over(w, call[w].says)
           \/ UNCHANGED indexVars
BY DEF IndexNext, Pop, RecordGroup, Save, Saved, SaveFails, Crash, Raise, Die, InFlight

LEMMA FileStep ==
    ASSUME OneWriter, FileInv, CallInv, [IndexNext]_indexVars
    PROVE  FileInv'
<1>1. ASSUME NEW w \in Writer, WriteStep(w), UNCHANGED <<call, said>> PROVE FileInv'
  BY <1>1, OpenFacts, WriteFacts, ChmodFacts, ReplaceFacts DEF WriteStep
<1>2. ASSUME NEW w \in Writer, ReturnOk(w), Over(w, call[w].says) PROVE FileInv'
  <2>1. call[w].says \in Conversation \cup {Nothing}
    BY DEF FileInv, Types
  <2> QED
    BY <1>2, <2>1, LeaveFacts DEF ReturnOk
<1>3. CASE UNCHANGED indexVars
  BY <1>3 DEF indexVars, FileInv, Types, OwnTemp
<1> QED
  BY <1>1, <1>2, <1>3, IndexSteps, ChangeFacts, LeaveFacts

(***************************************************************************)
(* IndexAsTold is not inductive: a call in flight must be seen to save     *)
(* nothing but its own change (CallInv), and it does because the file did  *)
(* not change since it was loaded, which is where one writer is needed.    *)
(***************************************************************************)
LEMMA IndexStep ==
    ASSUME OneWriter, IndexInv, [IndexNext]_indexVars
    PROVE  IndexInv'
<1> USE DEF IndexInv
<1>1. ASSUME NEW w \in Writer, NEW n \in Nonce, NEW e \in Conversation \cup {Nothing},
             Change(w, n, e)
      PROVE  CallInv' /\ IndexAsTold'
  <2>1. Loaded' = Loaded
    BY <1>1, ChangeFacts DEF Loaded
  <2> QED
    BY <1>1, <2>1 DEF FileInv, Types, OneWriter, InFlight, CallInv, IndexAsTold, Change, BeginWrite
<1>2. ASSUME NEW w \in Writer, OpenTmp(w) \/ WriteTmp(w) \/ ChmodTmp(w), UNCHANGED <<call, said>>
      PROVE  CallInv' /\ IndexAsTold'
  <2>1. Loaded' = Loaded
    BY <1>2, OpenFacts, WriteFacts, ChmodFacts DEF Loaded
  <2>2. /\ at[w] \in InFlight /\ val'[w] = val[w]
        /\ at' = [at EXCEPT ![w] = at'[w]] /\ at'[w] \in InFlight
    BY <1>2 DEF FileInv, Types, InFlight, OpenTmp, WriteTmp, ChmodTmp
  <2> QED
    BY <1>2, <2>1, <2>2 DEF FileInv, Types, OneWriter, InFlight, CallInv, IndexAsTold
<1>3. ASSUME NEW w \in Writer, Replace(w), UNCHANGED <<call, said>>
      PROVE  CallInv' /\ IndexAsTold'
  <2>1. Loaded' = val[w]
    BY <1>3, ReplaceFacts DEF Loaded
  <2>2. /\ call[w].nonce \in Nonce /\ said[call[w].nonce] = Unknown
        /\ val[w] = [Loaded EXCEPT ![call[w].nonce] = call[w].says]
        /\ at' = [at EXCEPT ![w] = "return"]
    BY <1>3 DEF CallInv, Replace, InFlight
  <2>3. /\ Loaded'[call[w].nonce] = call[w].says
        /\ \A n \in Nonce \ {call[w].nonce} : Loaded'[n] = Loaded[n]
    BY <2>1, <2>2, LoadedIsIndex, IndexAssumption
  <2> QED
    BY <1>3, <2>2, <2>3 DEF FileInv, Types, OneWriter, InFlight, CallInv, IndexAsTold
<1>4. ASSUME NEW w \in Writer, at[w] # "idle", Leave(w), Over(w, Unknown)
      PROVE  CallInv' /\ IndexAsTold'
  <2>1. Loaded' = Loaded
    BY <1>4, LeaveFacts DEF Loaded
  <2> QED
    BY <1>4, <2>1 DEF FileInv, Types, OneWriter, InFlight, CallInv, IndexAsTold, Leave, Over
<1>5. ASSUME NEW w \in Writer, ReturnOk(w), Over(w, call[w].says)
      PROVE  CallInv' /\ IndexAsTold'
  <2>1. call[w].says \in Conversation \cup {Nothing}
    BY DEF FileInv, Types
  <2>2. Loaded' = Loaded
    BY <1>5, <2>1, LeaveFacts DEF Loaded, ReturnOk
  <2> QED
    BY <1>5, <2>2
    DEF FileInv, Types, OneWriter, InFlight, CallInv, IndexAsTold, ReturnOk, Leave, Over
<1>6. ASSUME UNCHANGED indexVars PROVE CallInv' /\ IndexAsTold'
  BY <1>6 DEF indexVars, CallInv, IndexAsTold, Loaded, Visible
<1> QED
  BY <1>1, <1>2, <1>3, <1>4, <1>5, <1>6, IndexSteps, FileStep DEF WriteStep

LEMMA IndexInvariant == ASSUME OneWriter PROVE IndexSpec => []IndexInv
<1>1. IndexInv /\ [IndexNext]_indexVars => IndexInv'
  BY IndexStep
<1> QED
  BY <1>1, IndexInitHolds, PTL DEF IndexSpec

\* With one writer, the index answers as it was told, through failed saves and
\* crashes between any two system calls.
THEOREM AnswersAsTold == ASSUME OneWriter PROVE IndexSpec => []IndexAsTold
<1>1. IndexInv => IndexAsTold
  BY DEF IndexInv
<1> QED
  BY <1>1, IndexInvariant, PTL

\* With one writer, what a reader of the path finds is whole.
THEOREM AlwaysWhole == ASSUME OneWriter PROVE IndexSpec => []FileIsWhole
<1>1. IndexInv => FileIsWhole
  BY DEF IndexInv, FileInv, OwnTemp, FileIsWhole, Visible
<1> QED
  BY <1>1, IndexInvariant, PTL

\* With one writer, write_json_private implements the atomic cell: every system
\* call maps to a step of the cell or to none.
THEOREM Refinement == ASSUME OneWriter PROVE IndexSpec => ImplementsAtomicCell
<1> DEFINE pend == [w \in Writer |-> IF at[w] = "return" THEN Nothing ELSE val[w]]
<1>1. IndexInit => Cell!Init
  BY DEF IndexInit, FileInit, Cell!Init, Visible
<1>2. ASSUME IndexInv, [IndexNext]_indexVars
      PROVE  [Cell!Next]_<<Visible, pend>>
  <2> USE <1>2 DEF IndexInv
  <2>1. ASSUME NEW w \in Writer, NEW n \in Nonce, NEW e \in Conversation \cup {Nothing},
               Change(w, n, e)
        PROVE  Cell!Next
    <3>1. /\ Visible' = Visible
          /\ pend[w] = Nothing
          /\ pend' = [pend EXCEPT ![w] = [Loaded EXCEPT ![n] = e]]
      BY <2>1, ChangeFacts DEF FileInv, Types, OwnTemp, Change, BeginWrite
    <3>2. [Loaded EXCEPT ![n] = e] \in Value
      BY LoadedIsIndex, IndexAssumption
    <3> QED
      BY <3>1, <3>2 DEF Cell!Next, Cell!Call
  <2>2. ASSUME NEW w \in Writer, OpenTmp(w) \/ WriteTmp(w) \/ ChmodTmp(w), UNCHANGED <<call, said>>
        PROVE  UNCHANGED <<Visible, pend>>
    <3>1. Visible' = Visible
      BY <2>2, OpenFacts, WriteFacts, ChmodFacts
    <3>2. /\ val' = val
          /\ \A v \in Writer : at'[v] = "return" <=> at[v] = "return"
      BY <2>2 DEF FileInv, Types, OpenTmp, WriteTmp, ChmodTmp
    <3> QED
      BY <3>1, <3>2
  <2>3. ASSUME NEW w \in Writer, Replace(w), UNCHANGED <<call, said>>
        PROVE  Cell!Next
    <3>1. Visible' = val[w] /\ val[w] \in Value
      BY <2>3, ReplaceFacts
    <3>2. pend[w] = val[w] /\ pend' = [pend EXCEPT ![w] = Nothing]
      BY <2>3 DEF FileInv, Types, Replace
    <3> QED
      BY <3>1, <3>2, FileAssumption DEF Cell!Next, Cell!Take
  <2>4. ASSUME NEW w \in Writer, Leave(w),
               NEW o \in Conversation \cup {Nothing, Unknown}, Over(w, o)
        PROVE  Cell!Next
    <3>1. Visible' = Visible
      BY <2>4, LeaveFacts
    <3>2. pend' = [pend EXCEPT ![w] = Nothing]
      BY <2>4 DEF FileInv, Types, Leave
    <3> QED
      BY <3>1, <3>2 DEF Cell!Next, Cell!GiveUp
  <2>5. \A w \in Writer : call[w].says \in Conversation \cup {Nothing}
    BY DEF FileInv, Types
  <2>6. ASSUME UNCHANGED indexVars PROVE UNCHANGED <<Visible, pend>>
    BY <2>6 DEF indexVars, Visible
  <2> QED
    BY <2>1, <2>2, <2>3, <2>4, <2>5, <2>6, IndexSteps DEF WriteStep, ReturnOk
<1> QED
  BY <1>1, <1>2, IndexInvariant, PTL DEF IndexSpec, ImplementsAtomicCell, Cell!Spec

--------------------------------------------------------------------------------
\* The mode is set before the rename, of the file that is renamed.
PrivateInv ==
    /\ private \in [Inode -> BOOLEAN]
    /\ SavedIsPrivate
    /\ \A w \in Writer : at[w] = "replace" => private[names["tmp"]]

LEMMA PrivateStep ==
    ASSUME OneWriter, FileInv, CallInv, PrivateInv, [IndexNext]_indexVars
    PROVE  PrivateInv'
<1> USE FileAssumption DEF FileInv, Types, OwnTemp, OneWriter, PrivateInv, SavedIsPrivate
<1>1. ASSUME NEW w \in Writer, NEW n \in Nonce, NEW e \in Conversation \cup {Nothing},
             Change(w, n, e)
      PROVE  PrivateInv'
  BY <1>1 DEF Change, BeginWrite
<1>2. ASSUME NEW w \in Writer, OpenTmp(w) PROVE PrivateInv'
  <2>1. PICK i \in Opened("tmp") : names' = [names EXCEPT !["tmp"] = i]
          /\ private' = [private EXCEPT ![i] = IF names["tmp"] = Nothing THEN FALSE ELSE @]
    BY <1>2 DEF OpenTmp
  <2>2. i \in Inode /\ i # names["path"]
    BY <2>1 DEF Opened, Unused
  <2>3. private' \in [Inode -> BOOLEAN]
    BY <2>1, <2>2
  <2>4. SavedIsPrivate'
    BY <2>1, <2>2
  <2>5. \A v \in Writer : at'[v] # "replace"
    <3>1. at' = [at EXCEPT ![w] = "write"] /\ at[w] = "open"
      BY <1>2 DEF OpenTmp
    <3>2. \A v \in Writer : v = w
      OBVIOUS
    <3> QED
      BY <3>1, <3>2
  <2> QED
    BY <2>3, <2>4, <2>5
<1>3. ASSUME NEW w \in Writer, WriteTmp(w) PROVE PrivateInv'
  BY <1>3 DEF WriteTmp
<1>4. ASSUME NEW w \in Writer, ChmodTmp(w) PROVE PrivateInv'
  BY <1>4 DEF ChmodTmp
<1>5. ASSUME NEW w \in Writer, Replace(w) PROVE PrivateInv'
  BY <1>5 DEF Replace
<1>6. ASSUME NEW w \in Writer, Leave(w) PROVE PrivateInv'
  BY <1>6 DEF Leave
<1>7. CASE UNCHANGED indexVars
  BY <1>7 DEF indexVars
<1> HIDE DEF PrivateInv
<1> QED
  BY <1>1, <1>2, <1>3, <1>4, <1>5, <1>6, <1>7, IndexSteps DEF WriteStep, ReturnOk

\* With one writer, whatever was saved is readable by its owner alone, also over
\* a temporary file that an earlier process left behind.
THEOREM AlwaysPrivate == ASSUME OneWriter PROVE IndexSpec => []SavedIsPrivate
<1>1. IndexInit => PrivateInv
  BY DEF IndexInit, FileInit, PrivateInv, SavedIsPrivate
<1>2. IndexInv /\ PrivateInv /\ [IndexNext]_indexVars => PrivateInv'
  BY PrivateStep DEF IndexInv
<1>3. PrivateInv => SavedIsPrivate
  BY DEF PrivateInv
<1> QED
  BY <1>1, <1>2, <1>3, IndexInvariant, PTL DEF IndexSpec

--------------------------------------------------------------------------------
(***************************************************************************)
(* The calls of a customer.                                                *)
(***************************************************************************)

Ledgers == [pending : SUBSET Request, responses : SUBSET Response]

\* What a customer's ledger, tools and user may hold; memory knows every
\* response that the file has.
CallTypes ==
    /\ ledger \in Ledgers /\ ledgerFile \in Ledgers
    /\ ledgerFile.responses \subseteq ledger.responses
    /\ \A v \in ledger.responses : v.request \in Request
    /\ DOMAIN tool = Request /\ DOMAIN answer = Request
    /\ told \in [Response -> Nat]

\* Only a response that the file has was told or given to a tool, and only to
\* the tool that asked, ...
OnlyRecorded ==
    /\ \A v \in Response : told[v] > 0 => v \in ledgerFile.responses
    /\ \A r \in Request : \A v \in answer[r] :
          v \in ledgerFile.responses /\ v.request = r

\* ... which got it after it began to wait, and will be the first to tell it.
NotToldYet ==
    \A r \in Request :
        /\ tool[r] \in {"idle", "waiting", "expired"} => answer[r] = {}
        /\ tool[r] = "resolved" => \A v \in answer[r] : told[v] = 0

\* Every response that memory has, saved or not, was told, or is on its way to
\* the user, or its handling was interrupted.
NothingLost ==
    \A v \in ledger.responses :
        \/ told[v] > 0
        \/ tool[v.request] = "resolved" /\ v \in answer[v.request]
        \/ v \in cut

CallsInv == CallTypes /\ OnlyRecorded /\ NotToldYet /\ ToldOnce /\ NothingLost

--------------------------------------------------------------------------------
LEMMA NewResponse ==
    ASSUME CallsInv, NEW v \in Response, Expected(v)
    PROVE  /\ v.request \in Request
           /\ v \notin ledger.responses /\ v \notin ledgerFile.responses
           /\ told[v] = 0 /\ \A r \in Request : v \notin answer[r]
           /\ Responded(v) \in Ledgers
           /\ Responded(v).responses = ledger.responses \cup {v}
BY DEF CallsInv, CallTypes, OnlyRecorded, Expected, Ledgers, Responded

LEMMA CallsStep == CallsInv /\ [CallsNext]_callsVars => CallsInv'
<1> SUFFICES ASSUME CallsInv, [CallsNext]_callsVars PROVE CallsInv'
  OBVIOUS
<1> USE DEF CallsInv, CallTypes, OnlyRecorded, NotToldYet, ToldOnce, NothingLost, Ledgers
<1>1. ASSUME NEW r \in Request, Call(r) PROVE CallsInv'
  BY <1>1 DEF Call
<1>10. ASSUME NEW r \in Request, CallSaveFails(r) PROVE CallsInv'
  BY <1>10 DEF CallSaveFails
<1>2. ASSUME NEW r \in Request, Expire(r) PROVE CallsInv'
  BY <1>2 DEF Expire
<1>3. ASSUME NEW r \in Request, Clear(r) PROVE CallsInv'
  BY <1>3 DEF Clear
<1>4. ASSUME NEW r \in Request, Return(r) PROVE CallsInv'
  BY <1>4 DEF Return
<1>5. ASSUME NEW v \in Response, Handle(v) PROVE CallsInv'
  <2>1. /\ v.request \in Request
        /\ v \notin ledger.responses /\ v \notin ledgerFile.responses
        /\ told[v] = 0 /\ \A r \in Request : v \notin answer[r]
    BY <1>5, NewResponse DEF Handle
  <2>2. /\ ledger' \in Ledgers /\ ledgerFile' = ledger'
        /\ ledger'.responses = ledger.responses \cup {v}
    BY <1>5, NewResponse DEF Handle
  <2>3. CASE Resolves(v.request)
    <3>1. /\ tool' = [tool EXCEPT ![v.request] = "resolved"]
          /\ answer' = [answer EXCEPT ![v.request] = @ \cup {v}]
          /\ UNCHANGED <<told, cut>>
      BY <1>5, <2>3 DEF Handle
    <3>2. answer[v.request] = {}
      BY <2>1, <2>3 DEF Resolves
    <3> QED
      BY <2>1, <2>2, <3>1, <3>2
  <2>4. CASE ~ Resolves(v.request)
    <3>1. told' = [told EXCEPT ![v] = @ + 1] /\ UNCHANGED <<tool, answer, cut>>
      BY <1>5, <2>4 DEF Handle
    <3> QED
      BY <2>1, <2>2, <3>1
  <2> QED
    BY <2>3, <2>4
<1>6. ASSUME NEW v \in Response, HandleSaveFails(v) PROVE CallsInv'
  BY <1>6, NewResponse DEF HandleSaveFails
<1>7. ASSUME NEW v \in Response, DieHandling(v) PROVE CallsInv'
  BY <1>7, NewResponse DEF DieHandling
<1>8. CASE Restart
  BY <1>8 DEF Restart
<1>9. CASE UNCHANGED callsVars
  BY <1>9 DEF callsVars
<1> HIDE DEF CallsInv
<1> QED
  BY <1>1, <1>2, <1>3, <1>4, <1>5, <1>6, <1>7, <1>8, <1>9, <1>10 DEF CallsNext

LEMMA CallsInvariant == CallsSpec => []CallsInv
<1>1. CallsInit => CallsInv
  BY DEF CallsInit, Empty, CallsInv, CallTypes, OnlyRecorded, NotToldYet, ToldOnce, NothingLost,
         Ledgers
<1> QED
  BY <1>1, CallsStep, PTL DEF CallsSpec

\* The user is told of a response at most once, by the tool or by the mirror.
THEOREM NeverToldTwice == CallsSpec => []ToldOnce
<1>1. CallsInv => ToldOnce
  BY DEF CallsInv
<1> QED
  BY <1>1, CallsInvariant, PTL

\* No recorded response falls between the tool and the mirror.
THEOREM NeverSwallowed == CallsSpec => []NothingSwallowed
<1>1. CallsInv => NothingSwallowed
  BY DEF CallsInv, CallTypes, NothingLost, NothingSwallowed
<1> QED
  BY <1>1, CallsInvariant, PTL

--------------------------------------------------------------------------------
(***************************************************************************)
(* Follow-up grants.                                                       *)
(***************************************************************************)

Rows == [direction : {"issued", "received"}, peer : Peer, grant : Grant,
         lastUsed : Nat \cup {Never}]

\* What the clock, the rows and the history may hold; a nonce has one row.
GrantTypes ==
    /\ now \in Nat
    /\ mem \subseteq Rows /\ file \subseteq Rows
    /\ \A r, s \in mem : r.grant.nonce = s.grant.nonce => r = s
    /\ \A r, s \in file : r.grant.nonce = s.grant.nonce => r = s
    /\ uses \in [Nonces -> Seq(Nat)]

LastUse(n) == uses[n][Len(uses[n])]

\* A nonce that was used still has its row, in memory and in the file, unless
\* it was replaced or revoked, ...
UsedIsKept ==
    \A n \in Nonces \ dropped : uses[n] # <<>> =>
        /\ \E r \in mem : r.grant.nonce = n
        /\ \E r \in file : r.grant.nonce = n

\* ... the file knows of no other grant under the nonce than memory, ...
SameGrant ==
    \A s \in file : s.grant.nonce \notin dropped => \E r \in mem : r.grant = s.grant

SpacedBy(g) ==
    \A i \in 1..(Len(uses[g.nonce]) - 1) :
        uses[g.nonce][i + 1] > uses[g.nonce][i] + g.cadence - g.window - Second

\* ... and the rows say of the last use no less than the second it was in.
StampedUses ==
    \A r \in mem \cup file : r.grant.nonce \notin dropped =>
        /\ SpacedBy(r.grant)
        /\ uses[r.grant.nonce] # <<>> =>
              /\ r.lastUsed # Never /\ r.lastUsed > LastUse(r.grant.nonce) - Second
              /\ LastUse(r.grant.nonce) <= now

GrantsInv == GrantTypes /\ UsedIsKept /\ SameGrant /\ StampedUses

--------------------------------------------------------------------------------
\* The stamp is cut down to the second.
LEMMA StampIsClose ==
    ASSUME NEW t \in Nat
    PROVE  WholeSeconds(t) \in Nat /\ WholeSeconds(t) <= t /\ WholeSeconds(t) > t - Second
BY PolicyAssumption DEF WholeSeconds

LEMMA GrantNonces == \A r \in Rows : r.grant \in Grant /\ r.grant.nonce \in Nonces
BY DEF Rows, Nonces

\* A row that is recorded takes a nonce without uses, unless it was dropped.
LEMMA NewRow ==
    ASSUME GrantsInv, NEW d \in {"issued", "received"}, NEW p \in Peer, NEW g \in Grant,
           CanRecord(p, g), mem' = Recorded(d, p, g),
           dropped' = dropped \cup {r.grant.nonce : r \in mem \ mem'},
           file' \in {mem', file}, UNCHANGED <<now, uses>>
    PROVE  GrantsInv'
<1> DEFINE row == Row(d, p, g)
<1> USE DEF GrantsInv
<1>1. row \in Rows /\ row.grant = g /\ g.nonce \in Nonces /\ row.lastUsed = Never
  BY DEF Row, Rows, Nonces
<1>2. /\ row \in mem' /\ mem' \subseteq mem \cup {row}
      /\ \A r \in mem : r \in mem' \/ r.grant.nonce \in dropped'
  BY DEF Recorded
<1>3. \A r \in mem : r.grant.nonce # g.nonce
  BY DEF CanRecord
<1>4. GrantTypes'
  BY <1>1, <1>2, <1>3 DEF GrantTypes
<1>5. dropped \subseteq dropped'
  OBVIOUS
<1>6. g.nonce \notin dropped => uses[g.nonce] = <<>>
  BY <1>1, <1>3 DEF UsedIsKept
<1> HIDE DEF row
<1>7. UsedIsKept'
  BY <1>2, <1>5 DEF UsedIsKept
<1>8. SameGrant'
  BY <1>2, <1>5 DEF SameGrant
<1>9. StampedUses'
  <2> SUFFICES ASSUME NEW r \in mem' \cup file', r.grant.nonce \notin dropped'
               PROVE  /\ SpacedBy(r.grant)
                      /\ uses[r.grant.nonce] # <<>> =>
                            /\ r.lastUsed # Never /\ r.lastUsed > LastUse(r.grant.nonce) - Second
                            /\ LastUse(r.grant.nonce) <= now
    BY DEF StampedUses, SpacedBy, LastUse
  <2>1. CASE r = row
    BY <1>1, <1>5, <1>6, <2>1 DEF SpacedBy
  <2>2. CASE r # row
    BY <1>2, <1>5, <2>2 DEF StampedUses
  <2> QED
    BY <2>1, <2>2
<1> QED
  BY <1>4, <1>7, <1>8, <1>9

\* A stamp changes one row, and nothing of it but the stamp.
LEMMA StampFacts ==
    ASSUME GrantsInv, NEW r \in mem, NEW row, row = [r EXCEPT !.lastUsed = WholeSeconds(now)]
    PROVE  /\ row \in Rows /\ row.grant = r.grant
           /\ row.lastUsed \in Nat /\ row.lastUsed # Never /\ row.lastUsed > now - Second
           /\ Stamped(r) = (mem \ {r}) \cup {row}
           /\ \A s \in mem \ {r} : s.grant.nonce # r.grant.nonce
BY StampIsClose, GrantAssumption DEF GrantsInv, GrantTypes, Rows, Stamped

\* A use that keeps its distance from a stamp keeps it from the use that was
\* stamped, up to the second that the stamp lost.
LEMMA Apart ==
    ASSUME NEW t \in Nat, NEW used \in Nat, NEW last \in Nat,
           NEW c \in Nat, NEW w \in Nat, NEW s \in Nat,
           t >= used + c - w, used > last - s
    PROVE  t > last + c - w - s
OBVIOUS

LEMMA FollowUpStep == ASSUME GrantsInv, NEW r \in mem, FollowUp(r) PROVE GrantsInv'
<1> DEFINE row == [r EXCEPT !.lastUsed = WholeSeconds(now)]
           n == r.grant.nonce
           g == r.grant
           old == uses[n]
<1> USE DEF GrantsInv
<1>1. /\ row \in Rows /\ row.grant = g
      /\ row.lastUsed \in Nat /\ row.lastUsed # Never /\ row.lastUsed > now - Second
      /\ \A s \in mem \ {r} : s.grant.nonce # n
      /\ mem' = (mem \ {r}) \cup {row} /\ file' = mem'
  BY StampFacts DEF FollowUp
<1>2. g \in Grant /\ n \in Nonces /\ old \in Seq(Nat) /\ now \in Nat
      /\ g.iat \in Nat /\ g.cadence \in Nat /\ g.window \in Nat
  BY GrantNonces, GrantAssumption DEF GrantTypes
<1>3. /\ uses' = [uses EXCEPT ![n] = Append(old, now)] /\ UNCHANGED <<now, dropped>>
      /\ WithinWindow(r)
  BY DEF FollowUp
<1> HIDE DEF row
<1>4. /\ uses'[n] \in Seq(Nat) /\ Len(uses'[n]) = Len(old) + 1
      /\ uses'[n][Len(old) + 1] = now
      /\ \A i \in 1..Len(old) : uses'[n][i] = old[i]
      /\ uses' \in [Nonces -> Seq(Nat)]
      /\ \A m \in Nonces \ {n} : uses'[m] = uses[m]
  BY <1>2, <1>3 DEF GrantTypes
<1>5. GrantTypes'
  BY <1>1, <1>3, <1>4 DEF GrantTypes
<1>6. UsedIsKept' /\ SameGrant'
  BY <1>1, <1>2, <1>3, <1>4 DEF UsedIsKept, SameGrant
<1>7. ASSUME n \notin dropped
      PROVE  \A i \in 1..(Len(uses'[n]) - 1) :
                uses'[n][i + 1] > uses'[n][i] + g.cadence - g.window - Second
  <2>1. SpacedBy(g) /\ (old # <<>> => r.lastUsed # Never /\ r.lastUsed > LastUse(n) - Second)
    BY <1>7 DEF StampedUses
  <2>2. r.lastUsed \in Nat \cup {Never} /\ Second \in Nat
    BY PolicyAssumption DEF GrantTypes, Rows
  <2>3. ASSUME old # <<>> PROVE now > old[Len(old)] + g.cadence - g.window - Second
    <3>1. r.lastUsed \in Nat /\ now >= r.lastUsed + g.cadence - g.window
      BY <1>3, <2>1, <2>2, <2>3 DEF WithinWindow
    <3> DEFINE last == old[Len(old)]
    <3>2. last \in Nat
      BY <1>2, <2>3
    <3>3. r.lastUsed > last - Second
      BY <2>1, <2>3 DEF LastUse
    <3> HIDE DEF last
    <3>4. now > last + g.cadence - g.window - Second
      BY <1>2, <2>2, <3>1, <3>2, <3>3, Apart
    <3> QED
      BY <3>4 DEF last
  <2> SUFFICES ASSUME NEW i \in 1..(Len(uses'[n]) - 1)
               PROVE  uses'[n][i + 1] > uses'[n][i] + g.cadence - g.window - Second
    OBVIOUS
  <2>4. CASE i < Len(old)
    <3>1. i \in 1..(Len(old) - 1) /\ i \in 1..Len(old) /\ i + 1 \in 1..Len(old)
      <4>1. Len(old) \in Nat /\ i \in Int /\ 1 <= i
        BY <1>2, <1>4
      <4> QED
        BY <2>4, <4>1
    <3>2. uses'[n][i + 1] = old[i + 1] /\ uses'[n][i] = old[i]
      BY <1>4, <3>1
    <3>3. old[i + 1] > old[i] + g.cadence - g.window - Second
      BY <2>1, <3>1 DEF SpacedBy
    <3> QED
      BY <3>2, <3>3
  <2>5. CASE i = Len(old)
    <3>1. old # <<>> /\ i \in 1..Len(old)
      BY <1>2, <2>5
    <3>2. uses'[n][i + 1] = now /\ uses'[n][i] = old[Len(old)]
      BY <1>4, <2>5, <3>1
    <3> QED
      BY <2>3, <3>1, <3>2
  <2> QED
    BY <1>2, <1>4, <2>4, <2>5
<1>8. StampedUses'
  <2> SUFFICES ASSUME NEW s \in mem' \cup file', s.grant.nonce \notin dropped'
               PROVE  /\ SpacedBy(s.grant)'
                      /\ uses'[s.grant.nonce] # <<>> =>
                            /\ s.lastUsed # Never /\ s.lastUsed > LastUse(s.grant.nonce)' - Second
                            /\ LastUse(s.grant.nonce)' <= now'
    BY DEF StampedUses
  <2>1. CASE s = row
    <3>1. s.grant = g /\ s.lastUsed # Never /\ s.lastUsed > now - Second
      BY <1>1, <2>1
    <3>2. SpacedBy(g)'
      BY <1>3, <1>7, <2>1, <3>1 DEF SpacedBy
    <3>3. LastUse(n)' = now
      BY <1>2, <1>4 DEF LastUse
    <3> QED
      BY <1>2, <1>3, <3>1, <3>2, <3>3
  <2>2. CASE s # row
    <3>1. s \in mem \ {r} /\ s.grant.nonce \in Nonces \ {n}
      BY <1>1, <1>5, <2>2, GrantNonces DEF GrantTypes
    <3> QED
      BY <1>3, <1>4, <3>1 DEF StampedUses, SpacedBy, LastUse
  <2> QED
    BY <2>1, <2>2
<1> QED
  BY <1>5, <1>6, <1>8

LEMMA FollowUpSaveFailsStep ==
    ASSUME GrantsInv, NEW r \in mem, FollowUpSaveFails(r) PROVE GrantsInv'
<1> DEFINE row == [r EXCEPT !.lastUsed = WholeSeconds(now)]
<1> USE DEF GrantsInv
<1>1. /\ row \in Rows /\ row.grant = r.grant
      /\ row.lastUsed \in Nat /\ row.lastUsed # Never /\ row.lastUsed > now - Second
      /\ \A s \in mem \ {r} : s.grant.nonce # r.grant.nonce
      /\ mem' = (mem \ {r}) \cup {row} /\ UNCHANGED <<now, file, dropped, uses>>
  BY StampFacts DEF FollowUpSaveFails
<1> HIDE DEF row
<1>2. GrantTypes'
  BY <1>1 DEF GrantTypes
<1>3. UsedIsKept' /\ SameGrant'
  BY <1>1 DEF UsedIsKept, SameGrant
<1>4. StampedUses'
  <2> SUFFICES ASSUME NEW s \in mem' \cup file', s.grant.nonce \notin dropped
               PROVE  /\ SpacedBy(s.grant)
                      /\ uses[s.grant.nonce] # <<>> =>
                            /\ s.lastUsed # Never /\ s.lastUsed > LastUse(s.grant.nonce) - Second
                            /\ LastUse(s.grant.nonce) <= now
    BY <1>1 DEF StampedUses, SpacedBy, LastUse
  <2>1. CASE s = row
    <3>1. r.grant.nonce \in Nonces
      BY GrantNonces DEF GrantTypes
    <3>2. uses[r.grant.nonce] # <<>> => LastUse(r.grant.nonce) \in Nat
      BY <3>1 DEF GrantTypes, LastUse
    <3> QED
      BY <1>1, <2>1, <3>2, PolicyAssumption DEF StampedUses, GrantTypes
  <2>2. CASE s # row
    BY <1>1, <2>2 DEF StampedUses
  <2> QED
    BY <2>1, <2>2
<1> QED
  BY <1>2, <1>3, <1>4

LEMMA RevokeStep ==
    ASSUME GrantsInv, NEW d, NEW p, NEW v, Revoke(d, p, v) \/ RevokeSaveFails(d, p, v)
    PROVE  GrantsInv'
<1> USE DEF GrantsInv
<1>1. /\ mem' \subseteq mem /\ file' \in {file, mem'} /\ dropped \subseteq dropped'
      /\ \A r \in mem : r \in mem' \/ r.grant.nonce \in dropped'
      /\ UNCHANGED <<now, uses>>
  BY DEF Revoke, RevokeSaveFails
<1>2. GrantTypes' /\ UsedIsKept' /\ SameGrant'
  BY <1>1 DEF GrantTypes, UsedIsKept, SameGrant
<1>3. StampedUses'
  BY <1>1 DEF StampedUses, SpacedBy, LastUse
<1> QED
  BY <1>2, <1>3

LEMMA GrantsStep == GrantsInv /\ [GrantsNext]_grantsVars => GrantsInv'
<1> SUFFICES ASSUME GrantsInv, [GrantsNext]_grantsVars PROVE GrantsInv'
  OBVIOUS
<1>1. ASSUME NEW d \in {"issued", "received"}, NEW p \in Peer, NEW g \in Grant,
             Record(d, p, g) \/ RecordSaveFails(d, p, g)
      PROVE  GrantsInv'
  BY <1>1, NewRow DEF Record, RecordSaveFails
<1>2. ASSUME NEW r \in mem, FollowUp(r) PROVE GrantsInv'
  BY <1>2, FollowUpStep
<1>3. ASSUME NEW r \in mem, FollowUpSaveFails(r) PROVE GrantsInv'
  BY <1>3, FollowUpSaveFailsStep
<1>4. ASSUME NEW d, NEW p, NEW v, Revoke(d, p, v) \/ RevokeSaveFails(d, p, v)
      PROVE  GrantsInv'
  BY <1>4, RevokeStep
<1>5. CASE Load
  BY <1>5 DEF Load, GrantsInv, GrantTypes, UsedIsKept, SameGrant, StampedUses, SpacedBy, LastUse
<1>6. CASE Tick
  <2>1. now \in Nat /\ now' = now + 1 /\ UNCHANGED <<mem, file, dropped, uses>>
    BY <1>6 DEF Tick, GrantsInv, GrantTypes
  <2>2. GrantTypes' /\ UsedIsKept' /\ SameGrant'
    BY <2>1 DEF GrantsInv, GrantTypes, UsedIsKept, SameGrant
  <2>3. \A n \in Nonces : uses[n] # <<>> => LastUse(n) \in Nat
    BY DEF GrantsInv, GrantTypes, LastUse
  <2>4. \A r \in mem \cup file : r.grant.nonce \in Nonces
    BY GrantNonces DEF GrantsInv, GrantTypes
  <2>5. \A n \in Nonces : uses[n] # <<>> /\ LastUse(n) <= now => LastUse(n) <= now'
    BY <2>1, <2>3
  <2>6. StampedUses'
    BY <2>1, <2>4, <2>5 DEF GrantsInv, StampedUses, SpacedBy, LastUse
  <2> QED
    BY <2>2, <2>6 DEF GrantsInv
<1>7. CASE UNCHANGED grantsVars
  BY <1>7 DEF grantsVars, GrantsInv, GrantTypes, UsedIsKept, SameGrant, StampedUses, SpacedBy,
              LastUse
<1> QED
  BY <1>1, <1>2, <1>3, <1>4, <1>5, <1>6, <1>7 DEF GrantsNext

\* Follow-ups under one grant keep their distance, for every grant, any number
\* of uses, and through failed stamps and restarts.
THEOREM UsesAreSpaced == GrantsSpec => []FollowUpsAreSpaced
<1>1. GrantsInit => GrantsInv
  BY DEF GrantsInit, GrantsInv, GrantTypes, UsedIsKept, SameGrant, StampedUses, Rows
<1>2. GrantsInv => FollowUpsAreSpaced
  BY DEF GrantsInv, StampedUses, SpacedBy, FollowUpsAreSpaced
<1> QED
  BY <1>1, <1>2, GrantsStep, PTL DEF GrantsSpec
================================================================================
