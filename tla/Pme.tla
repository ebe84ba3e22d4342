-------------------------------- MODULE Pme --------------------------------
(***************************************************************************)
(* The pattern matching engine: the calls of a script (src/zjs_pme.c), the *)
(* sensor core's handler (arc/src/arc_pme.c) and the functions that drive  *)
(* the device's registers (arc/src/arc_curie_pme.c).  saveNeurons and      *)
(* restoreNeurons are many calls, each of which may fail, or be handled    *)
(* without its answer arriving.                                            *)
(*                                                                         *)
(* The device is external: in normal mode learning adds a neuron, in its   *)
(* NET mode the neurons are read and written one after the other.  Of a    *)
(* neuron only its vector is kept; distances and matches are left out.     *)
(***************************************************************************)
EXTENDS Integers, Sequences, SequencesExt

CONSTANTS
  Vectors,    \* the vectors a script may teach, of MAX_VECTOR_SIZE components
  MaxNeurons, \* MAX_NEURONS
  MaxPmeCalls \* model bound: calls of the script

ASSUME PmeAssumption ==
  /\ \A v, w \in Vectors : v \in Seq(Nat) /\ Len(v) = Len(w)
  /\ {MaxNeurons, MaxPmeCalls} \subseteq Nat

VARIABLES
  nsr,       \* the mode register: net (NSR_NET_MODE) and knn (NSR_CLASS_MODE)
  nsrSave,   \* nsr_save
  neurons,   \* the vectors of the committed neurons
  chain,     \* the neuron the device's chain has come to
  pmeModes,  \* save_mode and restore_mode of arc_pme.c
  pmeOp,     \* the script's saveNeurons or restoreNeurons under way
  pmeSaved,  \* what the latest saveNeurons returned; history: what the neurons were
  pmeSet,    \* history: the classifier mode set last
  pmeBroken, \* history: a save or a restore has broken off
  pmeCount   \* history: calls so far

pmeVars == <<nsr, nsrSave, neurons, chain, pmeModes, pmeOp, pmeSaved, pmeSet, pmeBroken, pmeCount>>
device  == <<nsr, nsrSave, neurons, chain, pmeModes>>

PmeIdle  == [op |-> "idle", at |-> 0, count |-> 0, array |-> <<>>]
PmeReady == pmeOp = PmeIdle /\ pmeCount < MaxPmeCalls
Counted  == pmeCount' = pmeCount + 1

\* A call of the sensor core: its handler runs and its answer arrives; or main sees an
\* error, and the handler runs or not.
Answers(handler, ok) ==
  \/ handler
  \/ ~ok /\ UNCHANGED device

-----------------------------------------------------------------------------
(***************************************************************************)
(* arc_curie_pme.c and its calls in arc_handle_pme.                        *)
(***************************************************************************)
Forget == neurons' = <<>>

BeginSaveStale == nsr' = [nsr EXCEPT !.net = TRUE] /\ chain' = 1 /\ UNCHANGED nsrSave
BeginNet ==
  /\ nsrSave' = nsr
  /\ nsr' = [nsr EXCEPT !.net = TRUE]
  /\ chain' = 1
EndNet == nsr' = [nsrSave EXCEPT !.net = FALSE] /\ UNCHANGED <<nsrSave, chain>>

BeginSaveMode ==
  BeginNet /\ pmeModes' = pmeModes \cup {"save"} /\ UNCHANGED neurons
EndSaveMode ==
  EndNet /\ pmeModes' = pmeModes \ {"save"} /\ UNCHANGED neurons
BeginRestoreModeKeeps ==
  BeginNet /\ pmeModes' = pmeModes \cup {"restore"} /\ UNCHANGED neurons
BeginRestoreMode ==
  BeginNet /\ Forget /\ pmeModes' = pmeModes \cup {"restore"}
EndRestoreMode ==
  EndNet /\ pmeModes' = pmeModes \ {"restore"} /\ UNCHANGED neurons

\* Reading or writing the category moves the chain along.
IterateToSave    == chain' = chain + 1 /\ UNCHANGED <<nsr, nsrSave, neurons, pmeModes>>
WriteNeuron(v)   == IF chain > Len(neurons) THEN Append(neurons, v) ELSE [neurons EXCEPT ![chain] = v]
IterateToRestore(v) ==
  /\ neurons' = WriteNeuron(v)
  /\ chain' = chain + 1
  /\ UNCHANGED <<nsr, nsrSave, pmeModes>>

Learn(v) ==
  /\ neurons' = IF nsr.net THEN WriteNeuron(v)
                ELSE IF Len(neurons) < MaxNeurons THEN Append(neurons, v) ELSE neurons
  /\ chain' = IF nsr.net THEN chain + 1 ELSE chain
  /\ UNCHANGED <<nsr, nsrSave, pmeModes>>

\* Saves and ends: the chain is somewhere else then.
ReadNeuron(n) ==
  /\ nsrSave' = nsr
  /\ nsr' = [nsr EXCEPT !.net = FALSE]
  /\ chain' = n + 1
  /\ UNCHANGED <<neurons, pmeModes>>

SetClassifierMode(knn) ==
  /\ nsr' = [nsr EXCEPT !.knn = knn]
  /\ UNCHANGED <<nsrSave, neurons, chain, pmeModes>>

Begin == Forget /\ UNCHANGED <<nsr, nsrSave, chain, pmeModes>>

-----------------------------------------------------------------------------
(***************************************************************************)
(* The script's calls.                                                     *)
(***************************************************************************)
PmeCall(handler) ==
  /\ PmeReady /\ Counted
  /\ Answers(handler, TRUE) \/ Answers(handler, FALSE)
  /\ UNCHANGED <<pmeOp, pmeSaved, pmeBroken>>

PmeBegin      == PmeCall(Begin) /\ UNCHANGED pmeSet
PmeLearn(v)   == Len(neurons) < MaxNeurons /\ PmeCall(Learn(v)) /\ UNCHANGED pmeSet
PmeRead(n)    == PmeCall(ReadNeuron(n)) /\ UNCHANGED pmeSet

PmeSetMode(knn) ==
  /\ PmeCall(SetClassifierMode(knn))
  /\ pmeSet' = IF nsr' # nsr THEN knn ELSE pmeSet

\* configure sets the mode too; a context out of range is refused before.
PmeConfigure(knn) == PmeSetMode(knn)

\* classify, writeVector and the getters change nothing that is modelled.
PmeLooks == PmeReady /\ Counted /\ UNCHANGED <<device, pmeOp, pmeSaved, pmeSet, pmeBroken>>

\* saveNeurons asks for the number of neurons first.
SaveNeurons ==
  /\ PmeReady /\ Counted
  /\ pmeOp' = [PmeIdle EXCEPT !.op = "saveNeurons", !.count = Len(neurons)]
  /\ UNCHANGED <<device, pmeSaved, pmeSet, pmeBroken>>

\* restoreNeurons, with an array that a saveNeurons has returned, perhaps after an
\* element of it was replaced by something that is no neuron.
RestoreNeurons(bad) ==
  /\ PmeReady /\ Counted
  /\ pmeSaved.array # <<>>
  /\ pmeOp' = [PmeIdle EXCEPT !.op = "restoreNeurons", !.count = bad, !.array = pmeSaved.array]
  /\ UNCHANGED <<device, pmeSaved, pmeSet, pmeBroken>>

\* After an error the function returns, and what was begun is not ended.
Break(ok) == pmeBroken' = (pmeBroken \/ ~ok)
Goes(op, next, ok) ==
  /\ pmeOp.op = op
  /\ Break(ok)
  /\ pmeOp' = IF ok THEN next ELSE PmeIdle
  /\ UNCHANGED <<pmeSet, pmeCount>>

SaveBegins == \E ok \in BOOLEAN :
  /\ Goes("saveNeurons", [pmeOp EXCEPT !.op = "save", !.at = 1], ok)
  /\ Answers(BeginSaveMode, ok)
  /\ UNCHANGED pmeSaved

\* A saved vector ends before its first zero.
Cut(v) == LET zeros == {i \in DOMAIN v : v[i] = 0}
          IN  IF zeros = {} THEN v
              ELSE SubSeq(v, 1, (CHOOSE i \in zeros : \A j \in zeros : i <= j) - 1)
Read == IF chain \in DOMAIN neurons THEN neurons[chain] ELSE <<0, 0>>

SaveIterates == \E ok \in BOOLEAN :
  /\ pmeOp.at <= pmeOp.count
  /\ Goes("save", [pmeOp EXCEPT !.at = @ + 1, !.array = Append(@, Cut(Read))], ok)
  /\ Answers(IterateToSave, ok)
  /\ UNCHANGED pmeSaved

SaveEnds == \E ok \in BOOLEAN :
  /\ pmeOp.at > pmeOp.count
  /\ Goes("save", PmeIdle, ok)
  /\ Answers(EndSaveMode, ok)
  /\ pmeSaved' = IF ok THEN [array |-> pmeOp.array, was |-> neurons] ELSE pmeSaved

RestoreBegins == \E ok \in BOOLEAN :
  /\ Goes("restoreNeurons", [pmeOp EXCEPT !.op = "restore", !.at = 1], ok)
  /\ Answers(BeginRestoreMode, ok)
  /\ UNCHANGED pmeSaved

\* The vector is filled up with zeros; an element that is no neuron is an error.
Padded(v) == LET size == Len(CHOOSE w \in Vectors : TRUE)
             IN  [i \in 1 .. size |-> IF i <= Len(v) THEN v[i] ELSE 0]

RestoreIterates == \E ok \in BOOLEAN :
  /\ pmeOp.at <= Len(pmeOp.array)
  /\ Goes("restore", [pmeOp EXCEPT !.at = @ + 1], ok)
  /\ IF pmeOp.at = pmeOp.count THEN ok = FALSE /\ UNCHANGED device
     ELSE Answers(IterateToRestore(Padded(pmeOp.array[pmeOp.at])), ok)
  /\ UNCHANGED pmeSaved

RestoreEnds == \E ok \in BOOLEAN :
  /\ pmeOp.at > Len(pmeOp.array)
  /\ Goes("restore", PmeIdle, ok)
  /\ Answers(EndRestoreMode, ok)
  /\ UNCHANGED pmeSaved

-----------------------------------------------------------------------------
PmeInit ==
  /\ nsr = [net |-> FALSE, knn |-> FALSE] /\ nsrSave = nsr
  /\ neurons = <<>> /\ chain = 1 /\ pmeModes = {}
  /\ pmeOp = PmeIdle /\ pmeSaved = [array |-> <<>>, was |-> <<>>]
  /\ pmeSet = FALSE /\ pmeBroken = FALSE /\ pmeCount = 0

PmeNext ==
  \/ PmeBegin
  \/ \E v \in Vectors : PmeLearn(v)
  \/ \E n \in 1 .. MaxNeurons : PmeRead(n)
  \/ \E knn \in BOOLEAN : PmeSetMode(knn) \/ PmeConfigure(knn)
  \/ PmeLooks \/ SaveNeurons \/ SaveBegins \/ SaveIterates \/ SaveEnds
  \/ \E bad \in 0 .. MaxNeurons : RestoreNeurons(bad)
  \/ RestoreBegins \/ RestoreIterates \/ RestoreEnds
  \/ pmeCount = MaxPmeCalls /\ pmeOp = PmeIdle /\ UNCHANGED pmeVars

PmeSpec == PmeInit /\ [][PmeNext]_pmeVars

-----------------------------------------------------------------------------
(***************************************************************************)
(* Properties.                                                             *)
(***************************************************************************)
\* Between the script's calls the device is in normal mode and the handler in neither of its
\* own, unless a save or a restore has broken off: nothing ends what it had begun.
NormalUnlessBroken ==
  pmeOp = PmeIdle => pmeBroken \/ (~nsr.net /\ pmeModes = {})

\* The classifier mode is the one set last, although saves, restores and reads put back a
\* register they kept, also when some of them broke off.
ClassifierModeKept == nsr.knn = pmeSet

\* Calls leave the modes as they found them.
ModesAreKept == NormalUnlessBroken /\ ClassifierModeKept

\* To restore what was saved gives back every neuron, but for components after a zero.
SameUpToZero(v, w) == Cut(v) = Cut(w)
SavedIsRestored ==
  [][pmeOp.op = "restore" /\ pmeOp' = PmeIdle /\ ~pmeBroken'
       => /\ Len(neurons') = Len(pmeSaved.was)
          /\ \A i \in DOMAIN pmeSaved.was : SameUpToZero(neurons'[i], pmeSaved.was[i])]_pmeVars
=============================================================================
