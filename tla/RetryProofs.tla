------------------------------ MODULE RetryProofs ---------------------------
(***************************************************************************)
(* What is done again, and what a retry may not do.  The keeper's journal   *)
(* and its commitments: for any receipts and owners, any clock and any      *)
(* number of faults.  A guest's reads of a chain and the balance tracker on *)
(* top of them: for any chains, timeouts, retries, caps and balances.  The  *)
(* reconnects of a block source: for any cap, window and channel.           *)
(***************************************************************************)
EXTENDS Journal, Commitments, ChainRead, BlockSource, TLAPS

\* A leaf that names no prover is tried with each of these in turn.
USE SMT, Zenon, Z3T(30), SMTT(30)

-----------------------------------------------------------------------------
(* The journal. *)

\* Where the call under way stands.  A guard that has not submitted holds a
\* receipt that has not landed; a submit has its marker on disk before it and
\* after it; a marker is released only for what did not land.
GuardHolds ==
  /\ job.pc \in {"reserve", "submit"} => job.r \notin landed
  /\ job.pc \in {"submit", "resubmit", "settle"} => marks[job.r].tag # "none"
  /\ (job.pc = "settle" /\ job.disp = "release") => job.r \notin landed

JournalInv == JournalTypeOK /\ LandedIsMarked /\ GuardHolds

\* Mark reads an absent marker, and no other, as absent.
LEMMA MarkAbsent == \A r : Mark(r) = "absent" <=> marks[r].tag = "none"
BY DEF Mark

\* A journal begins with the markers of what landed before, and no others.
LEMMA JournalInit_Inv == JournalInit => JournalInv
<1> SUFFICES ASSUME JournalInit PROVE JournalInv
  OBVIOUS
<1>1. JournalTypeOK
  BY JournalAssumption DEF JournalInit, JournalTypeOK, Resting, None, Tags
<1>2. LandedIsMarked
  BY Zenon, MarkAbsent DEF JournalInit, LandedIsMarked, None
<1>3. GuardHolds
  BY DEF JournalInit, GuardHolds, Resting
<1> QED
  BY <1>1, <1>2, <1>3 DEF JournalInv

\* What the record of the call holds at each of its places.
LEMMA JobFields ==
  ASSUME JournalTypeOK
  PROVE  /\ job = Resting \/ job.pc \in {"reserve", "submit", "resubmit", "settle"}
         /\ job # Resting => job.r \in Receipts
         /\ job.pc = "settle" => job.disp \in Disposals /\ job.until \in 0..MaxEpoch
BY DEF JournalTypeOK, Resting

\* Every write, submit, fault and death keeps the invariant.
LEMMA JournalStep ==
  ASSUME JournalInv, [JournalNext]_journalVars
  PROVE  JournalInv'
<1> USE JournalAssumption
<1>0. /\ JournalTypeOK /\ LandedIsMarked /\ GuardHolds
      /\ marks \in [Receipts -> [tag : Tags, until : 0..MaxEpoch]]
      /\ landed \subseteq Receipts /\ epoch \in 0..MaxEpoch /\ faults \in 0..MaxFaults
      /\ \A r \in landed : marks[r].tag # "none"
  BY MarkAbsent DEF JournalInv, JournalTypeOK, LandedIsMarked
<1>a. LandedIsMarked' <=> \A r \in landed' : marks'[r].tag # "none"
  BY DEF LandedIsMarked, Mark
<1>1. ASSUME NEW r \in Receipts, GuardStart(r) PROVE JournalInv'
  <2>1. r \notin landed
    BY <1>1, <1>0, MarkAbsent DEF GuardStart
  <2>2. JournalTypeOK'
    BY <1>0, <1>1 DEF JournalTypeOK, GuardStart
  <2>3. GuardHolds'
    BY <1>1, <2>1 DEF GuardStart, GuardHolds
  <2> QED
    BY <1>0, <1>1, <1>a, <2>2, <2>3 DEF JournalInv, GuardStart
<1>2. ASSUME NEW r \in Receipts, Reconcile(r) PROVE JournalInv'
  <2>1. marks[r].tag # "none"
    BY <1>2 DEF Reconcile, Pending
  <2>2. JournalTypeOK'
    BY <1>0, <1>2 DEF JournalTypeOK, Reconcile
  <2>3. GuardHolds'
    BY <1>2, <2>1 DEF Reconcile, GuardHolds
  <2> QED
    BY <1>0, <1>2, <1>a, <2>2, <2>3 DEF JournalInv, Reconcile
<1>3. ASSUME NEW r \in Receipts, Damage(r) PROVE JournalInv'
  <2>1. marks' \in [Receipts -> [tag : Tags, until : 0..MaxEpoch]]
    BY <1>0, <1>3 DEF Damage, Tags
  <2>2. \A s \in Receipts : marks[s].tag # "none" => marks'[s].tag # "none"
    BY <1>0, <1>3 DEF Damage
  <2>3. JournalTypeOK'
    BY <1>0, <1>3, <2>1 DEF JournalTypeOK, Damage
  <2>4. GuardHolds'
    BY <1>3 DEF Damage, GuardHolds, Resting
  <2> QED
    BY <1>0, <1>3, <1>a, <2>2, <2>3, <2>4 DEF JournalInv, Damage
<1>4. CASE Reserve
  <2>1. job.r \in Receipts /\ job' = [job EXCEPT !.pc = "submit"]
        /\ job \in [pc : {"reserve", "submit", "resubmit"}, r : Receipts]
    BY <1>0, <1>4 DEF Reserve, JournalTypeOK, Resting
  <2>2. marks' \in [Receipts -> [tag : Tags, until : 0..MaxEpoch]]
    BY <1>0, <1>4, <2>1 DEF Reserve, ReservedValue, Tags
  <2>3. marks'[job.r].tag = "reserved"
        /\ \A s \in Receipts : marks[s].tag # "none" => marks'[s].tag # "none"
    BY <1>0, <1>4, <2>1 DEF Reserve, ReservedValue
  <2>4. job' \in [pc : {"reserve", "submit", "resubmit"}, r : Receipts]
        /\ job'.pc = "submit" /\ job'.r = job.r
    BY <2>1
  <2>5. JournalTypeOK'
    BY <1>0, <1>4, <2>2, <2>4 DEF Reserve, JournalTypeOK
  <2>6. GuardHolds'
    BY <1>0, <1>4, <2>3, <2>4 DEF Reserve, GuardHolds
  <2> QED
    BY <1>0, <1>4, <1>a, <2>3, <2>5, <2>6 DEF JournalInv, Reserve
<1>5. CASE Submit
  <2>1. job.r \in Receipts /\ marks[job.r].tag # "none"
    BY <1>0, <1>5, JobFields DEF Submit, GuardHolds, Resting
  <2>2. PICK disp \in Disposals, until \in 0..MaxEpoch :
          /\ job' = Settling(job.r, disp, until)
          /\ landed' \in {landed, landed \cup {job.r}}
          /\ disp = "release" => landed' = landed /\ job.r \notin landed
    BY <1>0, <1>5 DEF Submit, Disposals
  <2>3. /\ job' \in [pc : {"settle"}, r : Receipts, disp : Disposals, until : 0..MaxEpoch]
        /\ job'.pc = "settle" /\ job'.r = job.r /\ job'.disp = disp
    BY <2>1, <2>2 DEF Settling
  <2>4. JournalTypeOK'
    BY <1>0, <1>5, <2>1, <2>2, <2>3 DEF Submit, JournalTypeOK
  <2>5. GuardHolds'
    BY <1>5, <2>1, <2>2, <2>3 DEF Submit, GuardHolds
  <2> QED
    BY <1>0, <1>5, <1>a, <2>1, <2>2, <2>4, <2>5 DEF JournalInv, Submit
<1>6. CASE Settle
  <2>1. job.r \in Receipts /\ job.disp \in Disposals /\ job.until \in 0..MaxEpoch
        /\ marks[job.r].tag # "none" /\ (job.disp = "release" => job.r \notin landed)
    BY <1>0, <1>6, JobFields DEF Settle, GuardHolds, Resting
  <2>2. \E m \in [tag : Tags, until : 0..MaxEpoch] :
          /\ marks' = [marks EXCEPT ![job.r] = m]
          /\ m.tag = "none" => job.r \notin landed
    <3>1. CASE job.disp = "commit"
      <4>1. marks' = [marks EXCEPT ![job.r] = CommittedValue]
        BY <1>6, <3>1 DEF Settle
      <4>2. CommittedValue \in [tag : Tags, until : 0..MaxEpoch] /\ CommittedValue.tag # "none"
        BY DEF CommittedValue, Tags
      <4> QED
        BY Zenon, <4>1, <4>2
    <3>2. CASE job.disp = "release"
      <4>1. marks' = [marks EXCEPT ![job.r] = None]
        BY <1>6, <3>2 DEF Settle
      <4>2. None \in [tag : Tags, until : 0..MaxEpoch] /\ job.r \notin landed
        BY <2>1, <3>2 DEF None, Tags
      <4> QED
        BY Zenon, <4>1, <4>2
    <3>3. CASE job.disp = "park"
      <4>1. marks' = [marks EXCEPT ![job.r] = ReservedValue(job.until)]
        BY <1>6, <3>3 DEF Settle
      <4>2. /\ ReservedValue(job.until) \in [tag : Tags, until : 0..MaxEpoch]
            /\ ReservedValue(job.until).tag # "none"
        BY <2>1 DEF ReservedValue, Tags
      <4> QED
        BY Zenon, <4>1, <4>2
    <3>4. CASE job.disp = "retain"
      BY <1>0, <1>6, <2>1, <3>4 DEF Settle
    <3> QED
      BY <2>1, <3>1, <3>2, <3>3, <3>4 DEF Disposals
  <2>3. marks' \in [Receipts -> [tag : Tags, until : 0..MaxEpoch]]
        /\ \A s \in landed : marks'[s].tag # "none"
    BY <1>0, <2>1, <2>2
  <2>4. JournalTypeOK' /\ GuardHolds'
    BY Zenon, <1>0, <1>6, <2>3 DEF Settle, JournalTypeOK, GuardHolds, Resting
  <2> QED
    BY Zenon, <1>6, <1>a, <2>3, <2>4 DEF JournalInv, Settle
<1>7. CASE Fail
  BY <1>0, <1>7, <1>a DEF Fail, JournalInv, JournalTypeOK, GuardHolds, Resting
<1>8. CASE Advance
  BY <1>0, <1>8, <1>a DEF Advance, JournalInv, JournalTypeOK, GuardHolds
<1>9. CASE UNCHANGED journalVars
  BY <1>0, <1>9, <1>a DEF journalVars, JournalInv, JournalTypeOK, GuardHolds
<1> QED
  BY <1>1, <1>2, <1>3, <1>4, <1>5, <1>6, <1>7, <1>8, <1>9 DEF JournalNext

\* For any receipts, faults and clock: what is durable upstream has its marker
\* on disk.
THEOREM JournalSafe == JournalSpec => []LandedIsMarked
<1>1. JournalInv => LandedIsMarked
  BY DEF JournalInv
<1> QED
  BY <1>1, JournalInit_Inv, JournalStep, PTL DEF JournalSpec

\* For any receipts, faults and clock: guard never submits what has landed.
THEOREM GuardOnce == JournalSpec => GuardSubmitsOnce
<1>1. JournalInv /\ [JournalNext]_journalVars =>
        [\A r \in landed : ~(job.pc = "submit" /\ job.r = r /\ job'.pc = "settle")]_journalVars
  BY DEF JournalInv, GuardHolds
<1> QED
  BY <1>1, JournalInit_Inv, JournalStep, PTL DEF JournalSpec, GuardSubmitsOnce
-----------------------------------------------------------------------------
(* The commitments. *)

Values == (0..MaxU64) \cup {Unset}
Writes == [key : Kinds \X Owners, val : Values]
Removes(w) == w.key[1] = "commitment" /\ w.val = Unset
Sets(w) == w.key[1] # "commitment" /\ w.val # Unset

CommitTypes ==
  /\ rows \in [Kinds \X Owners -> (0..MaxU64) \cup {Unset, Corrupt}]
  /\ tick \in [block : 0..MaxU64, epoch : 0..MaxU64]
  /\ todo \in Seq(Writes)
  /\ asked \in [Owners -> SUBSET (0..MaxU64)] /\ gone \subseteq Owners

\* What the rest of a call may still do.  A gate or a refusal is set only
\* where the row is and stays; the row is removed only after whatever hangs
\* on it, and that is what the order of CommitmentSet::remove is for.
TodoOrdered ==
  \A i \in 1..Len(todo) :
    /\ \A j \in 1..Len(todo) : todo[i].key = todo[j].key => i = j
    /\ Sets(todo[i]) => /\ Registered(todo[i].key[2])
                        /\ \A j \in 1..Len(todo) : ~Removes(todo[j])
    /\ Removes(todo[i]) =>
         \A kind \in Kinds \ {"commitment"} :
           \/ rows[<<kind, todo[i].key[2]>>] = Unset
           \/ \E j \in 1..(i - 1) : todo[j] = Write(kind, todo[i].key[2], Unset)

\* A refusal on disk, or about to be, is a block DropOnRepeat was asked at.
RefusalAsked ==
  /\ \A c \in Owners : rows[<<"refused", c>>] \in 0..MaxU64 => rows[<<"refused", c>>] \in asked[c]
  /\ \A i \in 1..Len(todo) :
       (todo[i].key[1] = "refused" /\ todo[i].val # Unset) => todo[i].val \in asked[todo[i].key[2]]

CommitInv == CommitTypes /\ NoOrphan /\ TodoOrdered /\ RefusalAsked

\* A set of commitments begins without rows and with no call under way.
LEMMA CommitInit_Inv == CommitInit => CommitInv
<1> SUFFICES ASSUME CommitInit PROVE CommitInv
  OBVIOUS
<1>1. rows = [x \in Kinds \X Owners |-> Unset] /\ todo = <<>> /\ Len(todo) = 0
  BY DEF CommitInit
<1>2. CommitTypes
  BY <1>1, CommitmentsAssumption DEF CommitInit, CommitTypes
<1>3. NoOrphan
  BY <1>1 DEF NoOrphan
<1>4. TodoOrdered
  BY <1>1 DEF TodoOrdered
<1>5. \A c \in Owners : rows[<<"refused", c>>] = Unset
  BY <1>1 DEF Kinds
<1>6. RefusalAsked
  BY <1>1, <1>5, CommitmentsAssumption DEF RefusalAsked, Unset
<1> QED
  BY <1>2, <1>3, <1>4, <1>6 DEF CommitInv

\* A write names its row and its value.
LEMMA WriteFields == \A k, c, v : Write(k, c, v).key = <<k, c>> /\ Write(k, c, v).val = v
BY DEF Write

\* Every write is to a row of some commitment.
LEMMA WriteKey == ASSUME NEW w \in Writes PROVE \E k \in Kinds, c \in Owners : w.key = <<k, c>>
BY DEF Writes

\* The saturating addition of the gates stays within 64 bits.
LEMMA SatAddType == \A a \in Nat, b \in Nat : SatAdd(a, b) \in 0..MaxU64
BY CommitmentsAssumption DEF SatAdd

\* The next write of a call keeps the invariant.
LEMMA StoreWriteKeeps ==
  ASSUME CommitInv, StoreWrite
  PROVE  CommitInv'
<1> DEFINE h == todo[1]
<1>0. CommitTypes /\ NoOrphan /\ TodoOrdered /\ RefusalAsked
  BY DEF CommitInv
<1>1. /\ todo \in Seq(Writes) /\ Len(todo) \in Nat \ {0} /\ h \in Writes
      /\ Head(todo) = h /\ todo' = Tail(todo) /\ todo' \in Seq(Writes)
      /\ Len(todo') = Len(todo) - 1
      /\ \A i \in 1..Len(todo') : todo'[i] = todo[i + 1]
  BY <1>0 DEF StoreWrite, CommitTypes
<1>2. /\ h.key \in Kinds \X Owners /\ h.val \in Values
      /\ rows' = [rows EXCEPT ![h.key] = h.val]
  BY Zenon, <1>1 DEF StoreWrite, Writes
<1>3. PICK hk \in Kinds, hc \in Owners : h.key = <<hk, hc>>
  BY <1>2
<1>4. /\ rows'[<<hk, hc>>] = h.val
      /\ \A k \in Kinds, c \in Owners : <<k, c>> # <<hk, hc>> => rows'[<<k, c>>] = rows[<<k, c>>]
      /\ rows' \in [Kinds \X Owners -> (0..MaxU64) \cup {Unset, Corrupt}]
  BY <1>0, <1>2, <1>3 DEF CommitTypes, Values
<1>5. /\ asked' \in [Owners -> SUBSET (0..MaxU64)]
      /\ \A c \in Owners : h = Write("refused", c, Unset) \/ asked'[c] = asked[c]
      /\ \A c \in Owners : h = Write("refused", c, Unset) => asked'[c] = {}
  BY <1>0, <1>1 DEF StoreWrite, CommitTypes
<1>6. CommitTypes'
  BY <1>0, <1>1, <1>4, <1>5 DEF StoreWrite, CommitTypes
<1>7. NoOrphan'
  <2> SUFFICES ASSUME NEW c \in Owners, rows'[<<"commitment", c>>] = Unset,
                      NEW kind \in Kinds
               PROVE  rows'[<<kind, c>>] = Unset
    BY DEF NoOrphan, Registered
  <2>1. CASE <<"commitment", c>> # <<hk, hc>>
    <3>1. rows[<<"commitment", c>>] = Unset
      BY <1>4, <2>1 DEF Kinds
    <3>2. rows[<<kind, c>>] = Unset
      BY <1>0, <3>1 DEF NoOrphan, Registered
    <3>3. <<kind, c>> = <<hk, hc>> => h.val = Unset
      BY <1>0, <1>1, <1>3, <2>1, <3>1 DEF TodoOrdered, Sets, Registered
    <3> QED
      BY <1>4, <3>2, <3>3
  <2>2. CASE <<"commitment", c>> = <<hk, hc>>
    <3>1. h.val = Unset /\ Removes(h)
      BY <1>3, <1>4, <2>2 DEF Removes
    <3>2. \A k \in Kinds \ {"commitment"} : rows[<<k, c>>] = Unset
      BY <1>0, <1>1, <1>3, <2>2, <3>1 DEF TodoOrdered
    <3> QED
      BY <1>4, <2>2, <3>1, <3>2
  <2> QED
    BY <2>1, <2>2
<1>8. TodoOrdered'
  <2> SUFFICES ASSUME NEW i \in 1..Len(todo')
               PROVE  /\ \A j \in 1..Len(todo') : todo'[i].key = todo'[j].key => i = j
                      /\ Sets(todo'[i]) => /\ rows'[<<"commitment", todo'[i].key[2]>>] # Unset
                                           /\ \A j \in 1..Len(todo') : ~Removes(todo'[j])
                      /\ Removes(todo'[i]) =>
                           \A kind \in Kinds \ {"commitment"} :
                             \/ rows'[<<kind, todo'[i].key[2]>>] = Unset
                             \/ \E j \in 1..(i - 1) :
                                  todo'[j] = Write(kind, todo'[i].key[2], Unset)
    BY Zenon DEF TodoOrdered, Registered, Sets, Removes, Write
  <2>1. /\ todo'[i] = todo[i + 1] /\ i + 1 \in 1..Len(todo) /\ 1 \in 1..Len(todo)
        /\ \A j \in 1..Len(todo') : todo'[j] = todo[j + 1] /\ j + 1 \in 1..Len(todo)
    BY <1>1
  <2>2. PICK k \in Kinds, c \in Owners : todo[i + 1].key = <<k, c>>
    <3>1. todo[i + 1] \in Writes
      BY <1>1, <2>1
    <3> QED
      BY <3>1, WriteKey
  <2>3. \A j \in 1..Len(todo') : todo'[i].key = todo'[j].key => i = j
    BY <1>0, <2>1 DEF TodoOrdered
  <2>4. ASSUME Sets(todo'[i])
        PROVE  /\ rows'[<<"commitment", todo'[i].key[2]>>] # Unset
               /\ \A j \in 1..Len(todo') : ~Removes(todo'[j])
    <3>0. Sets(todo[i + 1]) /\ todo[i + 1].key[2] = c
      BY <2>1, <2>2, <2>4
    <3>1. /\ rows[<<"commitment", c>>] # Unset
          /\ \A j \in 1..Len(todo) : ~Removes(todo[j])
      <4>1. /\ Registered(todo[i + 1].key[2])
            /\ \A j \in 1..Len(todo) : ~Removes(todo[j])
        BY <1>0, <2>1, <3>0, Zenon DEF TodoOrdered
      <4> QED
        BY <3>0, <4>1 DEF Registered
    <3>2. ~Removes(h)
      BY <2>1, <3>1
    <3>3. rows'[<<"commitment", c>>] # Unset
      BY <1>3, <1>4, <3>1, <3>2 DEF Removes, Kinds
    <3> QED
      BY <2>1, <2>2, <3>1, <3>3
  <2>5. ASSUME Removes(todo'[i]), NEW kind \in Kinds \ {"commitment"}
        PROVE  \/ rows'[<<kind, todo'[i].key[2]>>] = Unset
               \/ \E j \in 1..(i - 1) : todo'[j] = Write(kind, todo'[i].key[2], Unset)
    <3>1. Removes(todo[i + 1]) /\ todo'[i].key[2] = c
      BY <2>1, <2>2, <2>5
    <3>2. ~Sets(h)
      BY <1>0, <2>1, <3>1 DEF TodoOrdered
    <3>3. CASE rows[<<kind, c>>] = Unset
      BY <1>3, <1>4, <3>1, <3>2, <3>3 DEF Sets
    <3>4. CASE \E j \in 1..((i + 1) - 1) : todo[j] = Write(kind, c, Unset)
      <4>1. PICK j \in 1..i : todo[j] = Write(kind, c, Unset)
        BY <3>4
      <4>2. CASE j = 1
        <5>1. <<hk, hc>> = <<kind, c>> /\ h.val = Unset
          BY <1>3, <4>1, <4>2 DEF Write
        <5> QED
          BY <1>4, <3>1, <5>1
      <4>3. CASE j # 1
        <5>1. j - 1 \in 1..(i - 1) /\ j - 1 \in 1..Len(todo') /\ todo'[j - 1] = todo[j]
          BY <1>1, <2>1, <4>3
        <5> QED
          BY <3>1, <4>1, <5>1
      <4> QED
        BY <4>2, <4>3
    <3>5. \/ rows[<<kind, c>>] = Unset
          \/ \E j \in 1..((i + 1) - 1) : todo[j] = Write(kind, c, Unset)
      <4>1. todo[i + 1].key[2] = c
        BY <2>2
      <4>2. \A kd \in Kinds \ {"commitment"} :
              \/ rows[<<kd, todo[i + 1].key[2]>>] = Unset
              \/ \E j \in 1..((i + 1) - 1) : todo[j] = Write(kd, todo[i + 1].key[2], Unset)
        BY <1>0, <2>1, <3>1, Zenon DEF TodoOrdered
      <4> QED
        BY <4>1, <4>2
    <3> QED
      BY <3>3, <3>4, <3>5
  <2> QED
    BY <2>3, <2>4, <2>5
<1>9. RefusalAsked'
  <2>1. ASSUME NEW c \in Owners, rows'[<<"refused", c>>] \in 0..MaxU64
        PROVE  rows'[<<"refused", c>>] \in asked'[c]
    <3>1. CASE <<"refused", c>> = <<hk, hc>>
      <4>1. h.val # Unset /\ h.val = rows'[<<"refused", c>>]
        BY <1>4, <2>1, <3>1, CommitmentsAssumption DEF Unset
      <4>2. h.key[1] = "refused" /\ h.key[2] = c
        BY <1>3, <3>1
      <4>3. h.val \in asked[c]
        BY <1>0, <1>1, <4>1, <4>2 DEF RefusalAsked
      <4>4. asked'[c] = asked[c]
        BY <1>5, <4>1, WriteFields
      <4> QED
        BY <4>1, <4>3, <4>4
    <3>2. CASE <<"refused", c>> # <<hk, hc>>
      <4>1. rows'[<<"refused", c>>] = rows[<<"refused", c>>]
        BY <1>4, <3>2 DEF Kinds
      <4>2. asked'[c] = asked[c]
        BY <1>3, <1>5, <3>2, WriteFields
      <4> QED
        BY <1>0, <2>1, <4>1, <4>2 DEF RefusalAsked
    <3> QED
      BY <3>1, <3>2
  <2>2. ASSUME NEW i \in 1..Len(todo'), todo'[i].key[1] = "refused", todo'[i].val # Unset
        PROVE  todo'[i].val \in asked'[todo'[i].key[2]]
    <3>1. todo'[i] = todo[i + 1] /\ i + 1 \in 1..Len(todo) /\ 1 \in 1..Len(todo) /\ i + 1 # 1
      BY <1>1
    <3>2. PICK c \in Owners : todo[i + 1].key = <<"refused", c>>
      <4>1. todo[i + 1] \in Writes
        BY <1>1, <3>1
      <4>2. PICK k \in Kinds, c \in Owners : todo[i + 1].key = <<k, c>>
        BY <4>1, WriteKey
      <4> QED
        BY <2>2, <3>1, <4>2
    <3>3. todo[i + 1].val \in asked[c]
      BY <1>0, <2>2, <3>1, <3>2 DEF RefusalAsked
    <3>4. h.key # <<"refused", c>>
      BY <1>0, <3>1, <3>2 DEF TodoOrdered
    <3>5. asked'[c] = asked[c]
      BY <1>5, <3>4, WriteFields
    <3> QED
      BY <3>1, <3>2, <3>3, <3>5
  <2> QED
    BY <2>1, <2>2 DEF RefusalAsked
<1> QED
  BY <1>6, <1>7, <1>8, <1>9 DEF CommitInv

\* A call of one write begins: not a removal, and a gate or a refusal only
\* where the row is.
LEMMA CallOfOne ==
  ASSUME CommitInv, NEW w \in Writes, todo' = <<w>>, rows' = rows, tick' = tick,
         asked' = asked, gone' \subseteq Owners,
         ~Removes(w), Sets(w) => Registered(w.key[2]),
         w.key[1] = "refused" => w.val = Unset
  PROVE  CommitInv'
<1>0. CommitTypes /\ NoOrphan /\ TodoOrdered /\ RefusalAsked
  BY DEF CommitInv
<1>1. todo' \in Seq(Writes) /\ Len(todo') = 1 /\ todo'[1] = w
  OBVIOUS
<1>2. \A i \in 1..Len(todo') : i = 1 /\ todo'[i] = w
  BY <1>1
<1>3. CommitTypes' /\ NoOrphan'
  BY <1>0, <1>1 DEF CommitTypes, NoOrphan, Registered
<1>4. TodoOrdered'
  BY <1>2 DEF TodoOrdered, Registered, Sets, Removes
<1>5. RefusalAsked'
  BY <1>0, <1>2 DEF RefusalAsked
<1> QED
  BY <1>3, <1>4, <1>5 DEF CommitInv

\* The removal of a commitment begins.
LEMMA CallOfRemove ==
  ASSUME CommitInv, NEW c \in Owners, todo' = RemoveWrites(c), rows' = rows, tick' = tick,
         asked' \in [Owners -> SUBSET (0..MaxU64)], \A o \in Owners : asked[o] \subseteq asked'[o],
         gone' \subseteq Owners
  PROVE  CommitInv'
<1>0. CommitTypes /\ NoOrphan /\ TodoOrdered /\ RefusalAsked
  BY DEF CommitInv
<1> DEFINE w1 == Write("next_block", c, Unset)
           w2 == Write("next_epoch", c, Unset)
           w3 == Write("refused", c, Unset)
           w4 == Write("commitment", c, Unset)
<1>1. {w1, w2, w3, w4} \subseteq Writes
  BY DEF Write, Writes, Values, Kinds
<1>2. /\ w1.key = <<"next_block", c>> /\ w2.key = <<"next_epoch", c>>
      /\ w3.key = <<"refused", c>> /\ w4.key = <<"commitment", c>>
      /\ w1.val = Unset /\ w2.val = Unset /\ w3.val = Unset /\ w4.val = Unset
  BY WriteFields
<1>3. todo' = <<w1, w2, w3, w4>>
  BY DEF RemoveWrites
<1> HIDE DEF w1, w2, w3, w4
<1>4. /\ todo' \in Seq(Writes) /\ Len(todo') = 4
      /\ todo'[1] = w1 /\ todo'[2] = w2 /\ todo'[3] = w3 /\ todo'[4] = w4
  BY <1>1, <1>3
<1>5. \A i \in 1..Len(todo') : i \in {1, 2, 3, 4} /\ todo'[i].val = Unset /\ todo'[i].key[2] = c
  BY <1>2, <1>4
<1>6. CommitTypes' /\ NoOrphan'
  BY <1>0, <1>4 DEF CommitTypes, NoOrphan, Registered
<1>7. TodoOrdered'
  <2>1. \A i, j \in 1..Len(todo') : todo'[i].key = todo'[j].key => i = j
    BY <1>2, <1>4, <1>5
  <2>2. \A i \in 1..Len(todo') : ~Sets(todo'[i])
    BY <1>5 DEF Sets
  <2>3. \A i \in 1..Len(todo') : Removes(todo'[i]) => i = 4
    BY <1>2, <1>4, <1>5 DEF Removes
  <2>4. \A kind \in Kinds \ {"commitment"} : \E j \in 1..3 : todo'[j] = Write(kind, c, Unset)
    <3>1. todo'[1] = Write("next_block", c, Unset) /\ todo'[2] = Write("next_epoch", c, Unset)
          /\ todo'[3] = Write("refused", c, Unset)
      BY <1>4 DEF w1, w2, w3
    <3> QED
      BY <3>1 DEF Kinds
  <2>5. \A i \in 1..Len(todo') : Removes(todo'[i]) =>
          \A kind \in Kinds \ {"commitment"} :
            \E j \in 1..(i - 1) : todo'[j] = Write(kind, todo'[i].key[2], Unset)
    BY <1>5, <2>3, <2>4
  <2> QED
    BY <2>1, <2>2, <2>5 DEF TodoOrdered, Sets, Removes, Registered, Write
<1>8. RefusalAsked'
  BY <1>0, <1>5 DEF RefusalAsked
<1> QED
  BY <1>6, <1>7, <1>8 DEF CommitInv

\* The first refusal is recorded, and the next block waited for.
LEMMA CallOfRefusal ==
  ASSUME CommitInv, NEW c \in Owners, Registered(c), NEW b \in 0..MaxU64, NEW n \in 0..MaxU64,
         todo' = <<Write("refused", c, b), Write("next_block", c, n)>>,
         rows' = rows, tick' = tick,
         asked' = [asked EXCEPT ![c] = @ \cup {b}], gone' \subseteq Owners
  PROVE  CommitInv'
<1>0. CommitTypes /\ NoOrphan /\ TodoOrdered /\ RefusalAsked
  BY DEF CommitInv
<1> DEFINE w1 == Write("refused", c, b)
           w2 == Write("next_block", c, n)
<1>1. w1 \in Writes /\ w2 \in Writes
  BY DEF Write, Writes, Values, Kinds
<1>2. /\ w1.key = <<"refused", c>> /\ w2.key = <<"next_block", c>>
      /\ w1.val = b /\ w2.val = n
  BY WriteFields
<1>3. todo' = <<w1, w2>>
  OBVIOUS
<1> HIDE DEF w1, w2
<1>4. todo' \in Seq(Writes) /\ Len(todo') = 2 /\ todo'[1] = w1 /\ todo'[2] = w2
  BY <1>1, <1>3
<1>5. /\ asked' \in [Owners -> SUBSET (0..MaxU64)] /\ b \in asked'[c]
      /\ \A o \in Owners : asked[o] \subseteq asked'[o]
  BY <1>0 DEF CommitTypes
<1>6. CommitTypes' /\ NoOrphan'
  BY <1>0, <1>4, <1>5 DEF CommitTypes, NoOrphan, Registered
<1>7. \A i \in 1..Len(todo') : /\ i \in {1, 2} /\ todo'[i].key[2] = c
                              /\ todo'[i].key[1] # "commitment"
  BY <1>2, <1>4
<1>8. TodoOrdered'
  <2>1. \A i, j \in 1..Len(todo') : todo'[i].key = todo'[j].key => i = j
    BY <1>2, <1>4, <1>7
  <2>2. \A i \in 1..Len(todo') : ~Removes(todo'[i])
    BY <1>7 DEF Removes
  <2>3. rows'[<<"commitment", c>>] # Unset
    BY DEF Registered
  <2> QED
    BY <1>7, <2>1, <2>2, <2>3 DEF TodoOrdered, Sets, Removes, Registered
<1>9. RefusalAsked'
  <2>1. \A i \in 1..Len(todo') : todo'[i].key[1] = "refused" => i = 1
    BY <1>2, <1>4, <1>7
  <2>2. \A o \in Owners : rows'[<<"refused", o>>] \in 0..MaxU64 => rows'[<<"refused", o>>] \in asked'[o]
    BY <1>0, <1>5 DEF RefusalAsked
  <2>3. \A i \in 1..Len(todo') :
          todo'[i].key[1] = "refused" => todo'[i].val \in asked'[todo'[i].key[2]]
    BY <1>2, <1>4, <1>5, <1>7, <2>1
  <2> QED
    BY <2>2, <2>3 DEF RefusalAsked
<1> QED
  BY <1>6, <1>8, <1>9 DEF CommitInv

\* A step that leaves the rows alone and no write to make.
LEMMA NothingLeft ==
  ASSUME CommitInv, todo' = <<>>, rows' = rows,
         tick' \in [block : 0..MaxU64, epoch : 0..MaxU64],
         asked' \in [Owners -> SUBSET (0..MaxU64)], \A o \in Owners : asked[o] \subseteq asked'[o],
         gone' \subseteq Owners
  PROVE  CommitInv'
<1>0. CommitTypes /\ NoOrphan /\ TodoOrdered /\ RefusalAsked
  BY DEF CommitInv
<1>1. todo' \in Seq(Writes) /\ Len(todo') = 0 /\ \A i \in 1..Len(todo') : FALSE
  OBVIOUS
<1>2. CommitTypes' /\ NoOrphan'
  BY <1>0, <1>1 DEF CommitTypes, NoOrphan, Registered
<1>3. TodoOrdered'
  BY <1>1 DEF TodoOrdered
<1>4. RefusalAsked'
  BY <1>0, <1>1 DEF RefusalAsked
<1> QED
  BY <1>2, <1>3, <1>4 DEF CommitInv

\* Every call, write, fault and death keeps the invariant.
LEMMA CommitStep ==
  ASSUME CommitInv, [CommitNext]_commitVars
  PROVE  CommitInv'
<1> USE CommitmentsAssumption
<1>0. /\ rows \in [Kinds \X Owners -> (0..MaxU64) \cup {Unset, Corrupt}]
      /\ tick \in [block : 0..MaxU64, epoch : 0..MaxU64]
      /\ tick.block \in 0..MaxU64 /\ tick.epoch \in 0..MaxU64
      /\ asked \in [Owners -> SUBSET (0..MaxU64)] /\ gone \subseteq Owners
  BY DEF CommitInv, CommitTypes
<1>b. SatAdd(tick.block, 1) \in 0..MaxU64 /\ SatAdd(tick.epoch, 1) \in 0..MaxU64
  BY <1>0 DEF SatAdd
<1>1. ASSUME NEW c \in Owners, PutCommitment(c) PROVE CommitInv'
  <2> DEFINE w == Write("commitment", c, 0)
  <2>1. w \in Writes
    BY DEF Write, Writes, Kinds, Values
  <2>2. ~Removes(w) /\ ~Sets(w) /\ w.key[1] # "refused"
    BY WriteFields DEF Removes, Sets, Unset
  <2>3. /\ todo' = <<w>> /\ rows' = rows /\ tick' = tick /\ asked' = asked
        /\ gone' \subseteq Owners
    BY <1>0, <1>1 DEF PutCommitment
  <2> HIDE DEF w
  <2> QED
    BY <2>1, <2>2, <2>3, CallOfOne
<1>2. ASSUME NEW c \in Owners, Poll(c) PROVE CommitInv'
  <2>0. todo = <<>> /\ Registered(c) /\ rows' = rows /\ tick' = tick
    BY <1>2 DEF Poll
  <2>1. CASE TryNextBlock(c)
    BY <1>0, <2>0, <2>1, NothingLeft DEF TryNextBlock
  <2>2. ASSUME NEW s \in Delays, Backoff(c, s) PROVE CommitInv'
    <3> DEFINE w == Write("next_epoch", c, SatAdd(tick.epoch, s))
    <3>1. SatAdd(tick.epoch, s) \in 0..MaxU64
      BY <1>0, SatAddType
    <3>2. w \in Writes
      BY <3>1 DEF Write, Writes, Kinds, Values
    <3>3. w.key[1] # "refused" /\ ~Removes(w) /\ Registered(w.key[2])
      BY <2>0, WriteFields DEF Removes
    <3>4. todo' = <<w>> /\ asked' = asked /\ gone' \subseteq Owners
      BY <1>0, <2>2 DEF Backoff
    <3> HIDE DEF w
    <3> QED
      BY <2>0, <3>2, <3>3, <3>4, CallOfOne
  <2>3. CASE DropOnRepeat(c)
    <3> DEFINE first == ReadU64("refused", c)
    <3>1. gone' \subseteq Owners /\ asked' = [asked EXCEPT ![c] = @ \cup {tick.block}]
      BY <1>0, <2>3 DEF DropOnRepeat
    <3>2. asked' \in [Owners -> SUBSET (0..MaxU64)] /\ \A o \in Owners : asked[o] \subseteq asked'[o]
      BY <1>0, <3>1
    <3>3. CASE first = Unset
      <4>1. todo' = <<Write("refused", c, tick.block),
                      Write("next_block", c, SatAdd(tick.block, 1))>>
        BY <2>3, <3>3 DEF DropOnRepeat
      <4> QED
        BY Zenon, <1>0, <1>b, <2>0, <3>1, <4>1, CallOfRefusal
    <3>4. CASE first # Unset /\ tick.block > first
      <4>1. todo' = RemoveWrites(c)
        BY <2>3, <3>4 DEF DropOnRepeat
      <4> QED
        BY <2>0, <3>1, <3>2, <4>1, CallOfRemove
    <3>5. CASE first # Unset /\ ~(tick.block > first)
      <4>1. todo' = <<>>
        BY <2>3, <3>5 DEF DropOnRepeat
      <4> QED
        BY <1>0, <2>0, <3>1, <3>2, <4>1, NothingLeft
    <3> QED
      BY <3>3, <3>4, <3>5
  <2>4. CASE DropIt(c)
    BY <1>0, <2>0, <2>4, CallOfRemove DEF DropIt
  <2> QED
    BY <1>2, <2>1, <2>2, <2>3, <2>4 DEF Poll
<1>3. ASSUME NEW c \in Owners, ClearRefusal(c) PROVE CommitInv'
  <2> DEFINE w == Write("refused", c, Unset)
  <2>1. w \in Writes
    BY DEF Write, Writes, Kinds, Values
  <2>2. ~Removes(w) /\ ~Sets(w) /\ w.val = Unset
    BY WriteFields DEF Removes, Sets
  <2>3. /\ todo' = <<w>> /\ rows' = rows /\ tick' = tick /\ asked' = asked
        /\ gone' \subseteq Owners
    BY <1>0, <1>3 DEF ClearRefusal
  <2> HIDE DEF w
  <2> QED
    BY <2>1, <2>2, <2>3, CallOfOne
<1>4. ASSUME NEW kind \in Kinds, NEW c \in Owners, DamageRow(kind, c) PROVE CommitInv'
  <2>0. NoOrphan /\ RefusalAsked /\ CommitTypes
    BY DEF CommitInv
  <2>1. /\ rows' = [rows EXCEPT ![<<kind, c>>] = Corrupt] /\ kind # "commitment"
        /\ rows[<<kind, c>>] # Unset /\ <<kind, c>> \in Kinds \X Owners
        /\ todo' = <<>> /\ Len(todo') = 0 /\ todo' \in Seq(Writes)
    BY <1>4 DEF DamageRow
  <2>2. /\ rows'[<<kind, c>>] = Corrupt
        /\ \A k \in Kinds, o \in Owners : <<k, o>> # <<kind, c>> => rows'[<<k, o>>] = rows[<<k, o>>]
        /\ rows' \in [Kinds \X Owners -> (0..MaxU64) \cup {Unset, Corrupt}]
    BY <1>0, <2>1
  <2>3. Registered(c)
    BY <2>0, <2>1 DEF NoOrphan
  <2>4. NoOrphan'
    <3> SUFFICES ASSUME NEW o \in Owners, rows'[<<"commitment", o>>] = Unset, NEW k \in Kinds
                 PROVE  rows'[<<k, o>>] = Unset
      BY DEF NoOrphan, Registered
    <3>1. rows[<<"commitment", o>>] = Unset
      BY <2>1, <2>2 DEF Kinds
    <3>2. o # c
      BY <2>3, <3>1 DEF Registered
    <3>3. rows[<<k, o>>] = Unset
      BY <2>0, <3>1 DEF NoOrphan, Registered
    <3> QED
      BY <2>2, <3>2, <3>3
  <2>5. CommitTypes'
    <3>1. tick' = tick /\ asked' = asked /\ gone' = gone
      BY <1>4 DEF DamageRow
    <3> QED
      BY <2>0, <2>1, <2>2, <3>1 DEF CommitTypes
  <2>6. TodoOrdered'
    BY <2>1 DEF TodoOrdered
  <2>7. RefusalAsked'
    <3>1. asked' = asked
      BY <1>4 DEF DamageRow
    <3>2. ASSUME NEW o \in Owners, rows'[<<"refused", o>>] \in 0..MaxU64
          PROVE  rows'[<<"refused", o>>] \in asked[o]
      <4>1. <<"refused", o>> # <<kind, c>>
        BY <2>2, <3>2 DEF Corrupt
      <4>2. rows'[<<"refused", o>>] = rows[<<"refused", o>>]
        BY <2>2, <4>1 DEF Kinds
      <4> QED
        BY <2>0, <3>2, <4>2 DEF RefusalAsked
    <3> QED
      BY <2>1, <3>1, <3>2 DEF RefusalAsked
  <2> QED
    BY <2>4, <2>5, <2>6, <2>7 DEF CommitInv
<1>5. CASE StoreWrite
  BY <1>5, StoreWriteKeeps
<1>6. CASE Fault
  BY <1>0, <1>6, NothingLeft DEF Fault
<1>7. CASE Dispatch
  <2>1. tick' \in [block : 0..MaxU64, epoch : 0..MaxU64]
    BY <1>0, <1>7, <1>b DEF Dispatch
  <2>2. todo' = <<>> /\ rows' = rows /\ asked' = asked /\ gone' = gone
    BY <1>7 DEF Dispatch
  <2> QED
    BY <1>0, <2>1, <2>2, NothingLeft
<1>8. CASE UNCHANGED commitVars
  <2>1. /\ rows' = rows /\ todo' = todo /\ tick' = tick /\ asked' = asked /\ gone' = gone
    BY <1>8 DEF commitVars
  <2>2. CommitTypes' /\ NoOrphan'
    BY <2>1 DEF CommitInv, CommitTypes, NoOrphan, Registered
  <2>3. TodoOrdered'
    BY <2>1 DEF CommitInv, TodoOrdered, Registered, Sets, Removes, Write
  <2>4. RefusalAsked'
    BY <2>1 DEF CommitInv, RefusalAsked
  <2> QED
    BY <2>2, <2>3, <2>4 DEF CommitInv
<1> QED
  BY <1>1, <1>2, <1>3, <1>4, <1>5, <1>6, <1>7, <1>8 DEF CommitNext

\* For any owners and any faults: no gate and no refusal outlives its row.
THEOREM CommitmentsClean == CommitSpec => []NoOrphan
<1>1. CommitInv => NoOrphan
  BY DEF CommitInv
<1> QED
  BY <1>1, CommitInit_Inv, CommitStep, PTL DEF CommitSpec

\* For any owners and any faults: DropOnRepeat removes only what was refused
\* at an earlier block.
THEOREM GraceKept == CommitSpec => GraceGranted
<1>1. CommitInv /\ [CommitNext]_commitVars =>
        [\A c \in gone' \ gone : \E b \in asked[c] : b < tick.block]_commitVars
  <2> SUFFICES ASSUME CommitInv, CommitNext, NEW c \in gone' \ gone
               PROVE  \E b \in asked[c] : b < tick.block
    OBVIOUS
  <2>1. PICK o \in Owners : Poll(o) /\ DropOnRepeat(o)
    BY Zenon DEF CommitNext, PutCommitment, Poll, ClearRefusal, StoreWrite, Fault, DamageRow,
           Dispatch, TryNextBlock, Backoff, DropIt
  <2> DEFINE first == ReadU64("refused", o)
  <2>2. c = o /\ first # Unset /\ tick.block > first
    BY <2>1 DEF DropOnRepeat
  <2>3. first = rows[<<"refused", o>>] /\ first # Corrupt
    BY <2>2 DEF ReadU64, Unset, Corrupt
  <2>4. first \in 0..MaxU64
    BY <2>2, <2>3 DEF CommitInv, CommitTypes, Kinds
  <2>5. first \in asked[c]
    BY <2>2, <2>3, <2>4 DEF CommitInv, RefusalAsked
  <2>6. tick.block \in 0..MaxU64
    BY DEF CommitInv, CommitTypes
  <2> QED
    BY <2>2, <2>4, <2>5, <2>6
<1> QED
  BY <1>1, CommitInit_Inv, CommitStep, PTL DEF CommitSpec, GraceGranted

-----------------------------------------------------------------------------
(* A guest's reads of a chain. *)

Held == [size : Nat, value : Readings]
Rpcs == [phase : {"none", "wire", "heard", "save"}, waited : 0 .. Timeout,
         tries : 0 .. MaxRetries, verdict : Verdicts \cup {"none"}, body : Held]
Guests == [prog : {"none", "tracker", "packet", "raw"}, requests : Seq(Request),
           at : Nat \ {0}, answers : Seq(Verdicts), fault : SUBSET Nat]
Rows == {Tracked[i] : i \in DOMAIN Tracked}
Permitted(r) == r.method \in ChainMethod /\ r.chain \in Configured /\ r.json

\* The request under way: within its deadline and its retries, and a body the
\* guest hears within the cap.
RpcHolds ==
  /\ rpc \in Rpcs
  /\ rpc.phase = "heard" => rpc.verdict \in Verdicts
  /\ rpc.verdict = "ok" => rpc.body.size <= ResponseCap

\* The guest: a packet has one answer for each request so far, or a fault behind
\* which it asks for nothing more.
GuestHolds ==
  /\ caller \in Guests
  /\ caller.prog = "packet" =>
       /\ \A k \in DOMAIN caller.answers : caller.answers[k] \notin Faults
       /\ \A k \in caller.fault :
            Len(caller.answers) = k - 1 /\ caller.at = Len(caller.requests) + 1
       /\ caller.fault = {} => Len(caller.answers) = caller.at - 1

\* The two together: a request is under way only for the guest's current one,
\* on the wire only if that one may be, and while a reading is about to be saved
\* its alert is the one of that very row and reading.
CallHolds ==
  /\ rpc.phase # "none" => Unanswered
  /\ rpc.phase = "wire" => Permitted(Current)
  /\ rpc.phase = "save" =>
       /\ caller.prog = "tracker"
       /\ \A c \in rpc.body.value : said = Moved(Tracked[caller.at], c)

ReadInv == RpcHolds /\ GuestHolds /\ CallHolds /\ saved \in [Rows -> Readings]

\* The values a request takes: none, on the wire, or heard with its verdict.
LEMMA HeardRpc ==
  /\ NoRpc \in Rpcs /\ NoRpc.phase = "none" /\ NoRpc.verdict = "none" /\ NoBody \in Held
  /\ [NoRpc EXCEPT !.phase = "wire"] \in Rpcs
  /\ [NoRpc EXCEPT !.phase = "wire"].phase = "wire"
  /\ [NoRpc EXCEPT !.phase = "wire"].verdict = "none"
  /\ \A v \in Verdicts, b \in Held :
       /\ Heard(v, b) \in Rpcs /\ Heard(v, b).phase = "heard"
       /\ Heard(v, b).verdict = v /\ Heard(v, b).body = b
<1>1. NoBody \in Held
  BY DEF NoBody, Held, Readings
<1>2. Timeout \in Nat /\ MaxRetries \in Nat
  BY ChainReadAssumption
<1> HIDE DEF Held
<1>3. NoRpc \in Rpcs /\ NoRpc.phase = "none" /\ NoRpc.verdict = "none"
  BY <1>1, <1>2 DEF NoRpc, Rpcs
<1>4. /\ [NoRpc EXCEPT !.phase = "wire"] \in Rpcs
      /\ [NoRpc EXCEPT !.phase = "wire"].phase = "wire"
      /\ [NoRpc EXCEPT !.phase = "wire"].verdict = "none"
  BY <1>1, <1>2 DEF NoRpc, Rpcs
<1>5. ASSUME NEW v \in Verdicts, NEW b \in Held
      PROVE  /\ Heard(v, b) \in Rpcs /\ Heard(v, b).phase = "heard"
             /\ Heard(v, b).verdict = v /\ Heard(v, b).body = b
  BY <1>2 DEF Heard, Rpcs
<1> QED BY <1>1, <1>3, <1>4, <1>5

\* What refuses no request lets through only what the wire may carry.
LEMMA Allowed ==
  ASSUME NEW r, Refusal(r) = {}
  PROVE  Permitted(r)
<1>1. CASE r.method \notin ChainMethod
  BY <1>1 DEF Refusal
<1>2. CASE r.method \in ChainMethod /\ r.chain \notin Configured
  BY <1>2 DEF Refusal
<1>3. CASE r.method \in ChainMethod /\ r.chain \in Configured /\ ~r.json
  BY <1>3 DEF Refusal
<1> QED BY <1>1, <1>2, <1>3 DEF Permitted

\* The fault of a refused request is a verdict.
LEMMA Refused ==
  ASSUME NEW r, NEW v \in Refusal(r)
  PROVE  v \in Verdicts /\ v # "ok"
BY DEF Refusal, Verdicts, Faults

\* A step of the request alone: its guest waits for it.
LEMMA WireOnly ==
  ASSUME ReadInv, RpcHolds', UNCHANGED <<caller, saved, said, runs>>,
         rpc'.phase \in {"none", "wire", "heard"},
         rpc'.phase # "none" => Unanswered,
         rpc'.phase = "wire" => Permitted(Current)
  PROVE  ReadInv'
<1>1. GuestHolds'
  BY DEF ReadInv, GuestHolds
<1>2. Unanswered' = Unanswered
  BY DEF Unanswered
<1>3. Permitted(Current)' = Permitted(Current)
  BY DEF Permitted, Current
<1>4. CallHolds'
  BY <1>2, <1>3 DEF CallHolds
<1> QED BY <1>1, <1>4 DEF ReadInv

\* A step that leaves no request under way.
LEMMA RpcOver ==
  ASSUME rpc' = NoRpc
  PROVE  RpcHolds' /\ CallHolds'
BY HeardRpc DEF RpcHolds, CallHolds

\* A guest begins a program: on_block, a packet or a raw request.
LEMMA Starts ==
  ASSUME ReadInv, NEW prog \in {"tracker", "packet", "raw"}, NEW reqs \in Seq(Request),
         Start(prog, reqs)
  PROVE  ReadInv'
<1>1. caller' = [prog |-> prog, requests |-> reqs, at |-> 1, answers |-> <<>>, fault |-> {}]
  BY DEF Start, NoGuest
<1>2. caller' \in Guests
  BY <1>1 DEF Guests
<1>3. GuestHolds'
  BY <1>1, <1>2 DEF GuestHolds
<1>4. rpc.phase = "none"
  BY DEF Start, ReadInv, CallHolds, Unanswered
<1>5. RpcHolds' /\ CallHolds'
  BY <1>4 DEF Start, ReadInv, RpcHolds, CallHolds
<1> QED BY <1>3, <1>5 DEF ReadInv, Start

\* The requests of each program are a sequence of requests.
LEMMA StartsKeep ==
  ASSUME ReadInv, OnBlock \/ SendPacket \/ RawRequest
  PROVE  ReadInv'
<1>1. CASE OnBlock
  <2>1. PICK c \in Configured :
          Start("tracker", [i \in DOMAIN Tracked |->
                             [chain |-> c, method |-> "eth_getBalance", json |-> TRUE]])
    BY <1>1 DEF OnBlock
  <2>2. [chain |-> c, method |-> "eth_getBalance", json |-> TRUE] \in Request
    BY ChainReadAssumption DEF Request
  <2>3. DOMAIN Tracked = 1 .. Len(Tracked) /\ Len(Tracked) \in Nat
    BY ChainReadAssumption
  <2>4. [i \in DOMAIN Tracked |->
           [chain |-> c, method |-> "eth_getBalance", json |-> TRUE]] \in Seq(Request)
    BY <2>2, <2>3
  <2> QED BY <2>1, <2>4, Starts
<1>2. CASE SendPacket
  <2>1. PICK c \in Chains, n \in 1 .. MaxPacket : \E ms \in [1 .. n -> Methods] :
          Start("packet", [i \in 1 .. n |-> [chain |-> c, method |-> ms[i], json |-> TRUE]])
    BY <1>2 DEF SendPacket
  <2>2. PICK ms \in [1 .. n -> Methods] :
          Start("packet", [i \in 1 .. n |-> [chain |-> c, method |-> ms[i], json |-> TRUE]])
    BY <2>1
  <2>3. \A i \in 1 .. n : [chain |-> c, method |-> ms[i], json |-> TRUE] \in Request
    BY DEF Request
  <2>4. n \in Nat
    BY ChainReadAssumption
  <2>5. [i \in 1 .. n |-> [chain |-> c, method |-> ms[i], json |-> TRUE]] \in Seq(Request)
    BY <2>3, <2>4
  <2> QED BY <2>2, <2>5, Starts
<1>3. CASE RawRequest
  <2>1. PICK r \in Request : Start("raw", <<r>>)
    BY <1>3 DEF RawRequest
  <2>2. <<r>> \in Seq(Request)
    OBVIOUS
  <2> QED BY <2>1, <2>2, Starts
<1> QED BY <1>1, <1>2, <1>3

\* The request reaches the wire, or is answered before it.
LEMMA IssueKeeps ==
  ASSUME ReadInv, Issue
  PROVE  ReadInv'
<1>1. ASSUME NEW v \in Verdicts, v # "ok", rpc' = Heard(v, NoBody)
      PROVE  ReadInv'
  <2>1. RpcHolds' /\ rpc'.phase = "heard"
    BY <1>1, HeardRpc DEF RpcHolds
  <2> QED BY <2>1, WireOnly DEF Issue
<1>2. CASE OutsideSurface
  BY <1>1, <1>2 DEF Issue, Verdicts
<1>3. CASE ~OutsideSurface /\ Refusal(Current) # {}
  <2>1. PICK v \in Refusal(Current) : rpc' = Heard(v, NoBody)
    BY <1>3 DEF Issue
  <2> QED BY <1>1, <2>1, Refused
<1>4. CASE ~OutsideSurface /\ Refusal(Current) = {}
  <2>1. rpc' = [NoRpc EXCEPT !.phase = "wire"]
    BY <1>4 DEF Issue
  <2>2. RpcHolds' /\ rpc'.phase = "wire"
    BY <2>1, HeardRpc DEF RpcHolds
  <2>3. Permitted(Current)
    BY <1>4, Allowed
  <2> QED BY <2>2, <2>3, WireOnly DEF Issue
<1> QED BY <1>2, <1>3, <1>4

\* What happens on the wire: an answer, a failed attempt, time, the deadline.
LEMMA WireKeeps ==
  ASSUME ReadInv, NodeAnswers \/ AttemptFails \/ WireTime \/ Deadline
  PROVE  ReadInv'
<1>1. /\ rpc.phase = "wire" /\ UNCHANGED <<caller, saved, said, runs>>
      /\ Unanswered /\ Permitted(Current)
  BY DEF NodeAnswers, AttemptFails, WireTime, Deadline, ReadInv, CallHolds
<1>2. ASSUME NEW v \in Verdicts, NEW b \in Held, v = "ok" => b.size <= ResponseCap,
             rpc' = Heard(v, b)
      PROVE  ReadInv'
  <2>1. RpcHolds' /\ rpc'.phase = "heard"
    BY <1>2, HeardRpc DEF RpcHolds
  <2> QED BY <1>1, <2>1, WireOnly
<1>3. ASSUME RpcHolds', rpc'.phase = "wire"
      PROVE  ReadInv'
  BY <1>1, <1>3, WireOnly
<1>4. NoBody \in Held
  BY HeardRpc
<1>5. CASE NodeAnswers
  <2>1. PICK b \in Bodies : rpc' = CheckCap(b)
    BY <1>5 DEF NodeAnswers
  <2>2. b \in Held
    BY ChainReadAssumption DEF Bodies, Held
  <2>3. b.size \in Nat /\ ResponseCap \in Nat
    BY <2>2, ChainReadAssumption DEF Held
  <2>4. CASE b.size > ResponseCap
    BY <1>2, <1>4, <2>1, <2>4 DEF CheckCap, Verdicts, Faults
  <2>5. CASE b.size <= ResponseCap
    BY <1>2, <2>1, <2>2, <2>3, <2>5 DEF CheckCap, Verdicts
  <2> QED BY <2>3, <2>4, <2>5
<1>6. CASE AttemptFails
  <2>1. PICK f \in Failures :
          rpc' = IF f \in Retryable /\ rpc.tries < MaxRetries
                 THEN [rpc EXCEPT !.tries = @ + 1]
                 ELSE Heard(Classify(f), NoBody)
    BY <1>6 DEF AttemptFails
  <2>2. CASE f \in Retryable /\ rpc.tries < MaxRetries
    <3>1. rpc' = [rpc EXCEPT !.tries = @ + 1] /\ rpc \in Rpcs /\ rpc.tries < MaxRetries
      BY <2>1, <2>2 DEF ReadInv, RpcHolds
    <3>2. rpc.tries + 1 \in 0 .. MaxRetries
      BY <3>1, ChainReadAssumption DEF Rpcs
    <3>3. rpc' \in Rpcs /\ rpc'.phase = "wire" /\ rpc'.verdict = rpc.verdict /\ rpc'.body = rpc.body
      BY <1>1, <3>1, <3>2 DEF Rpcs
    <3>4. RpcHolds'
      BY <3>3 DEF RpcHolds, ReadInv
    <3> QED BY <1>3, <3>3, <3>4
  <2>3. CASE ~(f \in Retryable /\ rpc.tries < MaxRetries)
    <3>1. Classify(f) \in Verdicts /\ Classify(f) # "ok"
      BY DEF Classify, Failures, Verdicts, Faults
    <3> QED BY <1>2, <1>4, <2>1, <2>3, <3>1
  <2> QED BY <2>2, <2>3
<1>7. CASE WireTime
  <2>1. rpc' = [rpc EXCEPT !.waited = @ + 1] /\ rpc \in Rpcs /\ rpc.waited < Timeout
    BY <1>7 DEF WireTime, ReadInv, RpcHolds
  <2>2. rpc.waited + 1 \in 0 .. Timeout
    BY <2>1, ChainReadAssumption DEF Rpcs
  <2>3. rpc' \in Rpcs /\ rpc'.phase = "wire" /\ rpc'.verdict = rpc.verdict /\ rpc'.body = rpc.body
    BY <1>1, <2>1, <2>2 DEF Rpcs
  <2>4. RpcHolds'
    BY <2>3 DEF RpcHolds, ReadInv
  <2> QED BY <1>3, <2>3, <2>4
<1>8. CASE Deadline
  BY <1>2, <1>4, <1>8 DEF Deadline, Verdicts, Faults
<1> QED BY <1>5, <1>6, <1>7, <1>8

\* The guest goes on to its next request, unless it runs a packet: a packet
\* advances with its answers.
LEMMA Advances ==
  ASSUME ReadInv, caller.prog # "packet", NextRequest
  PROVE  GuestHolds'
<1>1. caller' = [caller EXCEPT !.at = caller.at + 1] /\ caller \in Guests
  BY DEF NextRequest, ReadInv, GuestHolds
<1>2. caller.at + 1 \in Nat \ {0}
  BY <1>1 DEF Guests
<1>3. caller' \in Guests /\ caller'.prog = caller.prog
  BY <1>1, <1>2 DEF Guests
<1> QED BY <1>3 DEF GuestHolds

\* The tracker raises its alert and goes on to save.
LEMMA CheckKeeps ==
  ASSUME ReadInv, CheckOne
  PROVE  ReadInv'
<1>1. PICK c \in rpc.body.value :
        /\ said' = Moved(Tracked[caller.at], c)
        /\ rpc' = [rpc EXCEPT !.phase = "save"]
        /\ rpc.phase = "heard" /\ caller.prog = "tracker" /\ UNCHANGED <<caller, saved, runs>>
  BY DEF CheckOne, Executing
<1>2. rpc \in Rpcs
  BY DEF ReadInv, RpcHolds
<1>3. rpc' \in Rpcs /\ rpc'.phase = "save" /\ rpc'.verdict = rpc.verdict /\ rpc'.body = rpc.body
  BY <1>1, <1>2 DEF Rpcs
<1>4. RpcHolds'
  BY <1>3 DEF RpcHolds, ReadInv
<1>5. \A d \in rpc.body.value : d = c
  BY <1>1, <1>2 DEF Rpcs, Held, Readings
<1>6. GuestHolds' /\ saved' \in [Rows -> Readings]
  BY <1>1 DEF ReadInv, GuestHolds
<1>7. Unanswered'
  BY <1>1 DEF ReadInv, CallHolds, Unanswered
<1>8. \A d \in rpc'.body.value : said' = Moved(Tracked[caller.at], d)'
  BY <1>1, <1>3, <1>5 DEF Moved
<1>9. CallHolds'
  BY <1>1, <1>3, <1>7, <1>8 DEF CallHolds
<1> QED BY <1>4, <1>6, <1>9 DEF ReadInv

\* The reading is saved, or refused by the store, and the guest goes on.
LEMMA SaveKeeps ==
  ASSUME ReadInv, Save
  PROVE  ReadInv'
<1>1. saved' \in [Rows -> Readings]
  <2>1. CASE UNCHANGED saved
    BY <2>1 DEF ReadInv
  <2>2. ASSUME NEW c \in rpc.body.value, saved' = [saved EXCEPT ![Tracked[caller.at]] = {c}]
        PROVE  saved' \in [Rows -> Readings]
    <3>1. {c} \in Readings
      <4>1. rpc.body.value \in Readings
        BY DEF ReadInv, RpcHolds, Rpcs, Held
      <4> QED BY <4>1 DEF Readings
    <3>2. saved \in [Rows -> Readings]
      BY DEF ReadInv
    <3> HIDE DEF Readings, Rows
    <3> QED BY <2>2, <3>1, <3>2
  <2> QED BY <2>1, <2>2 DEF Save
<1>2. CASE caller.prog # "packet"
  BY <1>1, <1>2, Advances, RpcOver DEF Save, ReadInv
<1>3. caller.prog # "packet"
  BY DEF Save, ReadInv, CallHolds
<1> QED BY <1>2, <1>3

\* A packet's answer: a fault ends it, anything else is one answer more.
LEMMA PacketKeeps ==
  ASSUME ReadInv, PacketAnswer
  PROVE  ReadInv'
<1> DEFINE g == caller
<1>1. /\ g \in Guests /\ g.prog = "packet" /\ g.at <= Len(g.requests)
      /\ rpc.verdict \in Verdicts
  BY DEF PacketAnswer, Executing, ReadInv, RpcHolds, GuestHolds, CallHolds, Unanswered
<1>2. /\ g.requests \in Seq(Request) /\ g.answers \in Seq(Verdicts)
      /\ g.at \in Nat \ {0} /\ Len(g.requests) \in Nat /\ Len(g.answers) \in Nat
  BY <1>1 DEF Guests
<1>3. /\ \A k \in DOMAIN g.answers : g.answers[k] \notin Faults
      /\ g.fault = {} /\ Len(g.answers) = g.at - 1
  <2>1. \A k \in g.fault : FALSE
    BY <1>1, <1>2 DEF ReadInv, GuestHolds
  <2> QED BY <1>1, <2>1 DEF ReadInv, GuestHolds
<1>4. CASE rpc.verdict \in Faults
  <2>1. caller' = [caller EXCEPT !.fault = {caller.at}, !.at = Len(caller.requests) + 1]
    BY <1>4 DEF PacketAnswer
  <2>2. /\ caller' \in Guests /\ caller'.answers = g.answers /\ caller'.fault = {g.at}
        /\ caller'.at = Len(g.requests) + 1 /\ caller'.requests = g.requests
    <3> DEFINE after == Len(g.requests) + 1
               at == {g.at}
    <3>1. after \in Nat \ {0} /\ at \in SUBSET Nat /\ g \in Guests
      BY <1>1, <1>2
    <3>2. caller' = [caller EXCEPT !.fault = at, !.at = after]
      BY <2>1
    <3> HIDE DEF after, at
    <3>3. /\ caller' \in Guests /\ caller'.answers = caller.answers /\ caller'.fault = at
          /\ caller'.at = after /\ caller'.requests = caller.requests
      BY <3>1, <3>2 DEF Guests
    <3> QED BY <3>3 DEF after, at
  <2>3. GuestHolds'
    BY <1>2, <1>3, <2>2 DEF GuestHolds
  <2> QED BY <2>3, RpcOver DEF PacketAnswer, ReadInv
<1>5. CASE rpc.verdict \notin Faults
  <2>1. caller' = [caller EXCEPT !.answers = Append(@, rpc.verdict), !.at = @ + 1]
    BY <1>5 DEF PacketAnswer
  <2>2. Append(g.answers, rpc.verdict) \in Seq(Verdicts)
    BY <1>1, <1>2
  <2>3. /\ Len(Append(g.answers, rpc.verdict)) = Len(g.answers) + 1
        /\ \A k \in DOMAIN Append(g.answers, rpc.verdict) :
             Append(g.answers, rpc.verdict)[k] \notin Faults
    <3> DEFINE s == g.answers
               v == rpc.verdict
    <3>1. s \in Seq(Verdicts) /\ v \notin Faults /\ \A k \in DOMAIN s : s[k] \notin Faults
      BY <1>2, <1>3, <1>5
    <3> HIDE DEF s, v
    <3>2. /\ Len(Append(s, v)) = Len(s) + 1
          /\ \A k \in DOMAIN Append(s, v) : Append(s, v)[k] \notin Faults
      BY <3>1
    <3> QED BY <3>2 DEF s, v
  <2>4. /\ caller' \in Guests /\ caller'.answers = Append(g.answers, rpc.verdict)
        /\ caller'.at = g.at + 1 /\ caller'.fault = {}
    <3> DEFINE after == g.at + 1
               more == Append(g.answers, rpc.verdict)
    <3>1. after \in Nat \ {0} /\ more \in Seq(Verdicts) /\ g \in Guests /\ g.fault = {}
      BY <1>1, <1>2, <1>3, <2>2
    <3>2. caller' = [caller EXCEPT !.answers = more, !.at = after]
      BY <2>1
    <3> HIDE DEF after, more
    <3>3. /\ caller' \in Guests /\ caller'.answers = more
          /\ caller'.at = after /\ caller'.fault = {}
      BY <3>1, <3>2 DEF Guests
    <3> QED BY <3>3 DEF after, more
  <2>5. GuestHolds'
    BY <1>2, <1>3, <2>3, <2>4 DEF GuestHolds
  <2> QED BY <2>5, RpcOver DEF PacketAnswer, ReadInv
<1> QED BY <1>4, <1>5

\* The guest's call returns, or is cut.
LEMMA GuestEnds ==
  ASSUME ReadInv, Return \/ Cut
  PROVE  ReadInv'
<1>1. NoGuest \in Guests /\ NoGuest.prog = "none"
  BY DEF NoGuest, Guests
<1>2. GuestHolds' /\ saved' = saved
  BY <1>1 DEF Return, Cut, GuestHolds
<1>3. CASE Return
  BY <1>2, <1>3 DEF Return, ReadInv, RpcHolds, CallHolds
<1>4. CASE Cut
  BY <1>2, <1>4, RpcOver DEF Cut, ReadInv
<1> QED BY <1>3, <1>4

\* Every step of a guest, of its request and of the node keeps the invariant.
LEMMA ReadStep ==
  ASSUME ReadInv, [ReadNext]_readVars
  PROVE  ReadInv'
<1>1. CASE CheckFails \/ RawAnswer
  <2>1. /\ caller.prog # "packet" /\ NextRequest /\ rpc' = NoRpc /\ saved' = saved
    BY <1>1 DEF CheckFails, RawAnswer, Executing
  <2> QED BY <2>1, Advances, RpcOver DEF ReadInv
<1>2. CASE UNCHANGED readVars
  <2>1. Unanswered' = Unanswered /\ Permitted(Current)' = Permitted(Current)
    BY <1>2 DEF readVars, Unanswered, Permitted, Current
  <2>2. GuestHolds' /\ RpcHolds' /\ saved' \in [Rows -> Readings]
    BY <1>2 DEF readVars, ReadInv, GuestHolds, RpcHolds
  <2>3. CallHolds'
    BY <1>2, <2>1 DEF readVars, ReadInv, CallHolds, Moved
  <2> QED BY <2>2, <2>3 DEF ReadInv
<1> QED BY <1>1, <1>2, StartsKeep, IssueKeeps, WireKeeps, CheckKeeps, SaveKeeps,
           PacketKeeps, GuestEnds DEF ReadNext

\* No guest runs at first, and no row holds a balance.
LEMMA ReadStarts ==
  ReadInit => ReadInv
<1> SUFFICES ASSUME ReadInit PROVE ReadInv
  OBVIOUS
<1>1. RpcHolds /\ CallHolds
  BY HeardRpc DEF ReadInit, RpcHolds, CallHolds
<1>2. NoGuest \in Guests /\ NoGuest.prog = "none"
  BY DEF NoGuest, Guests
<1>3. GuestHolds
  BY <1>2 DEF ReadInit, GuestHolds
<1>4. saved \in [Rows -> Readings]
  BY DEF ReadInit, Rows, Readings
<1> QED BY <1>1, <1>3, <1>4 DEF ReadInv

\* Every chain request of every guest, for any caps, timeouts and retries: it is
\* on the wire no longer than the chain's timeout, only if its method is of the
\* read surface, its chain configured and its params parse; a body over the cap
\* never reaches the guest; a packet ends at its first fault.
THEOREM ReadsAreGated == ReadSpec => []ReadTypeOK
<1>1. ReadInv => ReadTypeOK
  <2> SUFFICES ASSUME ReadInv PROVE ReadTypeOK
    OBVIOUS
  <2>1. /\ rpc.phase \in {"none", "wire", "heard", "save"}
        /\ rpc.waited \in 0 .. Timeout /\ rpc.tries \in 0 .. MaxRetries
        /\ rpc.phase = "heard" => rpc.verdict \in Verdicts
        /\ rpc.verdict = "ok" => rpc.body.size <= ResponseCap
    BY DEF ReadInv, RpcHolds, Rpcs
  <2>2. rpc.phase = "wire" =>
          Current.method \in ChainMethod /\ Current.chain \in Configured /\ Current.json
    BY DEF ReadInv, CallHolds, Permitted
  <2>3. \A a \in DOMAIN saved : saved[a] \in Readings
    BY DEF ReadInv
  <2>4. \A k \in caller.fault : caller.prog = "packet" => rpc.phase = "none"
    BY DEF ReadInv, CallHolds, GuestHolds, Guests, Unanswered
  <2>5. Executing("packet") =>
          /\ \A k \in DOMAIN caller.answers : caller.answers[k] \notin Faults
          /\ \A k \in caller.fault : Len(caller.answers) = k - 1 /\ rpc.phase = "none"
          /\ caller.fault = {} => Len(caller.answers) = caller.at - 1
    BY <2>4 DEF ReadInv, GuestHolds, Executing
  <2> QED BY <2>1, <2>2, <2>3, <2>5 DEF ReadTypeOK
<1> QED BY <1>1, ReadStarts, ReadStep, PTL DEF ReadSpec

\* The balance tracker's check_one, for any thresholds and balances: a row never
\* moves by the threshold or more without the alert for that very move, whatever
\* was cut, refused or failed between the two.
THEOREM MovesAreSaid == ReadSpec => NoSilentMove
<1>1. ReadInv /\ [ReadNext]_readVars =>
        [\A a \in DOMAIN saved : \A p \in saved[a], q \in saved'[a] :
           Differ(p, q) >= Threshold /\ p # q => <<a, p, q>> \in said]_readVars
  <2> SUFFICES ASSUME ReadInv, ReadNext,
                      NEW a \in DOMAIN saved, NEW p \in saved[a], NEW q \in saved'[a],
                      Differ(p, q) >= Threshold, p # q
               PROVE  <<a, p, q>> \in said
    OBVIOUS
  <2>1. saved \in [Rows -> Readings] /\ a \in Rows /\ saved[a] \in Readings
    BY DEF ReadInv
  <2>2. saved' # saved
    BY <2>1 DEF Readings
  <2>3. Save
    BY <2>2 DEF ReadNext, OnBlock, SendPacket, RawRequest, Start, Issue, NodeAnswers,
         AttemptFails, WireTime, Deadline, CheckFails, CheckOne, PacketAnswer, RawAnswer,
         Return, Cut
  <2>4. PICK c \in rpc.body.value : saved' = [saved EXCEPT ![Tracked[caller.at]] = {c}]
    BY <2>2, <2>3 DEF Save
  <2>5. a = Tracked[caller.at] /\ q = c
    <3>1. CASE a # Tracked[caller.at]
      BY <2>1, <2>4, <3>1 DEF Readings
    <3> QED BY <2>1, <2>4, <3>1
  <2>6. said = Moved(a, c)
    BY <2>3, <2>5 DEF Save, ReadInv, CallHolds
  <2>7. Differ(c, p) >= Threshold
    <3>1. p \in Nat /\ c \in Nat
      <4>1. rpc.body.value \in Readings
        BY DEF ReadInv, RpcHolds, Rpcs, Held
      <4> QED BY <2>1, <4>1, ChainReadAssumption DEF Readings
    <3> QED BY <2>5, <3>1 DEF Differ
  <2> QED BY <2>5, <2>6, <2>7 DEF Moved
<1> QED BY <1>1, ReadStarts, ReadStep, PTL DEF ReadSpec, NoSilentMove

-----------------------------------------------------------------------------
(* The reconnects of a block source. *)

\* The last pause is no longer than the base delay of the attempts counted: the
\* counter and the pause are reset together and grow together.
PauseInv ==
  /\ link \in [at : {"opening", "pumping", "sending", "pausing", "gone"},
               attempt : 0 .. Rungs, age : Int, left : Nat]
  /\ paused \in Nat /\ paused <= Base(link.attempt)

\* The upper half of the next rung is no shorter than the whole of this one,
\* short of half the cap; and on the last rung the cap is reached.
LEMMA Rung ==
  ASSUME NEW n \in 0 .. Rungs, NEW m, m = Smaller(n + 1, Rungs), NEW pause \in BackoffFor(m)
  PROVE  /\ m \in 0 .. Rungs /\ pause \in Nat /\ pause <= Base(m) /\ Base(n) \in Nat
         /\ \A p \in Nat : p <= Base(n) => pause >= Smaller(p, MaxPause \div 2)
<1>1. MaxPause \in Nat /\ Rungs \in Nat \ {0} /\ 2 ^ Rungs >= MaxPause
  BY BlockAssumption
<1>2. m \in 0 .. Rungs
  BY <1>1 DEF Smaller
<1>3. 2 ^ n \in Nat /\ 2 ^ m \in Nat
  BY PowersOfTwo, <1>2
<1>4. (n < Rungs /\ 2 ^ m = 2 * (2 ^ n)) \/ (n = Rungs /\ m = Rungs /\ 2 ^ n >= MaxPause)
  <2>1. CASE n < Rungs
    <3>1. n \in 0 .. Rungs - 1 /\ m = n + 1
      BY <1>1, <2>1 DEF Smaller
    <3> QED BY <2>1, <3>1, PowersOfTwo
  <2>2. CASE ~(n < Rungs)
    BY <1>1, <2>2 DEF Smaller
  <2> QED BY <2>1, <2>2
<1>5. pause \in (Base(m) \div 2) .. Base(m)
  BY DEF BackoffFor
<1> DEFINE low == 2 ^ n
           high == 2 ^ m
<1>6. /\ low \in Nat /\ high \in Nat
      /\ (n < Rungs /\ high = 2 * low) \/ (n = Rungs /\ high = low /\ low >= MaxPause)
  BY <1>3, <1>4
<1>7. Base(n) = Smaller(low, MaxPause) /\ Base(m) = Smaller(high, MaxPause)
  BY DEF Base
<1> HIDE DEF low, high
<1> QED BY <1>1, <1>2, <1>5, <1>6, <1>7 DEF Smaller

\* A pause, begun by a failed open or by a stream that ended.
LEMMA PauseGrows ==
  ASSUME PauseInv, BackoffPause
  PROVE  PauseInv' /\ link'.left >= Smaller(paused, MaxPause \div 2)
<1> DEFINE n == link.attempt
           m == Smaller(n + 1, Rungs)
<1>1. PICK pause \in BackoffFor(m) :
        /\ link' = [link EXCEPT !.at = "pausing", !.attempt = m, !.left = pause]
        /\ paused' = pause
  BY DEF BackoffPause
<1>2. n \in 0 .. Rungs /\ paused \in Nat /\ paused <= Base(n)
  BY DEF PauseInv
<1>3. /\ m \in 0 .. Rungs /\ pause \in Nat /\ pause <= Base(m)
      /\ pause >= Smaller(paused, MaxPause \div 2)
  BY <1>2, Rung
<1> HIDE DEF n, m
<1>4. link'.at = "pausing" /\ link'.attempt = m /\ link'.left = pause
  BY <1>1 DEF PauseInv
<1>5. Base(link'.attempt) = Base(m)
  BY <1>4
<1>6. link' \in [at : {"opening", "pumping", "sending", "pausing", "gone"},
                 attempt : 0 .. Rungs, age : Int, left : Nat]
  BY <1>1, <1>3 DEF PauseInv
<1>7. Base(link.attempt)' = Base(m)
  BY <1>5 DEF Base
<1> QED BY <1>1, <1>3, <1>4, <1>6, <1>7 DEF PauseInv

\* Every step keeps the pause within its rung, and one that begins a pause
\* begins one no shorter than the last.
LEMMA BlockStep ==
  ASSUME PauseInv, BlockNext
  PROVE  /\ PauseInv'
         /\ link.at # "pausing" /\ link'.at = "pausing" =>
              link'.left >= Smaller(paused, MaxPause \div 2)
<1> DEFINE Kept == /\ link'.at # "pausing" \/ link.at = "pausing"
                   /\ link' \in [at : {"opening", "pumping", "sending", "pausing", "gone"},
                                 attempt : 0 .. Rungs, age : Int, left : Nat]
                   /\ (link'.attempt = link.attempt /\ paused' = paused)
                        \/ (link'.attempt = 0 /\ paused' = 0)
<1>1. ASSUME Kept PROVE PauseInv'
  <2>1. CASE link'.attempt = link.attempt /\ paused' = paused
    BY <1>1, <2>1 DEF PauseInv, Base
  <2>2. CASE link'.attempt = 0 /\ paused' = 0
    <3>1. Base(0) \in Nat
      BY BlockAssumption, PowersOfTwo DEF Base, Smaller
    <3>2. Base(link.attempt)' = Base(0)
      BY <2>2 DEF Base
    <3> QED BY <1>1, <2>2, <3>1, <3>2 DEF PauseInv
  <2> QED BY <1>1, <2>1, <2>2
<1>2. CASE OpenFails
  BY <1>2, PauseGrows DEF OpenFails
<1>3. CASE StreamEnds
  BY <1>3, PauseGrows DEF StreamEnds
<1>4. CASE Open
  <2>1. Kept BY <1>4 DEF Open, PauseInv
  <2> QED BY <1>1, <2>1
<1>5. CASE Item
  <2>1. Rungs \in Nat BY BlockAssumption
  <2>2. CASE Reset
    <3>1. /\ link' = [link EXCEPT !.at = "sending", !.attempt = 0, !.age = 0]
          /\ paused' = 0
      BY <1>5, <2>2 DEF Item
    <3>2. link'.at = "sending" /\ link'.attempt = 0 /\ link'.age = 0 /\ link'.left = link.left
      BY <3>1 DEF PauseInv
    <3>3. link' = [at |-> "sending", attempt |-> 0, age |-> 0, left |-> link.left]
      BY <3>1, <3>2 DEF PauseInv
    <3>4. Kept BY <2>1, <3>1, <3>2, <3>3 DEF PauseInv
    <3> QED BY <1>1, <3>4
  <2>3. CASE ~Reset
    <3>1. /\ link' = [link EXCEPT !.at = "sending", !.age = 0]
          /\ paused' = paused
      BY <1>5, <2>3 DEF Item, PauseInv
    <3>2. link' = [at |-> "sending", attempt |-> link.attempt, age |-> 0, left |-> link.left]
      BY <3>1 DEF PauseInv
    <3>4. Kept BY <3>1, <3>2 DEF PauseInv
    <3> QED BY <1>1, <3>4
  <2> QED BY <2>2, <2>3
<1>6. CASE Sent
  <2>1. Kept BY <1>6 DEF Sent, PauseInv
  <2> QED BY <1>1, <2>1
<1>7. CASE ReceiverGone
  <2>1. Kept BY <1>7 DEF ReceiverGone, PauseInv
  <2> QED BY <1>1, <2>1
<1>8. CASE PauseEnds
  <2>1. Kept BY <1>8 DEF PauseEnds, PauseInv
  <2> QED BY <1>1, <2>1
<1>9. CASE BlockTime
  <2>1. Healthy \in Nat BY BlockAssumption
  <2> DEFINE older == IF link.age = Never THEN link.age ELSE Smaller(link.age + 1, Healthy)
             nearer == IF link.left > 0 THEN link.left - 1 ELSE 0
  <2>2. older \in Int /\ nearer \in Nat
    BY <2>1 DEF PauseInv, Smaller
  <2>3. link' = [link EXCEPT !.age = older, !.left = nearer] /\ paused' = paused
    BY <1>9 DEF BlockTime
  <2> HIDE DEF older, nearer
  <2>4. Kept BY <2>2, <2>3 DEF PauseInv
  <2> QED BY <1>1, <2>4
<1>10. CASE TakeItem \/ DropReceiver
  <2>1. Kept BY <1>10 DEF TakeItem, DropReceiver, PauseInv
  <2> QED BY <1>1, <2>1
<1> QED BY <1>2, <1>3, <1>4, <1>5, <1>6, <1>7, <1>8, <1>9, <1>10 DEF BlockNext

\* The reconnect loop of a block source, for every cap and every number of rungs
\* that reaches it: until its counter is reset, no pause is shorter than the one
\* before it, short of half the cap.
THEOREM ReconnectsBackOff == BlockSpec => PausesGrow
<1>1. BlockInit => PauseInv
  <2>1. 0 \in 0 .. Rungs /\ Base(0) \in Nat
    BY BlockAssumption, PowersOfTwo DEF Base, Smaller
  <2> QED BY <2>1 DEF BlockInit, PauseInv, Never
<1>2. PauseInv /\ [BlockNext]_blockVars => PauseInv'
  <2>1. CASE UNCHANGED blockVars
    BY <2>1 DEF PauseInv, blockVars, Base
  <2> QED BY <2>1, BlockStep
<1>3. PauseInv /\ [BlockNext]_blockVars =>
        [link.at # "pausing" /\ link'.at = "pausing" =>
           link'.left >= Smaller(paused, MaxPause \div 2)]_blockVars
  BY BlockStep
<1> QED BY <1>1, <1>2, <1>3, PTL DEF BlockSpec, PausesGrow
=============================================================================
