--------------------------- MODULE FundedRuns_proofs ---------------------------
(***************************************************************************)
(* Proofs about FundedRuns, for any labels, deployments, journals, nonces  *)
(* and bounds on mishaps.  IInv is the inductive invariant the rest needs: *)
(* where the process is, that the journal in memory has the operations of  *)
(* the one on disk, and that what it is about to send is in both records.  *)
(* From it follow, each with a strengthening of its own: what is in doubt  *)
(* (InDoubt), whose nonce it is and what its outcome was (Truths), and     *)
(* what the harness owes (Duty).  Most steps only matter by what they      *)
(* write: SignerMoves, JournalMoves and HandedMoves name every write to    *)
(* the signer's record, to a journal and to the nodes, and Flow how a      *)
(* process moves, so the invariants are kept by those few cases.           *)
(***************************************************************************)
EXTENDS FundedRuns, NumberFacts

--------------------------------------------------------------------------------
(* The operations of the journal, on one record *)

Ledgers == UNION {[D -> Entries] : D \in SUBSET Labels}
Journals == [tx : Ledgers, run : RunStatuses, owed : BOOLEAN]

\* k has the operations of j and perhaps more, each signed at the nonce j has
Holds(k, j) ==
    \A l \in DOMAIN j.tx : l \in DOMAIN k.tx /\ k.tx[l].nonce = j.tx[l].nonce
SameNonces(j, k) == Holds(j, k) /\ Holds(k, j)

(* An empty journal is a journal. *)
LEMMA EmptyFacts == EmptyJournal \in Journals /\ DOMAIN EmptyJournal.tx = {}
<1>1. [l \in {} |-> {}] \in [{} -> Entries] /\ {} \in SUBSET Labels
    OBVIOUS
<1>2. [l \in {} |-> {}] \in Ledgers
    BY <1>1 DEF Ledgers
<1> QED
    BY <1>2 DEF EmptyJournal, Journals, RunStatuses

(* What the journal's type says of its entries. *)
LEMMA EntryFacts ==
    ASSUME NEW j \in Journals
    PROVE  /\ DOMAIN j.tx \subseteq Labels
           /\ j.tx \in [DOMAIN j.tx -> Entries]
           /\ \A l \in DOMAIN j.tx : j.tx[l].nonce \in Nat
                  /\ j.tx[l].status \in Unsettled \cup Mined /\ j.tx[l].payload \in BOOLEAN
BY DEF Journals, Ledgers, Entries

(* Signing adds one entry, unless the label has one. *)
LEMMA PrepareFacts ==
    ASSUME NEW j \in Journals, NEW l \in Labels, NEW n \in Nat
    PROVE  /\ Prepare(j, l, n) \in Journals
           /\ DOMAIN Prepare(j, l, n).tx = DOMAIN j.tx \cup {l}
           /\ Holds(Prepare(j, l, n), j)
           /\ l \notin DOMAIN j.tx => Prepare(j, l, n).tx[l].nonce = n
                                      /\ Prepare(j, l, n).tx[l].status = "prepared"
                                      /\ Prepare(j, l, n).tx[l].payload
           /\ \A k \in DOMAIN j.tx : Prepare(j, l, n).tx[k] = j.tx[k]
           /\ Prepare(j, l, n).run = j.run /\ Prepare(j, l, n).owed = j.owed
<1> DEFINE f == [k \in DOMAIN j.tx \cup {l} |->
               IF k = l THEN [nonce |-> n, status |-> "prepared", payload |-> TRUE] ELSE j.tx[k]]
<1>1. CASE l \in DOMAIN j.tx
    BY <1>1 DEF Prepare, Known, Holds
<1>2. CASE l \notin DOMAIN j.tx
    <2>1. f \in [DOMAIN j.tx \cup {l} -> Entries] /\ DOMAIN j.tx \cup {l} \in SUBSET Labels
        BY EntryFacts DEF Entries, Unsettled
    <2>2. f \in Ledgers
        BY <2>1 DEF Ledgers
    <2>3. Prepare(j, l, n) = [j EXCEPT !.tx = f]
        BY <1>2 DEF Prepare, Known
    <2>4. Prepare(j, l, n) = [tx |-> f, run |-> j.run, owed |-> j.owed]
        BY <2>3 DEF Journals
    <2> QED
        BY <1>2, <2>2, <2>4 DEF Journals, Holds
<1> QED
    BY <1>1, <1>2

(* Recording an outcome restates one entry: its nonce stays. *)
LEMMA OutcomeFacts ==
    ASSUME NEW j \in Journals, NEW l \in DOMAIN j.tx, NEW s \in Unsettled \cup Mined
    PROVE  /\ Outcome(j, l, s) \in Journals
           /\ DOMAIN Outcome(j, l, s).tx = DOMAIN j.tx
           /\ SameNonces(Outcome(j, l, s), j)
           /\ \A k \in DOMAIN j.tx \ {l} : Outcome(j, l, s).tx[k] = j.tx[k]
           /\ Outcome(j, l, s).tx[l].status = s
           /\ Outcome(j, l, s).tx[l].payload = (IF s \in Mined THEN FALSE ELSE j.tx[l].payload)
           /\ Outcome(j, l, s).run = j.run /\ Outcome(j, l, s).owed = j.owed
<1> DEFINE e == Settle(j.tx[l], s)
           f == [j.tx EXCEPT ![l] = e]
<1>1. e \in Entries /\ e.nonce = j.tx[l].nonce /\ e.status = s
      /\ e.payload = (IF s \in Mined THEN FALSE ELSE j.tx[l].payload)
    BY EntryFacts DEF Entries, Settle
<1> HIDE DEF e
<1>2. f \in [DOMAIN j.tx -> Entries] /\ DOMAIN j.tx \in SUBSET Labels
    BY <1>1, EntryFacts
<1>3. f \in Ledgers
    BY <1>2 DEF Ledgers
<1>4. Outcome(j, l, s) = [tx |-> f, run |-> j.run, owed |-> j.owed]
    BY EntryFacts DEF Outcome, Journals, e
<1>5. /\ DOMAIN f = DOMAIN j.tx /\ f[l] = e
      /\ \A k \in DOMAIN j.tx \ {l} : f[k] = j.tx[k]
    BY EntryFacts
<1> HIDE DEF f
<1>6. /\ Outcome(j, l, s) \in Journals /\ Outcome(j, l, s).tx = f
      /\ Outcome(j, l, s).run = j.run /\ Outcome(j, l, s).owed = j.owed
    BY <1>3, <1>4 DEF Journals
<1>7. \A k \in DOMAIN f : f[k].nonce = j.tx[k].nonce
    BY <1>1, <1>5
<1> QED
    BY <1>1, <1>5, <1>6, <1>7 DEF SameNonces, Holds

(* So does recording a broadcast. *)
LEMMA BroadcastedFacts ==
    ASSUME NEW j \in Journals, NEW l \in DOMAIN j.tx
    PROVE  /\ Broadcasted(j, l) \in Journals
           /\ DOMAIN Broadcasted(j, l).tx = DOMAIN j.tx
           /\ SameNonces(Broadcasted(j, l), j)
           /\ \A k \in DOMAIN j.tx \ {l} : Broadcasted(j, l).tx[k] = j.tx[k]
           /\ Broadcasted(j, l).tx[l].status = "broadcast"
           /\ Broadcasted(j, l).tx[l].payload = j.tx[l].payload
           /\ Broadcasted(j, l).run = j.run /\ Broadcasted(j, l).owed = j.owed
<1> DEFINE e == [j.tx[l] EXCEPT !.status = "broadcast"]
           f == [j.tx EXCEPT ![l] = e]
<1>1. e \in Entries /\ e.nonce = j.tx[l].nonce /\ e.status = "broadcast"
      /\ e.payload = j.tx[l].payload
    BY EntryFacts DEF Entries, Unsettled
<1> HIDE DEF e
<1>2. f \in [DOMAIN j.tx -> Entries] /\ DOMAIN j.tx \in SUBSET Labels
    BY <1>1, EntryFacts
<1>3. f \in Ledgers
    BY <1>2 DEF Ledgers
<1>4. Broadcasted(j, l) = [tx |-> f, run |-> j.run, owed |-> j.owed]
    BY EntryFacts DEF Broadcasted, Journals, e
<1> QED
    BY <1>1, <1>2, <1>3, <1>4 DEF Journals, SameNonces, Holds

(* An obligation and the status of the run leave the transactions alone. *)
LEMMA OtherFacts ==
    ASSUME NEW j \in Journals
    PROVE  /\ Owe(j) \in Journals /\ Owe(j).tx = j.tx /\ Owe(j).owed /\ Owe(j).run = j.run
           /\ Clear(j) \in Journals /\ Clear(j).tx = j.tx /\ ~Clear(j).owed
           /\ Clear(j).run = j.run
           /\ \A s \in RunStatuses : MarkRun(j, s) \in Journals /\ MarkRun(j, s).tx = j.tx
                                     /\ MarkRun(j, s).run = s /\ MarkRun(j, s).owed = j.owed
BY DEF Owe, Clear, MarkRun, Journals

--------------------------------------------------------------------------------
(* Where the process is, and what it holds there *)

Submitting ==
    {"journaled", "reserved", "accepted", "recorded", "unknown", "unknown-signer", "waiting",
     "confirming", "unknown-outcome"} \cup Mined
InScript == {"script", "signed", "returned"} \cup Submitting
Repairing ==
    {"recovering", "reserve-again", "abandon", "rebroadcast", "rebroadcasted", "polling", "settle"}
\* the recovery tool has the payload, and its nonce is reserved
Repaired == {"reconcile", "rebroadcast", "rebroadcasted", "polling", "settle"}

\* what the signer's record and the chain are: partial functions of transactions
OfTxs(V) == UNION {[D -> V] : D \in SUBSET Txs}
Places == {"absent", "pending"} \cup Included

Types ==
    /\ journal \in [Runs -> Journals] /\ mem \in Journals
    /\ signer \in OfTxs(Reserved \cup Terminal) /\ chain \in OfTxs(Places)
    /\ pc \in {"idle", "settling", "reconcile", "exit"} \cup InScript \cup Repairing
    /\ run \in Runs /\ tx \in Txs /\ target \in {"run", "recover", "poll"}
    /\ todo \subseteq Labels /\ fresh \in BOOLEAN /\ err \in {"none", "unknown", "plain"}
    /\ givenUp \subseteq Txs /\ mishaps \in [Mishaps -> Nat]

DeployLabels == {Deployments[i] : i \in DOMAIN Deployments}

Control ==
    /\ pc \in {"idle", "settling"} \cup InScript => target = "run"
    /\ pc \in Repairing => target # "run"
    /\ pc \notin InScript \cup {"exit"} => step = "start"
    /\ pc \in InScript /\ run = Deploy => step \in {"start"} \cup DeployLabels
    /\ pc \in {"signed", "returned"} \cup Submitting => RunOf[tx.label] = run /\ tx.label \in Current

\* The journal in memory has the operations of the one on disk, until an append
\* fails whose error ends the run.
MemFollowsDisk ==
    /\ pc \in ({"reconcile"} \cup InScript \cup Repairing) \ {"recovering"}
    /\ ~(pc = "returned" /\ err = "unknown")
    => SameNonces(mem, journal[run])

InHandRecorded ==
    /\ pc \in Submitting => Journaled(mem, tx)
    /\ pc \in Submitting \ {"journaled"} => Recorded(tx) \in Reserved
    /\ pc \in {"reconcile"} \cup Repairing /\ target # "run" =>
           /\ RunOf[tx.label] = run
           /\ Recorded(tx) \in Reserved \cup {"abandoned-prebroadcast"}
    /\ pc \in Repaired /\ target # "run" => Journaled(mem, tx) /\ Recorded(tx) \in Reserved
    /\ pc = "reserve-again" => Journaled(mem, tx)
    /\ pc \in {"reconcile", "reserve-again"} => todo \subseteq DOMAIN mem.tx
    /\ pc = "abandon" => tx \notin Handed

\* labels of an older commit that may have been sent before they were journalled
Inherited == Labels \ (Current \cup Historical)
AllRecorded ==
    \A t \in Handed :
        /\ t \in DOMAIN signer /\ signer[t] # "abandoned-prebroadcast"
        /\ Journaled(journal[RunOf[t.label]], t) \/ t.label \in Inherited

IInv == Types /\ Control /\ MemFollowsDisk /\ InHandRecorded /\ AllRecorded

--------------------------------------------------------------------------------
(* What a write does *)

(* A value is put at one place. *)
LEMMA PutValues ==
    ASSUME NEW f, NEW t, NEW x
    PROVE  /\ DOMAIN Put(f, t, x) = DOMAIN f \cup {t} /\ Put(f, t, x)[t] = x
           /\ \A u \in DOMAIN f \ {t} : Put(f, t, x)[u] = f[u]
BY DEF Put

(* A partial function of transactions with one value more is one. *)
LEMMA PutFacts ==
    ASSUME NEW V, NEW f \in OfTxs(V), NEW t \in Txs, NEW x \in V
    PROVE  Put(f, t, x) \in OfTxs(V)
<1>1. DOMAIN f \subseteq Txs /\ f \in [DOMAIN f -> V]
    BY DEF OfTxs
<1>2. Put(f, t, x) \in [DOMAIN f \cup {t} -> V] /\ DOMAIN f \cup {t} \in SUBSET Txs
    BY <1>1 DEF Put
<1> QED
    BY <1>2 DEF OfTxs

(* A mishap is counted. *)
LEMMA MishapFacts ==
    ASSUME mishaps \in [Mishaps -> Nat], NEW k \in Mishaps, Suffer(k)
    PROVE  mishaps' \in [Mishaps -> Nat] /\ mishaps'[k] = mishaps[k] + 1
           /\ \A i \in Mishaps : mishaps'[i] >= mishaps[i]
BY DEF Suffer, Mishaps

(* The journal is appended to, or is as it was. *)
LEMMA PersistFacts ==
    ASSUME journal \in [Runs -> Journals], run \in Runs, fresh \in BOOLEAN,
           mishaps \in [Mishaps -> Nat],
           NEW j \in Journals, Persist(j) \/ PersistFails(j)
    PROVE  /\ journal' = journal \/ journal' = [journal EXCEPT ![run] = j]
           /\ journal' \in [Runs -> Journals] /\ fresh' \in BOOLEAN
           /\ mishaps' \in [Mishaps -> Nat]
           /\ \A i \in Mishaps : mishaps'[i] >= mishaps[i]
           /\ PersistFails(j) => ~fresh \/ mishaps'["fault"] > mishaps["fault"]
           /\ Persist(j) => journal'[run] = j /\ fresh' = fresh /\ mishaps' = mishaps
           /\ \A r \in Runs \ {run} : journal'[r] = journal[r]
<1>1. Fail => mishaps' \in [Mishaps -> Nat] /\ mishaps'["fault"] = mishaps["fault"] + 1
              /\ \A i \in Mishaps : mishaps'[i] >= mishaps[i]
    BY MishapFacts DEF Fail, Mishaps
<1>2. mishaps["fault"] \in Nat /\ \A i \in Mishaps : mishaps[i] >= mishaps[i]
    BY DEF Mishaps
<1>3. [journal EXCEPT ![run] = j] \in [Runs -> Journals]
      /\ [journal EXCEPT ![run] = j][run] = j
      /\ \A r \in Runs \ {run} : [journal EXCEPT ![run] = j][r] = journal[r]
    OBVIOUS
<1>4. CASE Persist(j)
    BY <1>1, <1>2, <1>3, <1>4 DEF Persist, PersistFails
<1>5. CASE PersistFails(j) /\ mishaps' = mishaps
    BY <1>2, <1>3, <1>5, <1>1 DEF PersistFails, Persist
<1>6. CASE PersistFails(j) /\ Fail
    <2>1. mishaps'["fault"] > mishaps["fault"]
        BY <1>1, <1>2, <1>6
    <2>2. ~Persist(j)
        BY <2>1, <1>2 DEF Persist
    <2>3. /\ journal' = journal \/ journal' = [journal EXCEPT ![run] = j]
          /\ fresh' \in BOOLEAN
        BY <1>6, <2>1, <1>2 DEF PersistFails
    <2> QED
        BY <1>1, <1>3, <1>6, <2>1, <2>2, <2>3
<1> QED
    BY <1>4, <1>5, <1>6 DEF PersistFails

(* The signer's record is appended to, or is as it was. *)
LEMMA AppendFacts ==
    ASSUME Types, NEW t \in Txs, NEW s \in Reserved \cup Terminal,
           AppendSigner(t, s) \/ AppendSignerFails(t, s)
    PROVE  /\ signer' = signer \/ signer' = Put(signer, t, s)
           /\ signer' \in OfTxs(Reserved \cup Terminal)
           /\ mishaps' \in [Mishaps -> Nat]
           /\ \A i \in Mishaps : mishaps'[i] >= mishaps[i]
           /\ AppendSignerFails(t, s) => mishaps'["fault"] > mishaps["fault"]
           /\ AppendSigner(t, s) => signer' = Put(signer, t, s)
<1>1. Fail => mishaps' \in [Mishaps -> Nat] /\ mishaps'["fault"] = mishaps["fault"] + 1
              /\ \A i \in Mishaps : mishaps'[i] >= mishaps[i]
    BY MishapFacts DEF Fail, Mishaps, Types
<1>2. mishaps["fault"] \in Nat /\ \A i \in Mishaps : mishaps[i] >= mishaps[i]
    BY DEF Types, Mishaps
<1>3. Put(signer, t, s) \in OfTxs(Reserved \cup Terminal)
    BY PutFacts DEF Types
<1>4. CASE AppendSigner(t, s)
    BY <1>1, <1>2, <1>3, <1>4 DEF AppendSigner, AppendSignerFails, Types
<1>5. CASE AppendSignerFails(t, s)
    BY <1>1, <1>2, <1>3, <1>5 DEF AppendSigner, AppendSignerFails, Types
<1> QED
    BY <1>4, <1>5

--------------------------------------------------------------------------------
(* Types *)

(* The labels that are sent are labels, and of the runs that send them. *)
LEMMA LabelFacts ==
    /\ DeployLabels \subseteq Labels /\ HarnessLabels \subseteq Labels /\ Current \subseteq Labels
    /\ Runs # {} /\ Deploy # Harness /\ Harness \in Runs /\ Deploy \in Runs
    /\ \A l \in DeployLabels : RunOf[l] = Deploy
    /\ \A l \in HarnessLabels : RunOf[l] = Harness
    /\ NoTx \in Txs /\ (CHOOSE r \in Runs : TRUE) \in Runs
<1>1. DeployLabels \subseteq Labels /\ Deployments[1] \in Labels /\ 1 \in DOMAIN Deployments
    BY RunsCovered DEF DeployLabels
<1>2. HarnessLabels \subseteq Labels /\ "quote" \in HarnessLabels
    BY RunsCovered DEF HarnessLabels
<1>3. (CHOOSE l \in Labels : TRUE) \in Labels
    BY <1>2
<1>4. 0 \in Nonces
    BY Bounds DEF Nonces
<1>5. NoTx \in Txs
    BY <1>3, <1>4 DEF NoTx, Txs
<1>6. Harness \in Runs /\ Deploy # Harness
    BY RunsCovered
<1>7. RunOf[Deployments[1]] = Deploy /\ RunOf[Deployments[1]] \in Runs
    BY RunsCovered, RunOfLabels, <1>1
<1> QED
    BY <1>1, <1>2, <1>5, <1>6, <1>7, RunsCovered DEF Current, DeployLabels

(* The runs start with what the types allow. *)
LEMMA TypesInit == Init => Types
<1> SUFFICES ASSUME Init PROVE Types
    OBVIOUS
<1>1. journal \in [Runs -> Journals] /\ mem \in Journals
    BY EmptyFacts DEF Init
<1>2. \A V : [t \in {} |-> "none"] \in OfTxs(V)
    <2> TAKE V
    <2>1. [t \in {} |-> "none"] \in [{} -> V] /\ {} \in SUBSET Txs
        OBVIOUS
    <2> QED
        BY <2>1 DEF OfTxs
<1>3. ASSUME NEW t \in Txs, NEW w, Leftover(t, w), w \in {"none", "absent", "pending"}
      PROVE  signer \in OfTxs(Reserved \cup Terminal) /\ chain \in OfTxs(Places)
    <2>1. [u \in {t} |-> "prepared"] \in [{t} -> Reserved \cup Terminal] /\ {t} \in SUBSET Txs
        BY DEF Reserved
    <2>2. CASE w = "none"
        <3>1. [u \in {} |-> w] \in [{} -> Places] /\ {} \in SUBSET Txs
            OBVIOUS
        <3> QED
            BY <1>3, <2>1, <2>2, <3>1 DEF Leftover, OfTxs
    <2>3. CASE w # "none"
        <3>1. [u \in {t} |-> w] \in [{t} -> Places] /\ {t} \in SUBSET Txs
            BY <1>3, <2>3 DEF Places
        <3> QED
            BY <1>3, <2>1, <2>3, <3>1 DEF Leftover, OfTxs
    <2> QED
        BY <2>2, <2>3
<1>4. \A l \in Labels : [label |-> l, nonce |-> 0] \in Txs
    BY Bounds DEF Txs, Nonces
<1>5. signer \in OfTxs(Reserved \cup Terminal) /\ chain \in OfTxs(Places)
    BY <1>2, <1>3, <1>4 DEF Init
<1>6. mishaps \in [Mishaps -> Nat]
    BY DEF Init
<1> QED
    BY <1>1, <1>5, <1>6, LabelFacts DEF Init, Types, InScript, Submitting, Repairing, Mined

(* The chain gains a transaction, or moves one. *)
LEMMA ChainGains ==
    ASSUME Types, NEW t \in Txs, NEW w \in Places
    PROVE  Put(chain, t, w) \in OfTxs(Places)
BY PutFacts DEF Types

(* Where the chain moves one transaction, it moves no other. *)
LEMMA ChainMoves ==
    ASSUME Types, NEW t \in Handed, NEW w \in Places, chain' = [chain EXCEPT ![t] = w]
    PROVE  /\ chain' \in OfTxs(Places) /\ Handed' = Handed /\ chain'[t] = w
           /\ \A u \in Handed \ {t} : chain'[u] = chain[u]
<1>1. chain \in [Handed -> Places] /\ Handed \in SUBSET Txs
    BY DEF Types, OfTxs, Handed
<1>2. chain' \in [Handed -> Places]
    BY <1>1
<1>3. chain' \in OfTxs(Places)
    BY <1>1, <1>2 DEF OfTxs
<1> QED
    BY <1>1, <1>2, <1>3 DEF Handed

(* What the process persists is a journal. *)
LEMMA JournalsInHand ==
    ASSUME Types, InHandRecorded
    PROVE  /\ Prepare(mem, tx.label, tx.nonce) \in Journals
           /\ \A l \in DOMAIN mem.tx, s \in Unsettled \cup Mined : Outcome(mem, l, s) \in Journals
           /\ pc \in Submitting \/ (pc \in {"rebroadcast", "rebroadcasted"} /\ target # "run")
                  => tx.label \in DOMAIN mem.tx
           /\ \A l \in DOMAIN mem.tx : Broadcasted(mem, l) \in Journals
           /\ pc = "reconcile" => \A l \in todo :
                  Verdict(l) \in Unsettled \cup Mined /\ Outcome(mem, l, Verdict(l)) \in Journals
           /\ UnsettledIn(mem) \subseteq DOMAIN mem.tx /\ UnsettledIn(mem) \subseteq Labels
           /\ \A t : StatusOf(t) \in Mined
<1>1. Prepare(mem, tx.label, tx.nonce) \in Journals
    BY PrepareFacts DEF Types, Txs, Nonces
<1>2. \A l \in DOMAIN mem.tx, s \in Unsettled \cup Mined : Outcome(mem, l, s) \in Journals
    BY OutcomeFacts DEF Types
<1>3. pc \in Submitting \/ (pc \in {"rebroadcast", "rebroadcasted"} /\ target # "run")
          => tx.label \in DOMAIN mem.tx
    BY DEF InHandRecorded, Journaled, Known, Repaired
<1>4. \A l \in DOMAIN mem.tx : Broadcasted(mem, l) \in Journals
    BY BroadcastedFacts DEF Types
<1>5. \A t : StatusOf(t) \in Mined
    BY DEF StatusOf, Mined
<1>6. ASSUME pc = "reconcile", NEW l \in todo
      PROVE  Verdict(l) \in Unsettled \cup Mined /\ Outcome(mem, l, Verdict(l)) \in Journals
    <2>1. l \in DOMAIN mem.tx
        BY <1>6 DEF InHandRecorded
    <2>2. Verdict(l) \in Unsettled \cup Mined
        BY <1>5, <2>1, EntryFacts DEF Verdict, Types, Unsettled
    <2> QED
        BY <1>2, <2>1, <2>2
<1>7. UnsettledIn(mem) \subseteq DOMAIN mem.tx /\ UnsettledIn(mem) \subseteq Labels
    BY EntryFacts DEF UnsettledIn, Types
<1> QED
    BY <1>1, <1>2, <1>3, <1>4, <1>5, <1>6, <1>7

(* The submission engine keeps the types: what it persists is a journal. *)
LEMMA TypesEngine == IInv /\ Engine => Types'
<1> SUFFICES ASSUME Types, Control, InHandRecorded, Engine
             PROVE  Types'
    BY DEF IInv
<1> USE DEF InScript, Submitting, Repairing, Mined
<1>1. ASSUME NEW t \in DOMAIN signer, SettleSigner(t) PROVE Types'
    <2>1. t \in Txs /\ StatusOf(t) \in Reserved \cup Terminal
        BY DEF Types, OfTxs, StatusOf, Terminal
    <2> QED
        BY <1>1, <2>1, AppendFacts DEF SettleSigner, Types
<1>2. ASSUME NEW t \in DOMAIN signer, LaunchRecovery(t) PROVE Types'
    <2>1. t \in Txs /\ RunOf[t.label] \in Runs
        BY RunOfLabels DEF Types, OfTxs, Txs
    <2> QED
        BY <1>2, <2>1 DEF LaunchRecovery, Types, disk
<1>3. CASE OpenJournal
    <2>1. journal[run] \in Journals /\ UnsettledIn(journal[run]) \subseteq Labels
        BY EntryFacts DEF Types, UnsettledIn
    <2> QED
        BY <1>3, <2>1 DEF OpenJournal, Types, disk
<1>4. CASE Exit
    BY <1>4, LabelFacts, EmptyFacts DEF Exit, Idle, Types, disk
<1>5. ASSUME NEW l \in todo, Reconcile(l) PROVE Types'
    <2> DEFINE j == Outcome(mem, l, Verdict(l))
    <2>1. j \in Journals
        BY <1>5, JournalsInHand DEF Reconcile
    <2> HIDE DEF j
    <2>2. journal' \in [Runs -> Journals] /\ fresh' \in BOOLEAN /\ mishaps' \in [Mishaps -> Nat]
          /\ mem' \in Journals
        BY <1>5, <2>1, PersistFacts DEF Reconcile, Types, j
    <2> QED
        BY <1>5, <2>2 DEF Reconcile, Types, Stopped
<1>6. CASE ReconcileDone
    BY <1>6, JournalsInHand DEF ReconcileDone, Types, disk, Stopped
<1>7. CASE JournalPrepared
    <2> DEFINE j == Prepare(mem, tx.label, tx.nonce)
    <2>1. j \in Journals
        BY JournalsInHand
    <2> HIDE DEF j
    <2>2. journal' \in [Runs -> Journals] /\ fresh' \in BOOLEAN /\ mishaps' \in [Mishaps -> Nat]
          /\ mem' \in Journals
        BY <1>7, <2>1, PersistFacts DEF JournalPrepared, Types, j
    <2> QED
        BY <1>7, <2>2 DEF JournalPrepared, Types, Returned
<1>8. CASE ReserveNonce
    BY <1>8, AppendFacts DEF ReserveNonce, Types, Returned, Reserved
<1>9. CASE BroadcastTransaction
    BY <1>9, ChainGains DEF BroadcastTransaction, Types, Arrives, InFlight, Places, disk
<1>10. CASE RecordBroadcast
    <2>0. pc = "accepted"
        BY <1>10 DEF RecordBroadcast
    <2>a. tx.label \in DOMAIN mem.tx
        BY <2>0, JournalsInHand DEF Control
    <2>1. Broadcasted(mem, tx.label) \in Journals
        BY <2>0, <2>a, JournalsInHand
    <2> QED
        BY <1>10, <2>1, PersistFacts DEF RecordBroadcast, Types
<1>11. CASE RecordSignerBroadcast
    BY <1>11, AppendFacts DEF RecordSignerBroadcast, Types, Reserved
<1>12. CASE RecordUnknown
    <2>0. pc = "unknown"
        BY <1>12 DEF RecordUnknown
    <2>a. tx.label \in DOMAIN mem.tx
        BY <2>0, JournalsInHand DEF Control
    <2>1. Outcome(mem, tx.label, "outcome-unknown") \in Journals
        BY <2>0, <2>a, JournalsInHand DEF Unsettled
    <2> QED
        BY <1>12, <2>1, PersistFacts DEF RecordUnknown, Types
<1>13. CASE RecordSignerUnknown
    BY <1>13, AppendFacts DEF RecordSignerUnknown, Types, Reserved
<1>14. CASE Wait
    BY <1>14 DEF Wait, Types, disk, StatusOf
<1>15. CASE AwaitCanonical
    BY <1>15 DEF AwaitCanonical, Types, disk, StatusOf
<1>16. CASE RecordOutcome
    <2> DEFINE v == IF pc = "unknown-outcome" THEN "outcome-unknown" ELSE pc
               j == Outcome(mem, tx.label, v)
    <2>0. pc \in Mined \cup {"unknown-outcome"}
        BY <1>16 DEF RecordOutcome
    <2>a. tx.label \in DOMAIN mem.tx
        BY <2>0, JournalsInHand DEF Control
    <2>1. j \in Journals
        BY <2>0, <2>a, JournalsInHand DEF Unsettled
    <2> HIDE DEF j
    <2>2. journal' \in [Runs -> Journals] /\ fresh' \in BOOLEAN /\ mishaps' \in [Mishaps -> Nat]
          /\ mem' \in Journals
        BY <1>16, <2>1, PersistFacts DEF RecordOutcome, Types, j
    <2> QED
        BY <1>16, <2>2 DEF RecordOutcome, Types, Returned
<1>17. CASE OpenRecovery
    <2>1. journal[run] \in Journals /\ UnsettledIn(journal[run]) \subseteq Labels
        BY EntryFacts DEF Types, UnsettledIn
    <2> QED
        BY <1>17, <2>1 DEF OpenRecovery, Types, disk
<1>18. CASE Abandon
    BY <1>18, AppendFacts DEF Abandon, Types, Terminal
<1>19. CASE ReserveAgain
    BY <1>19, AppendFacts DEF ReserveAgain, Types, Reserved
<1>20. CASE Rebroadcast
    <2>0. pc = "rebroadcast"
        BY <1>20 DEF Rebroadcast
    <2>a. tx.label \in DOMAIN mem.tx
        BY <2>0, JournalsInHand DEF Control
    <2>1. Outcome(mem, tx.label, StatusOf(tx)) \in Journals
        BY <2>0, <2>a, JournalsInHand
    <2> QED
        BY <1>20, <2>1, PersistFacts, ChainGains
        DEF Rebroadcast, Types, Arrives, InFlight, Places
<1>21. CASE RecordRebroadcast
    <2>0. pc = "rebroadcasted"
        BY <1>21 DEF RecordRebroadcast
    <2>a. tx.label \in DOMAIN mem.tx
        BY <2>0, JournalsInHand DEF Control
    <2>1. Broadcasted(mem, tx.label) \in Journals
        BY <2>0, <2>a, JournalsInHand
    <2> QED
        BY <1>21, <2>1, PersistFacts DEF RecordRebroadcast, Types
<1>22. CASE Poll
    BY <1>22, JournalsInHand DEF Poll, Types, disk
<1>23. CASE SettleRecovered
    <2>1. tx.label \in DOMAIN mem.tx
        BY <1>23 DEF SettleRecovered, Control, InHandRecorded, Journaled, Known, Repaired
    <2>2. mem.tx[tx.label].status \in Reserved \cup Terminal
        BY <2>1, EntryFacts DEF Types, Unsettled, Reserved, Terminal
    <2> QED
        BY <1>23, <2>2, AppendFacts DEF SettleRecovered, Types
<1> QED
    BY <1>1, <1>2, <1>3, <1>4, <1>5, <1>6, <1>7, <1>8, <1>9, <1>10, <1>11, <1>12, <1>13, <1>14,
       <1>15, <1>16, <1>17, <1>18, <1>19, <1>20, <1>21, <1>22, <1>23 DEF Engine

--------------------------------------------------------------------------------
(* The scripts, whatever they decide, do one of three things *)

\* go on or leave, append to the journal what is no transaction, or sign
ScriptGoes ==
    /\ UNCHANGED <<disk, chain, run, target, tx, mem, fresh, todo, mishaps>>
    /\ err' = "none" /\ pc' \in {"script", "exit"}
ScriptWrites ==
    /\ \E j \in Journals : j.tx = mem.tx /\ mem' = j /\ (Persist(j) \/ PersistFails(j))
    /\ UNCHANGED <<signer, givenUp, chain, run, target, tx, todo>>
    /\ err' = "none" /\ pc' \in {"script", "exit"}
ScriptSigns == \E l \in Current : Sign(l)

(* A script goes on, appends what is no transaction, or signs; an unknown outcome ends it. *)
LEMMA ScriptMoves ==
    ASSUME Types, Control, Scripts
    PROVE  /\ pc \in {"script", "returned"} /\ target = "run"
           /\ ScriptGoes \/ ScriptWrites \/ ScriptSigns
           /\ pc = "returned" /\ err = "unknown" => ScriptGoes /\ pc' = "exit"
           /\ run = Deploy /\ pc' # "exit" => step' \in {"start"} \cup DeployLabels
<1> USE DEF At, Back
<1>1. pc \in {"script", "returned"} /\ target = "run"
    BY DEF Scripts, DeployNext, DeployReturned, HarnessRecover, HarnessQuote, HarnessApprove,
           HarnessSwap, HarnessCleanup, HarnessEnd, Control, InScript, Sign
<1>2. \A p, q : p \in {"script", "exit"} /\ Goto(p, q) => ScriptGoes /\ pc' = p /\ step' = q
    BY DEF Goto, ScriptGoes
<1>3. \A j, p, q, bp, bq : j \in Journals /\ j.tx = mem.tx /\ p \in {"script", "exit"}
          /\ bp \in {"script", "exit"} /\ PersistThen(j, p, q, bp, bq) => ScriptWrites
    BY DEF PersistThen, ScriptWrites
<1>4. /\ Owe(mem) \in Journals /\ Owe(mem).tx = mem.tx
      /\ Clear(mem) \in Journals /\ Clear(mem).tx = mem.tx
      /\ MarkRun(mem, "passed") \in Journals /\ MarkRun(mem, "passed").tx = mem.tx
      /\ MarkRun(mem, "failed") \in Journals /\ MarkRun(mem, "failed").tx = mem.tx
    BY OtherFacts DEF Types, RunStatuses
<1>5. HarnessLabels \subseteq Current /\ DeployLabels \subseteq Current /\ Deploy # Harness
    BY LabelFacts DEF Current, DeployLabels
<1>6. CASE DeployNext
    <2>1. Deployments[1] \in DeployLabels
        BY RunsCovered DEF DeployLabels
    <2>2. step \in {"start"} \cup DeployLabels
        BY <1>6 DEF DeployNext, Control, InScript
    <2>3. ScriptSigns
        BY <1>5, <1>6, <2>1, <2>2 DEF DeployNext, ScriptSigns
    <2>4. pc = "script" /\ step' = step
        BY <1>6 DEF DeployNext, Sign
    <2> QED
        BY <1>1, <2>2, <2>3, <2>4
<1>7. CASE DeployReturned
    <2> DEFINE i == CHOOSE k \in DOMAIN Deployments : Deployments[k] = tx.label
    <2>1. pc = "returned" /\ run = Deploy
        BY <1>7 DEF DeployReturned
    <2>2. \E k \in DOMAIN Deployments : Deployments[k] = tx.label
        <3>1. RunOf[tx.label] = Deploy /\ tx.label \in Current
            BY <2>1 DEF Control
        <3>2. tx.label \in DeployLabels
            BY <3>1, LabelFacts DEF Current, DeployLabels
        <3> QED
            BY <3>2 DEF DeployLabels
    <2>3. i \in DOMAIN Deployments
        BY <2>2
    <2>4. i < Len(Deployments) => Deployments[i + 1] \in DeployLabels
        <3>1. ASSUME NEW k \in DOMAIN Deployments, k < Len(Deployments)
              PROVE  k + 1 \in DOMAIN Deployments
            BY <3>1, RunsCovered
        <3>2. \A k \in DOMAIN Deployments : Deployments[k] \in DeployLabels
            BY DEF DeployLabels
        <3> HIDE DEF i
        <3> QED
            BY <2>3, <3>1, <3>2
    <2>5. IF err = "none" /\ i < Len(Deployments)
          THEN Goto("script", Deployments[i + 1]) ELSE Goto("exit", step)
        BY <1>7 DEF DeployReturned
    <2> HIDE DEF i
    <2> QED
        BY <1>1, <1>2, <2>1, <2>4, <2>5
<1>8. CASE HarnessRecover
    <2>1. ScriptGoes \/ ScriptWrites \/ ScriptSigns
        BY <1>2, <1>3, <1>4, <1>5, <1>8
        DEF HarnessRecover, Caught, ThrowPlain, ScriptSigns, HarnessLabels, Drains
    <2> QED
        BY <1>1, <1>2, <1>5, <1>8, <2>1 DEF HarnessRecover, Caught, ThrowPlain
<1>9. CASE HarnessQuote
    <2>1. ScriptGoes \/ ScriptWrites \/ ScriptSigns
        BY <1>2, <1>5, <1>9 DEF HarnessQuote, Caught, ScriptSigns, HarnessLabels
    <2> QED
        BY <1>1, <1>2, <1>5, <1>9, <2>1 DEF HarnessQuote, Caught
<1>10. CASE HarnessApprove
    <2>1. ScriptGoes \/ ScriptWrites \/ ScriptSigns
        BY <1>2, <1>3, <1>4, <1>5, <1>10
        DEF HarnessApprove, Caught, ThrowPlain, ScriptSigns, HarnessLabels
    <2> QED
        BY <1>1, <1>2, <1>5, <1>10, <2>1 DEF HarnessApprove, Caught, ThrowPlain
<1>11. CASE HarnessSwap
    <2>1. ScriptGoes \/ ScriptWrites \/ ScriptSigns
        BY <1>2, <1>3, <1>4, <1>5, <1>11 DEF HarnessSwap, ScriptSigns, HarnessLabels, Drains
    <2> QED
        BY <1>1, <1>2, <1>5, <1>11, <2>1 DEF HarnessSwap
<1>12. CASE HarnessCleanup
    <2>1. ScriptGoes \/ ScriptWrites \/ ScriptSigns
        BY <1>2, <1>3, <1>4, <1>5, <1>12 DEF HarnessCleanup, ScriptSigns, HarnessLabels, Drains
    <2> QED
        BY <1>1, <1>2, <1>5, <1>12, <2>1 DEF HarnessCleanup
<1>13. CASE HarnessEnd
    <2>1. ScriptWrites
        BY <1>3, <1>4, <1>13 DEF HarnessEnd
    <2> QED
        BY <1>1, <1>5, <1>13, <2>1 DEF HarnessEnd
<1> QED
    BY <1>6, <1>7, <1>8, <1>9, <1>10, <1>11, <1>12, <1>13 DEF Scripts

(* Signing keeps to the nonces of the model. *)
LEMMA SignFacts ==
    ASSUME NEW l \in Labels, Sign(l)
    PROVE  /\ tx' \in Txs /\ tx'.label = l /\ tx'.nonce = PendingNonce
           /\ pc = "script" /\ pc' = "signed" /\ RunOf[l] = run
           /\ UNCHANGED <<disk, chain, run, target, mem, fresh, todo, err, step, mishaps>>
BY DEF Sign, Txs

(* Every step keeps the types. *)
LEMMA TypesStep == IInv /\ [Next]_vars => Types'
<1> SUFFICES ASSUME Types, Control, IInv, [Next]_vars PROVE Types'
    BY DEF IInv
<1>1. CASE Engine
    BY <1>1, TypesEngine
<1>2. CASE Scripts
    <2>1. CASE ScriptGoes
        BY <2>1 DEF ScriptGoes, Types, disk, InScript
    <2>2. CASE ScriptWrites
        BY <2>2, PersistFacts DEF ScriptWrites, Types, InScript
    <2>3. CASE ScriptSigns
        BY <2>3, SignFacts, LabelFacts DEF ScriptSigns, Types, disk, InScript
    <2> QED
        BY <1>2, <2>1, <2>2, <2>3, ScriptMoves
<1>3. CASE Chain
    <2>1. mishaps' \in [Mishaps -> Nat] /\ UNCHANGED offchain
        BY <1>3, MishapFacts
        DEF Chain, Mine, Finalize, Reorg, Evict, ArriveLate, Types, Mishaps
    <2>2. chain' \in OfTxs(Places)
        BY <1>3, ChainMoves
        DEF Chain, Mine, Finalize, Reorg, Evict, ArriveLate, Places, Included, Mined, Final
    <2> QED
        BY <2>1, <2>2 DEF Types, offchain, disk, process
<1>4. CASE Crash
    <2>1. mishaps' \in [Mishaps -> Nat]
        BY <1>4, MishapFacts DEF Crash, Types, Mishaps
    <2> QED
        BY <1>4, <2>1, LabelFacts, EmptyFacts DEF Crash, Idle, Types, disk
<1>5. ASSUME NEW r \in {Deploy, Harness}, Launch(r) PROVE Types'
    BY <1>5, LabelFacts DEF Launch, Types, disk
<1>6. CASE UNCHANGED vars
    BY <1>6 DEF vars, Types
<1> QED
    BY <1>1, <1>2, <1>3, <1>4, <1>5, <1>6 DEF Next

--------------------------------------------------------------------------------
(* Control *)

(* Every step keeps the process to its target, its script and its own labels. *)
LEMMA ControlStep == IInv /\ [Next]_vars => Control'
<1> SUFFICES ASSUME Types, Control, [Next]_vars PROVE Control'
    BY DEF IInv
<1> USE DEF InScript, Submitting, Repairing, Mined
<1>1. CASE Engine
    <2>1. ASSUME NEW t \in DOMAIN signer, SettleSigner(t) PROVE Control'
        BY <2>1 DEF SettleSigner, Control
    <2>2. ASSUME NEW t \in DOMAIN signer, LaunchRecovery(t) PROVE Control'
        BY <2>2 DEF LaunchRecovery, Control
    <2>3. CASE OpenJournal
        BY <2>3 DEF OpenJournal, Control
    <2>4. CASE Exit
        BY <2>4 DEF Exit, Idle, Control
    <2>5. ASSUME NEW l \in todo, Reconcile(l) PROVE Control'
        BY <2>5, RunsCovered DEF Reconcile, Control, Stopped
    <2>6. CASE ReconcileDone
        BY <2>6, RunsCovered DEF ReconcileDone, Control, Stopped
    <2>7. CASE JournalPrepared
        BY <2>7 DEF JournalPrepared, Returned, Control
    <2>8. CASE ReserveNonce
        BY <2>8 DEF ReserveNonce, Returned, Control
    <2>9. CASE BroadcastTransaction
        BY <2>9 DEF BroadcastTransaction, Control
    <2>10. CASE RecordBroadcast \/ RecordSignerBroadcast
        BY <2>10 DEF RecordBroadcast, RecordSignerBroadcast, Control
    <2>11. CASE RecordUnknown \/ RecordSignerUnknown
        BY <2>11 DEF RecordUnknown, RecordSignerUnknown, Control
    <2>12. CASE Wait \/ AwaitCanonical
        BY <2>12 DEF Wait, AwaitCanonical, StatusOf, Control
    <2>13. CASE RecordOutcome
        BY <2>13 DEF RecordOutcome, Returned, Control
    <2>14. CASE OpenRecovery \/ Abandon \/ ReserveAgain
        BY <2>14 DEF OpenRecovery, Abandon, ReserveAgain, Control
    <2>15. CASE Rebroadcast \/ RecordRebroadcast \/ Poll \/ SettleRecovered
        BY <2>15 DEF Rebroadcast, RecordRebroadcast, Poll, SettleRecovered, Control
    <2> QED
        BY <1>1, <2>1, <2>2, <2>3, <2>4, <2>5, <2>6, <2>7, <2>8, <2>9, <2>10, <2>11, <2>12, <2>13,
           <2>14, <2>15 DEF Engine
<1>2. CASE Scripts
    <2>1. CASE ScriptGoes
        BY <1>2, <2>1, ScriptMoves DEF ScriptGoes, Control
    <2>2. CASE ScriptWrites
        BY <1>2, <2>2, ScriptMoves DEF ScriptWrites, Control
    <2>3. CASE ScriptSigns
        BY <1>2, <2>3, SignFacts, ScriptMoves, LabelFacts DEF ScriptSigns, Control
    <2> QED
        BY <1>2, <2>1, <2>2, <2>3, ScriptMoves
<1>3. CASE Chain
    BY <1>3
    DEF Chain, Mine, Finalize, Reorg, Evict, ArriveLate, offchain, process, disk, Control
<1>4. CASE Crash
    BY <1>4 DEF Crash, Idle, Control
<1>5. ASSUME NEW r \in {Deploy, Harness}, Launch(r) PROVE Control'
    BY <1>5 DEF Launch, Control
<1>6. CASE UNCHANGED vars
    BY <1>6 DEF vars, Control
<1> QED
    BY <1>1, <1>2, <1>3, <1>4, <1>5, <1>6 DEF Next

--------------------------------------------------------------------------------
(* Memory and disk *)

JournalsGrow == \A r \in Runs : Holds(journal'[r], journal[r])

(* What a journal has, a journal that holds it has. *)
LEMMA HoldsFacts ==
    /\ \A j : Holds(j, j) /\ SameNonces(j, j)
    /\ \A i, j, k : Holds(k, j) /\ Holds(j, i) => Holds(k, i)
    /\ \A i, j, k : SameNonces(k, j) /\ SameNonces(j, i) => SameNonces(k, i)
    /\ \A j, k : j.tx = k.tx => SameNonces(j, k)
    /\ \A j, k, t : Holds(k, j) /\ Journaled(j, t) => Journaled(k, t)
BY DEF Holds, SameNonces, Journaled, Known

(* An append never loses an operation that was on disk. *)
LEMMA PersistGrows ==
    ASSUME Types, NEW j \in Journals, Persist(j) \/ PersistFails(j),
           SameNonces(mem, journal[run]), Holds(j, mem)
    PROVE  /\ JournalsGrow
           /\ SameNonces(j, mem) => SameNonces(j, journal'[run])
           /\ Persist(j) => SameNonces(j, journal'[run])
<1>1. /\ journal' = journal \/ journal' = [journal EXCEPT ![run] = j]
      /\ Persist(j) => journal'[run] = j
    BY PersistFacts DEF Types
<1>2. Holds(j, journal[run]) /\ SameNonces(j, j)
    BY HoldsFacts DEF SameNonces
<1>3. SameNonces(j, mem) => SameNonces(j, journal[run])
    BY HoldsFacts
<1>4. run \in Runs /\ journal \in [Runs -> Journals] /\ \A r \in Runs : Holds(journal[r], journal[r])
    BY HoldsFacts DEF Types
<1>5. CASE journal' = journal
    BY <1>1, <1>2, <1>3, <1>4, <1>5 DEF JournalsGrow
<1>6. CASE journal' = [journal EXCEPT ![run] = j]
    <2>1. journal'[run] = j /\ \A r \in Runs \ {run} : journal'[r] = journal[r]
        BY <1>4, <1>6
    <2> QED
        BY <2>1, <1>2, <1>4 DEF JournalsGrow
<1> QED
    BY <1>1, <1>5, <1>6

(* No step loses an operation on disk, and the journal in memory follows it. *)
LEMMA JournalStep == IInv /\ [Next]_vars => JournalsGrow /\ MemFollowsDisk'
<1> SUFFICES ASSUME IInv, Types, Control, InHandRecorded, MemFollowsDisk, [Next]_vars
             PROVE  JournalsGrow /\ MemFollowsDisk'
    BY DEF IInv
<1> USE DEF InScript, Submitting, Repairing, Mined
<1>1. journal' = journal => JournalsGrow
    BY HoldsFacts DEF JournalsGrow
<1>2. UNCHANGED <<journal, mem, run>> /\ pc' \in {"idle", "settling", "recovering", "exit"}
      => JournalsGrow /\ MemFollowsDisk'
    BY <1>1 DEF MemFollowsDisk
<1>3. UNCHANGED <<journal, mem, run, pc, err>> => JournalsGrow /\ MemFollowsDisk'
    BY <1>1 DEF MemFollowsDisk
<1>4. /\ UNCHANGED <<journal, mem, run>>
      /\ pc \in ({"reconcile"} \cup InScript \cup Repairing) \ {"recovering", "returned"}
      => JournalsGrow /\ MemFollowsDisk'
    BY <1>1 DEF MemFollowsDisk
<1>5. ASSUME NEW j \in Journals, Persist(j) \/ PersistFails(j), SameNonces(j, mem), mem' = j,
             run' = run, pc \in ({"reconcile"} \cup InScript \cup Repairing) \ {"recovering"},
             ~(pc = "returned" /\ err = "unknown")
      PROVE  JournalsGrow /\ MemFollowsDisk'
    <2>1. SameNonces(mem, journal[run])
        BY <1>5 DEF MemFollowsDisk
    <2> QED
        BY <1>5, <2>1, PersistGrows DEF MemFollowsDisk, SameNonces
<1>6. CASE Engine
    <2>1. ASSUME NEW t \in DOMAIN signer, SettleSigner(t) PROVE JournalsGrow /\ MemFollowsDisk'
        BY <2>1, <1>2 DEF SettleSigner
    <2>2. ASSUME NEW t \in DOMAIN signer, LaunchRecovery(t) PROVE JournalsGrow /\ MemFollowsDisk'
        BY <2>2, <1>1 DEF LaunchRecovery, disk, MemFollowsDisk
    <2>3. CASE OpenJournal
        BY <2>3, <1>1, HoldsFacts DEF OpenJournal, disk, MemFollowsDisk
    <2>4. CASE Exit
        BY <2>4, <1>1 DEF Exit, Idle, disk, MemFollowsDisk
    <2>5. ASSUME NEW l \in todo, Reconcile(l) PROVE JournalsGrow /\ MemFollowsDisk'
        <3> DEFINE j == Outcome(mem, l, Verdict(l))
        <3>1. j \in Journals /\ SameNonces(j, mem)
            BY <2>5, JournalsInHand, OutcomeFacts DEF Reconcile, Types, InHandRecorded
        <3> HIDE DEF j
        <3>2. CASE UNCHANGED <<journal, mem, fresh, mishaps, pc>>
            BY <2>5, <3>2, <1>3 DEF Reconcile
        <3>3. CASE ~UNCHANGED <<journal, mem, fresh, mishaps, pc>>
            BY <2>5, <3>1, <3>3, <1>5 DEF Reconcile, j
        <3> QED
            BY <3>2, <3>3
    <2>6. CASE ReconcileDone
        BY <2>6, <1>4 DEF ReconcileDone, disk
    <2>7. CASE JournalPrepared
        <3> DEFINE j == Prepare(mem, tx.label, tx.nonce)
        <3>1. j \in Journals /\ Holds(j, mem)
            BY PrepareFacts, JournalsInHand DEF Types, Txs, Nonces
        <3> HIDE DEF j
        <3>2. SameNonces(mem, journal[run]) /\ pc = "signed" /\ run' = run
            BY <2>7 DEF MemFollowsDisk, JournalPrepared
        <3>3. CASE UNCHANGED <<journal, mem>>
            BY <3>2, <3>3, <1>4
        <3>4. CASE mem' = j /\ Persist(j)
            BY <3>1, <3>2, <3>4, PersistGrows DEF MemFollowsDisk
        <3>5. CASE mem' = j /\ PersistFails(j) /\ Returned("unknown")
            BY <3>1, <3>2, <3>5, PersistGrows DEF MemFollowsDisk, Returned
        <3> QED
            BY <2>7, <3>3, <3>4, <3>5 DEF JournalPrepared, j
    <2>8. CASE ReserveNonce
        BY <2>8, <1>4 DEF ReserveNonce
    <2>9. CASE BroadcastTransaction
        BY <2>9, <1>4 DEF BroadcastTransaction, disk
    <2>10. CASE RecordBroadcast
        <3>1. pc = "accepted" /\ run' = run
            BY <2>10 DEF RecordBroadcast
        <3>2. Broadcasted(mem, tx.label) \in Journals /\ SameNonces(Broadcasted(mem, tx.label), mem)
            BY <3>1, JournalsInHand, BroadcastedFacts DEF Types
        <3> QED
            BY <2>10, <3>1, <3>2, <1>4, <1>5 DEF RecordBroadcast
    <2>11. CASE RecordSignerBroadcast
        BY <2>11, <1>4 DEF RecordSignerBroadcast
    <2>12. CASE RecordUnknown
        <3>1. pc = "unknown" /\ run' = run
            BY <2>12 DEF RecordUnknown
        <3>2. Outcome(mem, tx.label, "outcome-unknown") \in Journals
              /\ SameNonces(Outcome(mem, tx.label, "outcome-unknown"), mem)
            BY <3>1, JournalsInHand, OutcomeFacts DEF Types, Unsettled
        <3> QED
            BY <2>12, <3>1, <3>2, <1>5 DEF RecordUnknown
    <2>13. CASE RecordSignerUnknown
        BY <2>13, <1>4 DEF RecordSignerUnknown
    <2>14. CASE Wait \/ AwaitCanonical
        BY <2>14, <1>4 DEF Wait, AwaitCanonical, disk
    <2>15. CASE RecordOutcome
        <3> DEFINE v == IF pc = "unknown-outcome" THEN "outcome-unknown" ELSE pc
                   j == Outcome(mem, tx.label, v)
        <3>1. pc \in Mined \cup {"unknown-outcome"} /\ run' = run
            BY <2>15 DEF RecordOutcome
        <3>2. j \in Journals /\ SameNonces(j, mem)
            BY <3>1, JournalsInHand, OutcomeFacts DEF Types, Unsettled
        <3> HIDE DEF j
        <3>3. mem' = j /\ (Persist(j) \/ PersistFails(j))
            BY <2>15 DEF RecordOutcome, j
        <3> QED
            BY <3>1, <3>2, <3>3, <1>5
    <2>16. CASE OpenRecovery
        BY <2>16, <1>1, HoldsFacts DEF OpenRecovery, disk, MemFollowsDisk
    <2>17. CASE Abandon
        BY <2>17, <1>4 DEF Abandon
    <2>18. CASE ReserveAgain
        BY <2>18, <1>4 DEF ReserveAgain
    <2>19. CASE Rebroadcast
        <3>1. pc = "rebroadcast" /\ run' = run
            BY <2>19 DEF Rebroadcast
        <3>2. Outcome(mem, tx.label, StatusOf(tx)) \in Journals
              /\ SameNonces(Outcome(mem, tx.label, StatusOf(tx)), mem)
            BY <3>1, JournalsInHand, OutcomeFacts DEF Types, Control
        <3> QED
            BY <2>19, <3>1, <3>2, <1>4, <1>5 DEF Rebroadcast
    <2>20. CASE RecordRebroadcast
        <3>1. pc = "rebroadcasted" /\ run' = run
            BY <2>20 DEF RecordRebroadcast
        <3>2. Broadcasted(mem, tx.label) \in Journals /\ SameNonces(Broadcasted(mem, tx.label), mem)
            BY <3>1, JournalsInHand, BroadcastedFacts DEF Types, Control
        <3> QED
            BY <2>20, <3>1, <3>2, <1>5 DEF RecordRebroadcast
    <2>21. CASE Poll \/ SettleRecovered
        BY <2>21, <1>4 DEF Poll, SettleRecovered, disk
    <2> QED
        BY <1>6, <2>1, <2>2, <2>3, <2>4, <2>5, <2>6, <2>7, <2>8, <2>9, <2>10, <2>11, <2>12, <2>13,
           <2>14, <2>15, <2>16, <2>17, <2>18, <2>19, <2>20, <2>21 DEF Engine
<1>7. CASE Scripts
    <2>1. CASE ScriptGoes
        BY <1>1, <1>4, <1>7, <2>1, ScriptMoves DEF ScriptGoes, disk, MemFollowsDisk
    <2>2. CASE ScriptWrites /\ ~(pc = "returned" /\ err = "unknown")
        BY <1>5, <1>7, <2>2, ScriptMoves, HoldsFacts DEF ScriptWrites
    <2>3. CASE ScriptSigns
        BY <1>4, <2>3, SignFacts, LabelFacts DEF ScriptSigns, disk
    <2> QED
        BY <1>7, <2>1, <2>2, <2>3, ScriptMoves
<1>8. CASE Chain
    BY <1>3, <1>8
    DEF Chain, Mine, Finalize, Reorg, Evict, ArriveLate, offchain, process, disk
<1>9. CASE Crash
    BY <1>1, <1>9 DEF Crash, Idle, disk, MemFollowsDisk
<1>10. ASSUME NEW r \in {Deploy, Harness}, Launch(r) PROVE JournalsGrow /\ MemFollowsDisk'
    BY <1>1, <1>10 DEF Launch, disk, MemFollowsDisk
<1>11. CASE UNCHANGED vars
    BY <1>3, <1>11 DEF vars
<1> QED
    BY <1>6, <1>7, <1>8, <1>9, <1>10, <1>11 DEF Next

--------------------------------------------------------------------------------
(* The transaction in hand *)

(* What has been put on record is on record. *)
LEMMA RecordedFacts ==
    ASSUME NEW t, NEW s, signer' = Put(signer, t, s)
    PROVE  /\ t \in DOMAIN signer' /\ signer'[t] = s /\ DOMAIN signer' = DOMAIN signer \cup {t}
           /\ \A u \in DOMAIN signer \ {t} : signer'[u] = signer[u]
           /\ tx' = t => Recorded(tx)' = s
<1> DEFINE g == Put(signer, t, s)
<1>1. /\ t \in DOMAIN g /\ g[t] = s /\ DOMAIN g = DOMAIN signer \cup {t}
      /\ \A u \in DOMAIN signer \ {t} : g[u] = signer[u]
    BY PutValues
<1>2. signer' = g
    OBVIOUS
<1> HIDE DEF g
<1> QED
    BY <1>1, <1>2 DEF Recorded

(* What a node was handed is where it arrived. *)
LEMMA LeavesFacts ==
    ASSUME NEW t, NEW w, chain' = Put(chain, t, w)
    PROVE  /\ Handed' = Handed \cup {t} /\ chain'[t] = w
           /\ \A u \in Handed \ {t} : u \in Handed' /\ chain'[u] = chain[u]
<1> DEFINE g == Put(chain, t, w)
<1>1. /\ DOMAIN g = DOMAIN chain \cup {t} /\ g[t] = w
      /\ \A u \in DOMAIN chain \ {t} : g[u] = chain[u]
    BY DEF Put
<1>2. chain' = g
    OBVIOUS
<1> HIDE DEF g
<1> QED
    BY <1>1, <1>2 DEF Handed

(* What is being sent or repaired is in the journal and reserved. *)
LEMMA InHandStep == IInv /\ [Next]_vars => InHandRecorded'
<1> SUFFICES ASSUME IInv, Types, Control, InHandRecorded, MemFollowsDisk, AllRecorded, [Next]_vars
             PROVE  InHandRecorded'
    BY DEF IInv
<1> USE DEF InScript, Submitting, Repairing, Repaired, Mined
<1>1. UNCHANGED <<signer, chain, run, target, tx, mem, todo, pc>> => InHandRecorded'
    BY DEF InHandRecorded, Recorded, Handed, Journaled, Known
<1>2. pc' \in {"idle", "settling", "script", "exit", "signed", "returned"} => InHandRecorded'
    BY DEF InHandRecorded
<1>3. ASSUME NEW j, Holds(j, mem), mem' = j
      PROVE  /\ Journaled(mem, tx) => Journaled(j, tx)
             /\ \A l \in DOMAIN mem.tx : l \in DOMAIN j.tx
    BY <1>3, HoldsFacts DEF Holds
<1>4. CASE Engine
    <2>1. ASSUME NEW t \in DOMAIN signer, SettleSigner(t) PROVE InHandRecorded'
        BY <2>1, <1>2 DEF SettleSigner
    <2>2. ASSUME NEW t \in DOMAIN signer, LaunchRecovery(t) PROVE InHandRecorded'
        BY <2>2 DEF LaunchRecovery, InHandRecorded, Recorded, disk
    <2>3. CASE OpenJournal
        BY <2>3 DEF OpenJournal, InHandRecorded, disk, UnsettledIn, Control
    <2>4. CASE Exit
        BY <2>4, <1>2 DEF Exit, Idle
    <2>5. ASSUME NEW l \in todo, Reconcile(l) PROVE InHandRecorded'
        <3> DEFINE j == Outcome(mem, l, Verdict(l))
        <3>1. Holds(j, mem) /\ DOMAIN j.tx = DOMAIN mem.tx
            <4>1. l \in DOMAIN mem.tx /\ Verdict(l) \in Unsettled \cup Mined
                BY <2>5, JournalsInHand DEF Reconcile, InHandRecorded
            <4>2. mem \in Journals
                BY DEF Types
            <4>3. SameNonces(j, mem)
                BY <4>1, <4>2, OutcomeFacts
            <4> QED
                BY <4>3 DEF SameNonces, Holds
        <3> HIDE DEF j
        <3>2. /\ mem' = mem \/ mem' = j
              /\ pc = "reconcile" /\ pc' \in {"reconcile", "script", "exit"} /\ todo' \subseteq todo
              /\ UNCHANGED <<signer, chain, run, target, tx>>
            BY <2>5 DEF Reconcile, Stopped, j
        <3> QED
            BY <3>1, <3>2, <1>3 DEF InHandRecorded, Recorded
    <2>6. CASE ReconcileDone
        BY <2>6 DEF ReconcileDone, InHandRecorded, Recorded, disk, UnsettledIn, Stopped
    <2>7. CASE JournalPrepared
        <3> DEFINE j == Prepare(mem, tx.label, tx.nonce)
        <3>1. MayPrepare(mem, tx.label, tx.nonce) => Journaled(j, tx)
            BY PrepareFacts DEF Types, Txs, Nonces, Journaled, Known, MayPrepare, OtherHash
        <3> HIDE DEF j
        <3>2. pc' = "journaled" => Journaled(mem', tx')
            BY <2>7, <3>1 DEF JournalPrepared, Returned, j
        <3>3. pc' \in {"journaled", "returned"}
            BY <2>7 DEF JournalPrepared, Returned
        <3> QED
            BY <3>2, <3>3 DEF InHandRecorded
    <2>8. CASE ReserveNonce
        <3>1. pc' = "reserved" => signer' = Put(signer, tx, "prepared")
            BY <2>8 DEF ReserveNonce, AppendSigner, Returned
        <3>2. pc' = "reserved" => Recorded(tx)' \in Reserved
            <4>1. tx' = tx /\ tx \in Txs /\ "prepared" \in Reserved
                BY <2>8 DEF ReserveNonce, Types, Reserved
            <4> QED
                BY <3>1, <4>1, RecordedFacts
        <3>3. pc = "journaled" /\ pc' \in {"reserved", "returned"} /\ UNCHANGED <<mem, tx>>
            BY <2>8 DEF ReserveNonce, Returned
        <3> QED
            BY <3>2, <3>3 DEF InHandRecorded, Journaled, Known
    <2>9. CASE BroadcastTransaction
        BY <2>9 DEF BroadcastTransaction, disk, InHandRecorded, Recorded
    <2>10. CASE RecordBroadcast
        <3>1. pc = "accepted" /\ UNCHANGED <<signer, tx>> /\ pc' \in {"recorded", "unknown"}
            BY <2>10 DEF RecordBroadcast
        <3>2. Holds(Broadcasted(mem, tx.label), mem)
            BY <3>1, JournalsInHand, BroadcastedFacts DEF Types, SameNonces
        <3>3. mem' = mem \/ mem' = Broadcasted(mem, tx.label)
            BY <2>10 DEF RecordBroadcast
        <3> QED
            BY <3>1, <3>2, <3>3, <1>3 DEF InHandRecorded, Recorded
    <2>11. CASE RecordSignerBroadcast
        <3>1. pc = "recorded" /\ UNCHANGED <<mem, tx>> /\ pc' \in {"waiting", "unknown"}
              /\ (signer' = signer \/ signer' = Put(signer, tx, "broadcast"))
            BY <2>11 DEF RecordSignerBroadcast, AppendSigner, AppendSignerFails
        <3>2. Recorded(tx)' \in Reserved
            <4>1. tx \in Txs /\ {"broadcast", "outcome-unknown"} \subseteq Reserved
                  /\ Recorded(tx) \in Reserved
                BY <3>1 DEF Types, Reserved, InHandRecorded
            <4>2. signer' = signer => Recorded(tx)' = Recorded(tx)
                BY <3>1 DEF Recorded
            <4> QED
                BY <3>1, <4>1, <4>2, RecordedFacts
        <3> QED
            BY <3>1, <3>2 DEF InHandRecorded, Journaled, Known
    <2>12. CASE RecordUnknown
        <3>1. pc = "unknown" /\ UNCHANGED <<signer, tx>> /\ pc' = "unknown-signer"
            BY <2>12 DEF RecordUnknown
        <3>2. Holds(Outcome(mem, tx.label, "outcome-unknown"), mem)
            BY <3>1, JournalsInHand, OutcomeFacts DEF Types, Unsettled, SameNonces
        <3>3. mem' = Outcome(mem, tx.label, "outcome-unknown")
            BY <2>12 DEF RecordUnknown
        <3> QED
            BY <3>1, <3>2, <3>3, <1>3 DEF InHandRecorded, Recorded
    <2>13. CASE RecordSignerUnknown
        <3>1. pc = "unknown-signer" /\ UNCHANGED <<mem, tx>> /\ pc' = "unknown-outcome"
              /\ (signer' = signer \/ signer' = Put(signer, tx, "outcome-unknown"))
            BY <2>13 DEF RecordSignerUnknown, AppendSigner, AppendSignerFails
        <3>2. Recorded(tx)' \in Reserved
            <4>1. tx \in Txs /\ {"broadcast", "outcome-unknown"} \subseteq Reserved
                  /\ Recorded(tx) \in Reserved
                BY <3>1 DEF Types, Reserved, InHandRecorded
            <4>2. signer' = signer => Recorded(tx)' = Recorded(tx)
                BY <3>1 DEF Recorded
            <4> QED
                BY <3>1, <4>1, <4>2, RecordedFacts
        <3> QED
            BY <3>1, <3>2 DEF InHandRecorded, Journaled, Known
    <2>14. CASE Wait \/ AwaitCanonical
        BY <2>14 DEF Wait, AwaitCanonical, StatusOf, disk, InHandRecorded, Recorded, Journaled, Known
    <2>15. CASE RecordOutcome
        BY <2>15, <1>2 DEF RecordOutcome, Returned
    <2>16. CASE OpenRecovery
        <3>1. pc = "recovering" /\ UNCHANGED <<signer, chain, run, target, tx>>
              /\ mem' = journal[run] /\ todo' = UnsettledIn(journal[run]) /\ target # "run"
            BY <2>16 DEF OpenRecovery, disk, Control
        <3>2. pc' = "abandon" => ~Journaled(journal[run], tx) /\ tx.label \in Historical
            BY <2>16 DEF OpenRecovery, ProvenUnsent
        <3>3. tx \in Handed => Journaled(journal[run], tx) \/ tx.label \notin Historical
            BY <3>1 DEF AllRecorded, Inherited, InHandRecorded
        <3>4. /\ pc' \in {"reconcile", "reserve-again"} => Journaled(mem', tx)
              /\ pc' = "reconcile" => Recorded(tx) # "abandoned-prebroadcast"
              /\ pc' \in {"exit", "abandon", "reconcile", "reserve-again"}
            BY <2>16 DEF OpenRecovery
        <3>5. RunOf[tx.label] = run /\ Recorded(tx) \in Reserved \cup {"abandoned-prebroadcast"}
            BY <3>1 DEF InHandRecorded
        <3> QED
            BY <3>1, <3>2, <3>3, <3>4, <3>5
            DEF InHandRecorded, Recorded, UnsettledIn, Handed, Journaled, Known
    <2>17. CASE Abandon
        BY <2>17, <1>2 DEF Abandon
    <2>18. CASE ReserveAgain
        <3>1. pc = "reserve-again" /\ UNCHANGED <<mem, tx, run, target, todo, chain>>
              /\ pc' \in {"reconcile", "exit"}
              /\ (pc' = "reconcile" => signer' = Put(signer, tx, "prepared"))
            BY <2>18 DEF ReserveAgain, AppendSigner
        <3>2. pc' = "reconcile" => Recorded(tx)' \in Reserved
            <4>1. tx \in Txs /\ "prepared" \in Reserved
                BY DEF Types, Reserved
            <4> QED
                BY <3>1, <4>1, RecordedFacts
        <3> QED
            BY <3>1, <3>2 DEF InHandRecorded, Journaled, Known, Control
    <2>19. CASE Rebroadcast
        <3>1. pc = "rebroadcast" /\ UNCHANGED <<signer, run, target, tx, todo>>
              /\ pc' \in {"exit", "polling", "rebroadcasted"}
            BY <2>19 DEF Rebroadcast
        <3>2. Holds(Outcome(mem, tx.label, StatusOf(tx)), mem)
            BY <3>1, JournalsInHand, OutcomeFacts DEF Types, Control, SameNonces
        <3>3. mem' = mem \/ mem' = Outcome(mem, tx.label, StatusOf(tx))
            BY <2>19 DEF Rebroadcast
        <3> QED
            BY <3>1, <3>2, <3>3, <1>3 DEF InHandRecorded, Recorded, Control
    <2>20. CASE RecordRebroadcast
        <3>1. pc = "rebroadcasted" /\ UNCHANGED <<signer, run, target, tx, todo>>
              /\ pc' \in {"exit", "polling"}
            BY <2>20 DEF RecordRebroadcast
        <3>2. Holds(Broadcasted(mem, tx.label), mem)
            BY <3>1, JournalsInHand, BroadcastedFacts DEF Types, Control, SameNonces
        <3>3. mem' = Broadcasted(mem, tx.label)
            BY <2>20 DEF RecordRebroadcast
        <3> QED
            BY <3>1, <3>2, <3>3, <1>3 DEF InHandRecorded, Recorded, Control
    <2>21. CASE Poll
        BY <2>21 DEF Poll, disk, InHandRecorded, Recorded, UnsettledIn, Journaled, Known, Control
    <2>22. CASE SettleRecovered
        BY <2>22, <1>2 DEF SettleRecovered
    <2> QED
        BY <1>4, <2>1, <2>2, <2>3, <2>4, <2>5, <2>6, <2>7, <2>8, <2>9, <2>10, <2>11, <2>12, <2>13,
           <2>14, <2>15, <2>16, <2>17, <2>18, <2>19, <2>20, <2>21, <2>22 DEF Engine
<1>5. CASE Scripts
    BY <1>2, <1>5, ScriptMoves, SignFacts, LabelFacts DEF ScriptGoes, ScriptWrites, ScriptSigns
<1>6. CASE Chain
    <2>1. Handed' = Handed /\ UNCHANGED offchain
        BY <1>6, ChainMoves
        DEF Chain, Mine, Finalize, Reorg, Evict, ArriveLate, Places, Included, Mined, Final
    <2> QED
        BY <2>1 DEF offchain, process, disk, InHandRecorded, Recorded, Journaled, Known
<1>7. CASE Crash
    BY <1>2, <1>7 DEF Crash, Idle
<1>8. ASSUME NEW r \in {Deploy, Harness}, Launch(r) PROVE InHandRecorded'
    BY <1>2, <1>8 DEF Launch
<1>9. CASE UNCHANGED vars
    BY <1>1, <1>9 DEF vars
<1> QED
    BY <1>4, <1>5, <1>6, <1>7, <1>8, <1>9 DEF Next
--------------------------------------------------------------------------------
(* The writes to the signer's record, and the moves of the chain *)

\* who appends what to the signer's record, and when
Appends(t, s) ==
    \/ pc = "settling" /\ Recorded(t) \in Reserved /\ Confirmed(t) /\ s = StatusOf(t)
    \/ pc \in {"journaled", "reserve-again"} /\ t = tx /\ s = "prepared" /\ MayReserve(tx)
    \/ pc \in {"recorded", "unknown-signer"} /\ t = tx /\ s \in {"broadcast", "outcome-unknown"}
    \/ pc = "abandon" /\ t = tx /\ s = "abandoned-prebroadcast"
    \/ pc = "settle" /\ t = tx /\ s = mem.tx[tx.label].status
SignerWritten ==
    \E t \in Txs, s \in Reserved \cup Terminal : signer' = Put(signer, t, s) /\ Appends(t, s)

\* the request of a submission, or of the recovery tool, leaves the process
Leaves(w) ==
    /\ pc \in {"reserved", "rebroadcast"} /\ ~Seen(tx) /\ chain' = Put(chain, tx, w)
    /\ (w = "pending" => Acceptable(tx)) /\ UNCHANGED <<journal, signer, givenUp, run, tx>>

(* Every append to the signer's record is one of these. *)
LEMMA SignerMoves ==
    ASSUME IInv, [Next]_vars
    PROVE  /\ signer' = signer \/ SignerWritten
           /\ signer' # signer => chain' = chain
           /\ givenUp' = givenUp \/ (pc = "abandon" /\ givenUp' = givenUp \cup {tx} /\ chain' = chain)
           /\ pc = "abandon" /\ signer' # signer => tx \in givenUp'
<1> USE DEF IInv
<1>0. /\ tx \in Txs /\ DOMAIN signer \subseteq Txs /\ (\A t : StatusOf(t) \in Mined)
      /\ {"prepared", "broadcast", "outcome-unknown"} \subseteq Reserved
      /\ "abandoned-prebroadcast" \in Terminal /\ Mined \subseteq Terminal
    BY DEF Types, OfTxs, StatusOf, Mined, Reserved, Terminal
<1>1. CASE Engine
    <2>1. ASSUME NEW t \in DOMAIN signer, SettleSigner(t)
          PROVE  /\ signer' = signer \/ SignerWritten
                 /\ pc = "settling" /\ chain' = chain /\ givenUp' = givenUp
        <3>1. t \in Txs /\ StatusOf(t) \in Reserved \cup Terminal
            BY <1>0
        <3>2. signer' = signer \/ (signer' = Put(signer, t, StatusOf(t)) /\ Appends(t, StatusOf(t)))
            BY <2>1 DEF SettleSigner, AppendSigner, AppendSignerFails, Appends
        <3> QED
            BY <2>1, <3>1, <3>2 DEF SignerWritten, SettleSigner
    <2>2. CASE ReserveNonce \/ ReserveAgain
        <3>1. signer' = signer \/ (signer' = Put(signer, tx, "prepared") /\ Appends(tx, "prepared"))
            BY <2>2 DEF ReserveNonce, ReserveAgain, AppendSigner, AppendSignerFails, Appends
        <3> QED
            BY <1>0, <2>2, <3>1 DEF SignerWritten, ReserveNonce, ReserveAgain
    <2>3. CASE RecordSignerBroadcast \/ RecordSignerUnknown
        <3>1. \E s \in {"broadcast", "outcome-unknown"} :
                  signer' = signer \/ (signer' = Put(signer, tx, s) /\ Appends(tx, s))
            BY <2>3
            DEF RecordSignerBroadcast, RecordSignerUnknown, AppendSigner, AppendSignerFails, Appends
        <3> QED
            BY <1>0, <2>3, <3>1 DEF SignerWritten, RecordSignerBroadcast, RecordSignerUnknown
    <2>4. CASE Abandon
        <3>1. \/ signer' = signer
              \/ signer' = Put(signer, tx, "abandoned-prebroadcast") /\ Appends(tx, "abandoned-prebroadcast")
            BY <2>4 DEF Abandon, AppendSigner, AppendSignerFails, Appends
        <3> QED
            BY <1>0, <2>4, <3>1 DEF SignerWritten, Abandon
    <2>5. CASE SettleRecovered
        <3> DEFINE s == mem.tx[tx.label].status
        <3>1. tx.label \in DOMAIN mem.tx
            BY <2>5 DEF SettleRecovered, Control, InHandRecorded, Journaled, Known, Repaired, Repairing
        <3>2. s \in Reserved \cup Terminal
            BY <3>1, EntryFacts DEF Types, Unsettled, Reserved, Terminal
        <3>3. signer' = signer \/ (signer' = Put(signer, tx, s) /\ Appends(tx, s))
            BY <2>5 DEF SettleRecovered, AppendSigner, AppendSignerFails, Appends
        <3> QED
            BY <1>0, <2>5, <3>2, <3>3 DEF SignerWritten, SettleRecovered
    <2>6. CASE ~(ReserveNonce \/ ReserveAgain \/ RecordSignerBroadcast \/ RecordSignerUnknown
                 \/ Abandon \/ SettleRecovered \/ \E t \in DOMAIN signer : SettleSigner(t))
        BY <1>1, <2>6
        DEF Engine, LaunchRecovery, OpenJournal, Exit, Reconcile, ReconcileDone, JournalPrepared,
            BroadcastTransaction, RecordBroadcast, RecordUnknown, Wait, AwaitCanonical,
            RecordOutcome, OpenRecovery, Rebroadcast, RecordRebroadcast, Poll, disk
    <2> QED
        BY <2>1, <2>2, <2>3, <2>4, <2>5, <2>6
<1>2. CASE Scripts
    BY <1>2, ScriptMoves DEF ScriptGoes, ScriptWrites, ScriptSigns, Sign, disk
<1>3. CASE Chain
    BY <1>3 DEF Chain, Mine, Finalize, Reorg, Evict, ArriveLate, offchain, disk
<1>4. CASE Crash \/ (\E r \in {Deploy, Harness} : Launch(r)) \/ UNCHANGED vars
    BY <1>4 DEF Crash, Launch, Idle, disk, vars
<1> QED
    BY <1>1, <1>2, <1>3, <1>4 DEF Next

(* A node is handed only what a submission or the recovery tool sends. *)
LEMMA HandedMoves ==
    ASSUME IInv, [Next]_vars
    PROVE  chain' = chain \/ Chain \/ \E w \in {"absent", "pending"} : Leaves(w)
<1> USE DEF IInv
<1>1. CASE BroadcastTransaction \/ Rebroadcast
    BY <1>1
    DEF BroadcastTransaction, Rebroadcast, Arrives, InFlight, Leaves, disk, Absent
<1>2. CASE Engine /\ ~BroadcastTransaction /\ ~Rebroadcast
    BY <1>2
    DEF Engine, SettleSigner, LaunchRecovery, OpenJournal, Exit, Reconcile, ReconcileDone,
        JournalPrepared, ReserveNonce, RecordBroadcast, RecordSignerBroadcast, RecordUnknown,
        RecordSignerUnknown, Wait, AwaitCanonical, RecordOutcome, OpenRecovery, Abandon,
        ReserveAgain, RecordRebroadcast, Poll, SettleRecovered, disk
<1>3. CASE Scripts
    BY <1>3, ScriptMoves DEF ScriptGoes, ScriptWrites, ScriptSigns, Sign
<1>4. CASE Crash \/ (\E r \in {Deploy, Harness} : Launch(r)) \/ UNCHANGED vars
    BY <1>4 DEF Crash, Launch, Idle, vars
<1> QED
    BY <1>1, <1>2, <1>3, <1>4 DEF Next
(* Nothing leaves the process before both records have it. *)
LEMMA RecordedStep == IInv /\ [Next]_vars => AllRecorded'
<1> SUFFICES ASSUME IInv, [Next]_vars PROVE AllRecorded'
    OBVIOUS
<1> USE DEF IInv
<1>1. \A t \in Handed : t \in DOMAIN signer' /\ signer'[t] # "abandoned-prebroadcast"
    <2>1. CASE signer' = signer
        BY <2>1 DEF AllRecorded
    <2>2. ASSUME NEW t \in Txs, NEW s \in Reserved \cup Terminal, signer' = Put(signer, t, s),
                 Appends(t, s)
          PROVE  \A u \in Handed : u \in DOMAIN signer' /\ signer'[u] # "abandoned-prebroadcast"
        <3>1. pc = "abandon" => tx \notin Handed
            BY DEF InHandRecorded
        <3>2. pc = "settle" => mem.tx[tx.label].status # "abandoned-prebroadcast"
            <4>1. pc = "settle" => tx.label \in DOMAIN mem.tx
                BY DEF Control, InHandRecorded, Journaled, Known, Repaired, Repairing
            <4> QED
                BY <4>1, EntryFacts DEF Types, Unsettled, Mined
        <3>3. t \in Handed => s # "abandoned-prebroadcast"
            BY <2>2, <3>1, <3>2 DEF Appends, StatusOf
        <3> QED
            BY <2>2, <3>3, RecordedFacts DEF AllRecorded
    <2> QED
        BY <2>1, <2>2, SignerMoves DEF SignerWritten
<1>2. ASSUME NEW t \in Handed
      PROVE  Journaled(journal'[RunOf[t.label]], t) \/ t.label \in Inherited
    <2>1. RunOf[t.label] \in Runs
        BY RunOfLabels DEF Types, OfTxs, Txs, Handed
    <2> QED
        BY <2>1, JournalStep, HoldsFacts DEF AllRecorded, JournalsGrow
<1>3. CASE Handed' = Handed
    BY <1>1, <1>2, <1>3 DEF AllRecorded
<1>4. ASSUME NEW w \in {"absent", "pending"}, Leaves(w) PROVE AllRecorded'
    <2>1. Handed' = Handed \cup {tx} /\ UNCHANGED <<journal, signer>>
          /\ pc \in {"reserved", "rebroadcast"}
        BY <1>4, PutValues DEF Leaves, Handed
    <2>2. RunOf[tx.label] = run /\ Journaled(mem, tx) /\ Recorded(tx) \in Reserved
        BY <2>1 DEF Control, InHandRecorded, Submitting, Repaired, Repairing
    <2>3. SameNonces(mem, journal[run])
        BY <2>1 DEF MemFollowsDisk, InScript, Submitting, Repairing
    <2>4. Journaled(journal[run], tx)
        BY <2>2, <2>3, HoldsFacts DEF SameNonces
    <2>5. tx \in DOMAIN signer /\ signer[tx] # "abandoned-prebroadcast"
        BY <2>2 DEF Recorded, Reserved
    <2> QED
        BY <1>1, <1>2, <2>1, <2>2, <2>4, <2>5 DEF AllRecorded
<1>5. Chain => Handed' = Handed
    BY ChainMoves DEF Chain, Mine, Finalize, Reorg, Evict, ArriveLate, Places, Included, Mined, Final
<1> QED
    BY <1>3, <1>4, <1>5, HandedMoves DEF Handed

--------------------------------------------------------------------------------
(* The writes to the journals, and what the recovery tool can still read *)

\* who changes the journal in memory, and to what
Changes(j) ==
    \/ pc = "signed" /\ MayPrepare(mem, tx.label, tx.nonce) /\ j = Prepare(mem, tx.label, tx.nonce)
    \/ pc \in {"accepted", "rebroadcasted"} /\ j = Broadcasted(mem, tx.label)
    \/ pc = "reconcile" /\ \E l \in todo : j = Outcome(mem, l, Verdict(l))
    \/ pc \in {"unknown", "unknown-outcome"} /\ j = Outcome(mem, tx.label, "outcome-unknown")
    \/ pc \in Mined /\ j = Outcome(mem, tx.label, pc)
    \/ pc = "rebroadcast" /\ Confirmed(tx) /\ j = Outcome(mem, tx.label, StatusOf(tx))
    \/ pc \in {"script", "returned"} /\ j.tx = mem.tx
JournalWritten ==
    \E j \in Journals : /\ mem' = j /\ Changes(j) /\ (Persist(j) \/ PersistFails(j))
                        /\ UNCHANGED <<run, chain, signer, tx, target>>
JournalOpened == /\ pc \in {"settling", "recovering"} /\ mem' = journal[run]
                 /\ UNCHANGED <<run, target, chain, signer, tx>>

(* Every step leaves the journals alone, opens one, forgets it, or is such a write. *)
LEMMA JournalMoves ==
    ASSUME IInv, [Next]_vars
    PROVE  \/ journal' = journal /\ mem' = mem
           \/ journal' = journal /\ JournalOpened
           \/ journal' = journal /\ mem' = EmptyJournal /\ pc' = "idle"
           \/ JournalWritten
<1> USE DEF IInv, InScript, Submitting, Repairing, Mined
<1>0. ASSUME NEW j \in Journals, mem' = j, Changes(j), Persist(j) \/ PersistFails(j),
             UNCHANGED <<run, chain, signer, tx, target>>
      PROVE  JournalWritten
    BY <1>0 DEF JournalWritten
<1>1. CASE Engine
    <2>1. CASE OpenJournal \/ OpenRecovery
        BY <2>1 DEF OpenJournal, OpenRecovery, JournalOpened, disk
    <2>2. CASE Exit
        BY <2>2 DEF Exit, Idle, disk
    <2>3. ASSUME NEW l \in todo, Reconcile(l)
          PROVE  (journal' = journal /\ mem' = mem) \/ JournalWritten
        <3> DEFINE j == Outcome(mem, l, Verdict(l))
        <3>1. j \in Journals /\ Changes(j)
            BY <2>3, JournalsInHand DEF Reconcile, Changes
        <3> HIDE DEF j
        <3> QED
            BY <2>3, <3>1, <1>0 DEF Reconcile, j
    <2>4. CASE JournalPrepared
        <3> DEFINE j == Prepare(mem, tx.label, tx.nonce)
        <3>1. j \in Journals /\ (MayPrepare(mem, tx.label, tx.nonce) /\ pc = "signed" => Changes(j))
            BY JournalsInHand DEF Changes
        <3> HIDE DEF j
        <3> QED
            BY <2>4, <3>1, <1>0 DEF JournalPrepared, j
    <2>5. CASE RecordBroadcast \/ RecordRebroadcast
        <3> DEFINE j == Broadcasted(mem, tx.label)
        <3>1. pc \in {"accepted", "rebroadcasted"}
            BY <2>5 DEF RecordBroadcast, RecordRebroadcast
        <3>2. j \in Journals /\ Changes(j)
            BY <3>1, JournalsInHand DEF Changes, Control
        <3> HIDE DEF j
        <3> QED
            BY <2>5, <3>2, <1>0 DEF RecordBroadcast, RecordRebroadcast, j
    <2>6. CASE RecordUnknown
        <3> DEFINE j == Outcome(mem, tx.label, "outcome-unknown")
        <3>1. pc = "unknown"
            BY <2>6 DEF RecordUnknown
        <3>2. j \in Journals /\ Changes(j)
            BY <3>1, JournalsInHand DEF Changes, Unsettled
        <3> HIDE DEF j
        <3> QED
            BY <2>6, <3>2, <1>0 DEF RecordUnknown, j
    <2>7. CASE RecordOutcome
        <3> DEFINE v == IF pc = "unknown-outcome" THEN "outcome-unknown" ELSE pc
                   j == Outcome(mem, tx.label, v)
        <3>1. pc \in Mined \cup {"unknown-outcome"}
            BY <2>7 DEF RecordOutcome
        <3>2. j \in Journals /\ Changes(j)
            BY <3>1, JournalsInHand DEF Changes, Unsettled
        <3> HIDE DEF j
        <3> QED
            BY <2>7, <3>2, <1>0 DEF RecordOutcome, j
    <2>8. CASE Rebroadcast
        <3> DEFINE j == Outcome(mem, tx.label, StatusOf(tx))
        <3>1. pc = "rebroadcast"
            BY <2>8 DEF Rebroadcast
        <3>2. j \in Journals /\ (Confirmed(tx) => Changes(j))
            BY <3>1, JournalsInHand DEF Changes, Control
        <3> HIDE DEF j
        <3> QED
            BY <2>8, <3>2, <1>0 DEF Rebroadcast, j
    <2>9. CASE ~(OpenJournal \/ OpenRecovery \/ Exit \/ (\E l \in todo : Reconcile(l))
                 \/ JournalPrepared \/ RecordBroadcast \/ RecordRebroadcast \/ RecordUnknown
                 \/ RecordOutcome \/ Rebroadcast)
        BY <1>1, <2>9
        DEF Engine, SettleSigner, LaunchRecovery, ReconcileDone, ReserveNonce,
            BroadcastTransaction, RecordSignerBroadcast, RecordSignerUnknown, Wait,
            AwaitCanonical, Abandon, ReserveAgain, Poll, SettleRecovered, disk
    <2> QED
        BY <2>1, <2>2, <2>3, <2>4, <2>5, <2>6, <2>7, <2>8, <2>9
<1>2. CASE Scripts
    <2>1. CASE ScriptWrites
        BY <1>2, <2>1, <1>0, ScriptMoves DEF ScriptWrites, Changes
    <2> QED
        BY <1>2, <2>1, ScriptMoves DEF ScriptGoes, ScriptSigns, Sign, disk
<1>3. CASE Chain
    BY <1>3 DEF Chain, Mine, Finalize, Reorg, Evict, ArriveLate, offchain, disk, process
<1>4. CASE Crash
    BY <1>4 DEF Crash, Idle, disk
<1>5. CASE (\E r \in {Deploy, Harness} : Launch(r)) \/ UNCHANGED vars
    BY <1>5 DEF Launch, disk, vars
<1> QED
    BY <1>1, <1>2, <1>3, <1>4, <1>5 DEF Next

\* a payload is kept exactly until the transaction is settled
Tidy(j) == \A l \in DOMAIN j.tx : j.tx[l].payload <=> j.tx[l].status \in Unsettled
AllTidy == Tidy(mem) /\ \A r \in Runs : Tidy(journal[r])
\* what is being sent or inspected is open in the journal in memory
OpenInHand ==
    /\ pc \in Submitting \cup {"rebroadcasted"} => mem.tx[tx.label].payload
    /\ pc \in {"reconcile", "reserve-again"} => todo \subseteq UnsettledIn(mem)
    /\ pc = "settle" => tx.label \notin UnsettledIn(mem)

(* Every write keeps a payload exactly with the transactions that are open. *)
LEMMA TidyStep == IInv /\ AllTidy /\ OpenInHand /\ [Next]_vars => AllTidy'
<1> SUFFICES ASSUME IInv, AllTidy, OpenInHand, [Next]_vars PROVE AllTidy'
    OBVIOUS
<1> USE DEF IInv, Submitting
<1>0. run \in Runs /\ journal \in [Runs -> Journals] /\ mem \in Journals /\ tx.label \in Labels
      /\ tx.nonce \in Nat
    BY DEF Types, Txs, Nonces
<1>1. Tidy(EmptyJournal)
    BY EmptyFacts DEF Tidy
<1>2. ASSUME NEW j, Changes(j) PROVE Tidy(j)
    <2> USE DEF Tidy, AllTidy
    <2>1. CASE pc = "signed" /\ j = Prepare(mem, tx.label, tx.nonce)
        <3> DEFINE k == Prepare(mem, tx.label, tx.nonce)
        <3>1. /\ DOMAIN k.tx = DOMAIN mem.tx \cup {tx.label}
              /\ \A l \in DOMAIN mem.tx : k.tx[l] = mem.tx[l]
              /\ tx.label \notin DOMAIN mem.tx =>
                     k.tx[tx.label].payload /\ k.tx[tx.label].status = "prepared"
            BY <1>0, PrepareFacts
        <3> HIDE DEF k
        <3>2. Tidy(k)
            BY <3>1 DEF Unsettled
        <3> QED
            BY <2>1, <3>2 DEF k
    <2>2. ASSUME NEW l \in DOMAIN mem.tx, NEW s \in Unsettled \cup Mined, j = Outcome(mem, l, s),
                 s \in Unsettled => mem.tx[l].payload
          PROVE  Tidy(j)
        <3> DEFINE k == Outcome(mem, l, s)
        <3>1. /\ DOMAIN k.tx = DOMAIN mem.tx /\ k.tx[l].status = s
              /\ k.tx[l].payload = (IF s \in Mined THEN FALSE ELSE mem.tx[l].payload)
              /\ \A m \in DOMAIN mem.tx \ {l} : k.tx[m] = mem.tx[m]
            BY <1>0, OutcomeFacts
        <3> HIDE DEF k
        <3>2. Tidy(k)
            BY <2>2, <3>1 DEF Unsettled, Mined
        <3> QED
            BY <2>2, <3>2 DEF k
    <2>3. CASE pc \in {"accepted", "rebroadcasted"} /\ j = Broadcasted(mem, tx.label)
        <3> DEFINE k == Broadcasted(mem, tx.label)
        <3>0. tx.label \in DOMAIN mem.tx /\ mem.tx[tx.label].payload
            BY <2>3, JournalsInHand DEF OpenInHand, Control, Repairing
        <3>1. /\ DOMAIN k.tx = DOMAIN mem.tx /\ k.tx[tx.label].status = "broadcast"
              /\ k.tx[tx.label].payload = mem.tx[tx.label].payload
              /\ \A m \in DOMAIN mem.tx \ {tx.label} : k.tx[m] = mem.tx[m]
            BY <1>0, <3>0, BroadcastedFacts
        <3> HIDE DEF k
        <3>2. Tidy(k)
            BY <3>0, <3>1 DEF Unsettled
        <3> QED
            BY <2>3, <3>2 DEF k
    <2>4. ASSUME pc = "reconcile", NEW l \in todo, j = Outcome(mem, l, Verdict(l)) PROVE Tidy(j)
        <3>1. l \in DOMAIN mem.tx /\ mem.tx[l].payload /\ Verdict(l) \in Unsettled \cup Mined
            BY <2>4, JournalsInHand DEF OpenInHand, UnsettledIn
        <3> QED
            BY <2>2, <2>4, <3>1
    <2>5. CASE pc \in {"unknown", "unknown-outcome"} /\ j = Outcome(mem, tx.label, "outcome-unknown")
        <3>1. tx.label \in DOMAIN mem.tx /\ mem.tx[tx.label].payload /\ "outcome-unknown" \in Unsettled
            BY <2>5, JournalsInHand DEF OpenInHand, Unsettled
        <3> QED
            BY <2>2, <2>5, <3>1
    <2>6. CASE pc \in Mined /\ j = Outcome(mem, tx.label, pc)
        <3>1. tx.label \in DOMAIN mem.tx /\ pc \notin Unsettled
            BY <2>6, JournalsInHand DEF Unsettled, Mined
        <3> QED
            BY <2>2, <2>6, <3>1
    <2>7. CASE pc = "rebroadcast" /\ j = Outcome(mem, tx.label, StatusOf(tx))
        <3>1. tx.label \in DOMAIN mem.tx /\ StatusOf(tx) \in Mined /\ StatusOf(tx) \notin Unsettled
            BY <2>7, JournalsInHand DEF Unsettled, Mined, StatusOf, Control, Repairing
        <3> QED
            BY <2>2, <2>7, <3>1
    <2>8. CASE j.tx = mem.tx
        BY <2>8
    <2> QED
        BY <1>2, <2>1, <2>3, <2>4, <2>5, <2>6, <2>7, <2>8 DEF Changes
<1>3. CASE journal' = journal /\ mem' = mem
    BY <1>3 DEF AllTidy
<1>4. CASE journal' = journal /\ (JournalOpened \/ mem' = EmptyJournal)
    BY <1>0, <1>1, <1>4 DEF AllTidy, JournalOpened
<1>5. ASSUME NEW j \in Journals, mem' = j, Changes(j), Persist(j) \/ PersistFails(j) PROVE AllTidy'
    <2>1. Tidy(j)
        BY <1>2, <1>5
    <2>2. journal' = journal \/ journal' = [journal EXCEPT ![run] = j]
        BY <1>5, PersistFacts DEF Types
    <2>3. \A r \in Runs : journal'[r] \in {journal[r], j}
        BY <1>0, <2>2
    <2> QED
        BY <1>5, <2>1, <2>3 DEF AllTidy
<1> QED
    BY <1>3, <1>4, <1>5, JournalMoves DEF JournalWritten

(* What is inspected, sent again or settled is open, or settled, in the journal. *)
LEMMA OpenStep == IInv /\ AllTidy /\ OpenInHand /\ [Next]_vars => OpenInHand'
<1> SUFFICES ASSUME IInv, AllTidy, OpenInHand, [Next]_vars PROVE OpenInHand'
    OBVIOUS
<1>a. ASSUME IInv, NEW l \in DOMAIN mem.tx, NEW s \in Unsettled \cup Mined
      PROVE  /\ DOMAIN Outcome(mem, l, s).tx = DOMAIN mem.tx
             /\ \A m \in DOMAIN mem.tx \ {l} : Outcome(mem, l, s).tx[m] = mem.tx[m]
             /\ s \notin Mined => Outcome(mem, l, s).tx[l].payload = mem.tx[l].payload
    <2> DEFINE k == Outcome(mem, l, s)
    <2>1. mem \in Journals
        BY <1>a DEF IInv, Types
    <2>2. /\ DOMAIN k.tx = DOMAIN mem.tx
          /\ \A m \in DOMAIN mem.tx \ {l} : k.tx[m] = mem.tx[m]
          /\ k.tx[l].payload = (IF s \in Mined THEN FALSE ELSE mem.tx[l].payload)
        BY <2>1, OutcomeFacts
    <2> HIDE DEF k
    <2> QED
        BY <2>2 DEF k
<1> USE DEF IInv, Submitting, Mined
<1>0. tx.label \in Labels /\ tx.nonce \in Nat /\ mem \in Journals
    BY DEF Types, Txs, Nonces
<1>1. pc' \in {"idle", "settling", "recovering", "script", "exit", "signed", "returned", "polling",
               "abandon"} => OpenInHand'
    BY DEF OpenInHand
<1>2. UNCHANGED <<pc, tx, mem, todo>> => OpenInHand'
    BY DEF OpenInHand, UnsettledIn
<1>3. UNCHANGED <<tx, mem>> /\ pc \in Submitting /\ pc' \in Submitting => OpenInHand'
    BY DEF OpenInHand
<1>4. CASE Engine
    <2>1. ASSUME NEW t \in DOMAIN signer, SettleSigner(t) \/ LaunchRecovery(t) PROVE OpenInHand'
        BY <2>1, <1>1 DEF SettleSigner, LaunchRecovery
    <2>2. CASE OpenJournal
        BY <2>2 DEF OpenJournal, OpenInHand, UnsettledIn
    <2>3. CASE Exit \/ RecordOutcome \/ Abandon \/ SettleRecovered \/ RecordRebroadcast
        BY <2>3, <1>1
        DEF Exit, Idle, RecordOutcome, Returned, Abandon, SettleRecovered, RecordRebroadcast
    <2>4. ASSUME NEW l \in todo, Reconcile(l) PROVE OpenInHand'
        <3> DEFINE j == Outcome(mem, l, Verdict(l))
        <3>1. pc = "reconcile" /\ pc' \in {"reconcile", "script", "exit"} /\ todo' = todo \ {l}
              /\ todo \subseteq UnsettledIn(mem)
            BY <2>4 DEF Reconcile, OpenInHand, Stopped
        <3>2. l \in DOMAIN mem.tx /\ Verdict(l) \in Unsettled \cup Mined
            BY <3>1, JournalsInHand DEF UnsettledIn
        <3>3. DOMAIN j.tx = DOMAIN mem.tx /\ \A m \in DOMAIN mem.tx \ {l} : j.tx[m] = mem.tx[m]
            BY <3>2, <1>a
        <3> HIDE DEF j
        <3>4. UnsettledIn(mem) \ {l} \subseteq UnsettledIn(j)
            BY <3>3 DEF UnsettledIn
        <3>5. mem' = mem \/ mem' = j
            BY <2>4 DEF Reconcile, j
        <3>6. todo' \subseteq UnsettledIn(mem')
            BY <3>1, <3>4, <3>5
        <3> QED
            BY <3>1, <3>6 DEF OpenInHand, UnsettledIn
    <2>5. CASE ReconcileDone
        BY <2>5 DEF ReconcileDone, OpenInHand, UnsettledIn, Stopped
    <2>6. CASE JournalPrepared
        <3> DEFINE k == Prepare(mem, tx.label, tx.nonce)
        <3>1. /\ \A l \in DOMAIN mem.tx : k.tx[l] = mem.tx[l]
              /\ tx.label \notin DOMAIN mem.tx => k.tx[tx.label].payload
            BY <1>0, PrepareFacts
        <3> HIDE DEF k
        <3>2. pc' = "journaled" => mem' = k /\ tx' = tx /\ MayPrepare(mem, tx.label, tx.nonce)
            BY <2>6 DEF JournalPrepared, Returned, k
        <3>3. pc' \in {"journaled", "returned"}
            BY <2>6 DEF JournalPrepared, Returned
        <3> QED
            BY <3>1, <3>2, <3>3 DEF OpenInHand, MayPrepare, Known
    <2>7. CASE ReserveNonce \/ BroadcastTransaction \/ RecordSignerBroadcast \/ RecordSignerUnknown
               \/ Wait \/ AwaitCanonical
        BY <2>7, <1>1, <1>3
        DEF ReserveNonce, Returned, BroadcastTransaction, RecordSignerBroadcast,
            RecordSignerUnknown, Wait, AwaitCanonical, StatusOf
    <2>8. CASE RecordBroadcast
        <3> DEFINE k == Broadcasted(mem, tx.label)
        <3>0. pc = "accepted" /\ tx' = tx /\ pc' \in {"recorded", "unknown"}
            BY <2>8 DEF RecordBroadcast
        <3>1. k.tx[tx.label].payload = mem.tx[tx.label].payload
            BY <1>0, <3>0, JournalsInHand, BroadcastedFacts
        <3> HIDE DEF k
        <3>2. mem' = mem \/ mem' = k
            BY <2>8 DEF RecordBroadcast, k
        <3> QED
            BY <3>0, <3>1, <3>2 DEF OpenInHand
    <2>9. CASE RecordUnknown
        <3> DEFINE k == Outcome(mem, tx.label, "outcome-unknown")
        <3>0. pc = "unknown" /\ tx' = tx /\ pc' = "unknown-signer"
            BY <2>9 DEF RecordUnknown
        <3>1. k.tx[tx.label].payload = mem.tx[tx.label].payload
            BY <3>0, <1>a, JournalsInHand DEF Unsettled
        <3> HIDE DEF k
        <3>2. mem' = k
            BY <2>9 DEF RecordUnknown, k
        <3> QED
            BY <3>0, <3>1, <3>2 DEF OpenInHand
    <2>10. CASE OpenRecovery
        BY <2>10 DEF OpenRecovery, OpenInHand, UnsettledIn
    <2>11. CASE ReserveAgain
        BY <2>11 DEF ReserveAgain, OpenInHand, UnsettledIn
    <2>12. CASE Rebroadcast
        <3>1. pc' = "rebroadcasted" => mem' = mem /\ tx' = tx /\ mem.tx[tx.label].payload
            BY <2>12 DEF Rebroadcast, Resendable
        <3>2. pc' \in {"exit", "polling", "rebroadcasted"}
            BY <2>12 DEF Rebroadcast
        <3> QED
            BY <3>1, <3>2 DEF OpenInHand
    <2>13. CASE Poll
        BY <2>13 DEF Poll, OpenInHand, UnsettledIn
    <2> QED
        BY <1>4, <2>1, <2>2, <2>3, <2>4, <2>5, <2>6, <2>7, <2>8, <2>9, <2>10, <2>11, <2>12, <2>13
        DEF Engine
<1>5. CASE Scripts
    BY <1>1, <1>5, ScriptMoves DEF ScriptGoes, ScriptWrites, ScriptSigns, Sign
<1>6. CASE Chain \/ UNCHANGED vars
    BY <1>2, <1>6 DEF Chain, Mine, Finalize, Reorg, Evict, ArriveLate, offchain, process, vars
<1>7. CASE Crash \/ \E r \in {Deploy, Harness} : Launch(r)
    BY <1>1, <1>7 DEF Crash, Idle, Launch
<1> QED
    BY <1>4, <1>5, <1>6, <1>7 DEF Next

--------------------------------------------------------------------------------
(* What is in doubt while no append failed and the chain replaced no head *)

Doubtful == {t \in DOMAIN signer : signer[t] \in Reserved /\ OnChain(t) \notin Included}
Quiet == mishaps["reorg"] = 0
Calm == Quiet /\ mishaps["fault"] = 0
InDoubt ==
    Calm =>
        /\ fresh
        /\ \A t, u \in Doubtful : t = u
        /\ pc \in {"script", "signed", "journaled", "confirming"} \cup Mined => Doubtful = {}
        /\ pc = "returned" /\ err # "unknown" => Doubtful = {}
        /\ pc = "reconcile" /\ target = "run" => Doubtful = {}
        /\ pc \in Submitting \cup Repairing \cup {"reconcile", "returned"} => Doubtful \subseteq {tx}
        /\ pc \in {"confirming"} \cup Mined => OnChain(tx) \in Included

(* In calm nothing fails. *)
LEMMA CalmFacts ==
    ASSUME Types, Calm'
    PROVE  /\ ~Fail /\ ~Suffer("reorg")
           /\ \A t, s : ~AppendSignerFails(t, s)
           /\ \A j : ~PersistFails(j) \/ ~fresh
<1>1. \A k \in Mishaps : Suffer(k) => mishaps'[k] # 0
    BY DEF Suffer, Types
<1>2. ~Fail /\ ~Suffer("reorg")
    BY <1>1 DEF Fail, Calm, Quiet, Mishaps
<1> QED
    BY <1>2 DEF AppendSignerFails, PersistFails

(* Mishaps are only counted up. *)
LEMMA MishapsGrow ==
    ASSUME Types, [Next]_vars
    PROVE  /\ Calm' => Calm
           /\ Quiet' => Quiet /\ ~Suffer("reorg")
<1>1. mishaps' = mishaps \/ \E k \in Mishaps : Suffer(k)
    <2>1. CASE Engine
        BY <2>1
        DEF Engine, SettleSigner, LaunchRecovery, OpenJournal, Exit, Reconcile, ReconcileDone,
            JournalPrepared, ReserveNonce, BroadcastTransaction, RecordBroadcast,
            RecordSignerBroadcast, RecordUnknown, RecordSignerUnknown, Wait, AwaitCanonical,
            RecordOutcome, OpenRecovery, Abandon, ReserveAgain, Rebroadcast, RecordRebroadcast,
            Poll, SettleRecovered, Persist, PersistFails, AppendSigner, AppendSignerFails, Fail,
            Mishaps
    <2>2. CASE Scripts
        BY <2>2
        DEF Scripts, DeployNext, DeployReturned, HarnessRecover, HarnessQuote, HarnessApprove,
            HarnessSwap, HarnessCleanup, HarnessEnd, Caught, ThrowPlain, Goto, PersistThen, Sign,
            Persist, PersistFails, Fail, Mishaps
    <2>3. CASE Chain \/ Crash \/ (\E r \in {Deploy, Harness} : Launch(r)) \/ UNCHANGED vars
        BY <2>3
        DEF Chain, Mine, Finalize, Reorg, Evict, ArriveLate, Crash, Launch, vars, Mishaps
    <2> QED
        BY <2>1, <2>2, <2>3 DEF Next
<1>2. ASSUME NEW k \in Mishaps, Suffer(k)
      PROVE  (Quiet' => Quiet /\ k # "reorg") /\ (Calm' => Calm)
    BY <1>2, MishapFacts DEF Types, Calm, Quiet, Mishaps
<1> QED
    BY <1>1, <1>2 DEF Calm, Quiet, Mishaps

(* While no head is replaced, an included transaction stays included, with its result. *)
LEMMA ChainKeeps ==
    ASSUME IInv, [Next]_vars, Quiet', NEW t, OnChain(t) \in Included
    PROVE  OnChain(t)' \in Included /\ (Succeeded(t)' <=> Succeeded(t))
<1> USE DEF IInv
<1>1. t \in Handed
    BY DEF OnChain, Included, Mined, Final
<1>2. ASSUME NEW w \in {"absent", "pending"}, Leaves(w) PROVE t \in Handed' /\ chain'[t] = chain[t]
    <2>1. t # tx /\ chain' = Put(chain, tx, w)
        BY <1>2 DEF Leaves, Seen
    <2>2. \A u \in Handed \ {tx} : u \in Handed' /\ chain'[u] = chain[u]
        BY <2>1, LeavesFacts
    <2> QED
        BY <1>1, <2>1, <2>2
<1>3. CASE Chain
    <2>1. PICK u \in Handed : \/ Mine(u, "mined-success") \/ Mine(u, "mined-failure")
                              \/ Finalize(u) \/ Reorg(u) \/ Evict(u) \/ ArriveLate(u)
        BY <1>3 DEF Chain
    <2>2. ~Reorg(u)
        BY MishapsGrow DEF Reorg
    <2>3. PICK w \in Places :
              /\ chain' = [chain EXCEPT ![u] = w]
              /\ chain[u] \in Included => w \in Included
              /\ chain[u] \in Included =>
                     (w \in {"mined-success", "final-success"}
                      <=> chain[u] \in {"mined-success", "final-success"})
        BY <2>1, <2>2
        DEF Mine, Finalize, Evict, ArriveLate, Places, Included, Mined, Final, Succeeded, OnChain
    <2>4. /\ t \in Handed' /\ chain'[t] \in Included
          /\ chain'[t] \in {"mined-success", "final-success"}
             <=> chain[t] \in {"mined-success", "final-success"}
        BY <1>1, <2>3, ChainMoves DEF OnChain
    <2> QED
        BY <1>1, <2>4 DEF OnChain, Succeeded
<1> QED
    BY <1>1, <1>2, <1>3, HandedMoves DEF OnChain, Handed, Succeeded

(* Only a reservation adds to what is in doubt. *)
LEMMA DoubtfulGrows ==
    ASSUME IInv, [Next]_vars, Calm'
    PROVE  Doubtful' \subseteq Doubtful \cup (IF pc \in {"journaled", "reserve-again"} THEN {tx} ELSE {})
<1> USE DEF IInv
<1>1. \A t : OnChain(t) \in Included => OnChain(t)' \in Included
    BY ChainKeeps DEF Calm, Quiet
<1>2. ASSUME NEW t \in Doubtful' PROVE t \in Doubtful \/ (pc \in {"journaled", "reserve-again"} /\ t = tx)
    <2>1. OnChain(t) \notin Included /\ t \in DOMAIN signer' /\ signer'[t] \in Reserved
        BY <1>1, <1>2 DEF Doubtful
    <2>2. CASE signer' = signer
        BY <2>1, <2>2 DEF Doubtful
    <2>3. ASSUME NEW u \in Txs, NEW s \in Reserved \cup Terminal, signer' = Put(signer, u, s),
                 Appends(u, s)
          PROVE  t \in Doubtful \/ (pc \in {"journaled", "reserve-again"} /\ t = tx)
        <3>0. /\ DOMAIN signer' = DOMAIN signer \cup {u}
              /\ \A v \in DOMAIN signer \ {u} : signer'[v] = signer[v]
            BY <2>3, RecordedFacts
        <3>1. t # u => t \in DOMAIN signer /\ signer[t] \in Reserved
            BY <2>1, <3>0
        <3>2. t = u => s \in Reserved
            BY <2>1, <2>3, RecordedFacts
        <3>3. Recorded(u) \in Reserved => u \in DOMAIN signer /\ signer[u] \in Reserved
            BY DEF Recorded, Reserved
        <3>4. pc \in {"recorded", "unknown-signer", "settle"} => Recorded(tx) \in Reserved
            BY DEF InHandRecorded, Control, Submitting, Repaired, Repairing
        <3>5. s \in Reserved => \/ Recorded(u) \in Reserved
                                \/ pc \in {"journaled", "reserve-again"} /\ u = tx
            BY <2>3, <3>4 DEF Appends, StatusOf, Reserved
        <3> QED
            BY <2>1, <3>1, <3>2, <3>3, <3>5 DEF Doubtful
    <2> QED
        BY <2>2, <2>3, SignerMoves DEF SignerWritten
<1> QED
    BY <1>2

(* In calm the one transaction in doubt is the one in hand. *)
LEMMA InDoubtStep == IInv /\ InDoubt /\ [Next]_vars => InDoubt'
<1> SUFFICES ASSUME IInv, InDoubt, [Next]_vars, Calm' PROVE InDoubt'
    BY DEF InDoubt
<1> USE DEF IInv, Submitting, Repairing, Mined
<1>0. /\ Calm /\ fresh /\ ~Fail /\ (\A t, s : ~AppendSignerFails(t, s)) /\ (\A j : ~PersistFails(j))
      /\ ~Suffer("reorg")
      /\ \A t, u \in Doubtful : t = u
    BY CalmFacts, MishapsGrow DEF InDoubt
<1>1. Doubtful' \subseteq Doubtful \cup (IF pc \in {"journaled", "reserve-again"} THEN {tx} ELSE {})
    BY DoubtfulGrows
<1>2. \A t, u \in Doubtful' : t = u
    <2>1. pc = "journaled" => Doubtful = {}
        BY <1>0 DEF InDoubt
    <2>2. pc = "reserve-again" => Doubtful \subseteq {tx}
        BY <1>0 DEF InDoubt
    <2> QED
        BY <1>0, <1>1, <2>1, <2>2
<1>3. fresh' /\ pc' \in {"idle", "settling", "exit"} => InDoubt'
    BY <1>2 DEF InDoubt
<1>4. fresh' /\ pc' \in {"script", "signed"} /\ Doubtful' = {} => InDoubt'
    BY <1>2 DEF InDoubt
<1>5. /\ fresh' /\ Doubtful' \subseteq {tx'}
      /\ pc' \notin {"script", "signed", "journaled", "confirming", "returned", "reconcile"} \cup Mined
      => InDoubt'
    BY <1>2 DEF InDoubt
<1>6. CASE Engine
    <2>1. ASSUME NEW t \in DOMAIN signer, SettleSigner(t) PROVE InDoubt'
        BY <2>1, <1>0, <1>3 DEF SettleSigner
    <2>2. ASSUME NEW t \in DOMAIN signer, LaunchRecovery(t) PROVE InDoubt'
        <3>1. fresh' /\ pc' = "recovering" /\ tx' = t /\ pc = "idle"
            BY <2>2, <1>0 DEF LaunchRecovery
        <3>2. Doubtful \subseteq {t}
            BY <2>2 DEF LaunchRecovery, Doubtful
        <3> QED
            BY <1>1, <1>5, <3>1, <3>2
    <2>3. CASE OpenJournal
        <3>1. Doubtful = {}
            BY <2>3 DEF OpenJournal, Settled, Doubtful
        <3>2. fresh' /\ Doubtful' = {} /\ pc' \in {"reconcile", "exit"}
            BY <1>1, <2>3, <3>1 DEF OpenJournal
        <3> QED
            BY <1>2, <3>2 DEF InDoubt
    <2>4. CASE Exit
        BY <2>4, <1>3 DEF Exit, Idle
    <2>5. ASSUME NEW l \in todo, Reconcile(l) PROVE InDoubt'
        <3>1. pc = "reconcile" /\ fresh' /\ pc' \in {"reconcile", "exit"} /\ tx' = tx /\ target' = target
            BY <1>0, <2>5 DEF Reconcile, Persist
        <3>2. Doubtful' \subseteq Doubtful
            BY <1>1, <3>1
        <3> QED
            BY <1>0, <1>2, <3>1, <3>2 DEF InDoubt
    <2>6. CASE ReconcileDone
        <3>1. /\ pc = "reconcile" /\ fresh' /\ tx' = tx /\ target' = target
              /\ \/ target = "run" /\ pc' \in {"script", "exit"}
                 \/ target # "run" /\ pc' \in {"settle", "rebroadcast", "exit", "reconcile"}
            BY <1>0, <2>6 DEF ReconcileDone, Stopped
        <3>2. Doubtful' \subseteq Doubtful
            BY <1>1, <3>1
        <3> QED
            BY <1>0, <1>2, <3>1, <3>2 DEF InDoubt
    <2>7. CASE JournalPrepared
        <3>1. pc = "signed" /\ fresh' /\ tx' = tx /\ pc' \in {"journaled", "returned"}
            BY <1>0, <2>7 DEF JournalPrepared, Returned, Persist
        <3>2. Doubtful' = {}
            BY <1>0, <1>1, <3>1 DEF InDoubt
        <3> QED
            BY <3>1, <3>2 DEF InDoubt
    <2>8. CASE ReserveNonce
        <3>1. /\ pc = "journaled" /\ fresh' /\ tx' = tx /\ pc' \in {"reserved", "returned"}
              /\ pc' = "returned" => err' = "unknown"
            BY <1>0, <2>8 DEF ReserveNonce, Returned
        <3>2. Doubtful' \subseteq {tx}
            BY <1>0, <1>1, <3>1 DEF InDoubt
        <3> QED
            BY <1>2, <3>1, <3>2 DEF InDoubt
    <2>9. CASE BroadcastTransaction \/ RecordBroadcast \/ RecordSignerBroadcast \/ RecordUnknown
               \/ RecordSignerUnknown
        <3>1. /\ pc \in {"reserved", "accepted", "recorded", "unknown", "unknown-signer"}
              /\ pc' \in {"accepted", "unknown", "recorded", "waiting", "unknown-signer",
                          "unknown-outcome"}
              /\ fresh' /\ tx' = tx
            BY <1>0, <2>9
            DEF BroadcastTransaction, RecordBroadcast, RecordSignerBroadcast, RecordUnknown,
                RecordSignerUnknown, Persist
        <3>2. Doubtful' \subseteq {tx}
            BY <1>0, <1>1, <3>1 DEF InDoubt
        <3> QED
            BY <1>5, <3>1, <3>2
    <2>10. CASE Wait
        <3>1. /\ pc = "waiting" /\ fresh' /\ UNCHANGED <<signer, chain, tx>>
              /\ pc' \in {"confirming", "unknown-outcome"} \cup Mined
              /\ pc' # "unknown-outcome" => OnChain(tx) \in Included
            BY <1>0, <2>10 DEF Wait, StatusOf, disk
        <3>2. Doubtful' = Doubtful /\ OnChain(tx)' = OnChain(tx)
            BY <3>1 DEF Doubtful, OnChain, Handed
        <3>3. Doubtful \subseteq {tx} /\ (pc' # "unknown-outcome" => tx \notin Doubtful)
            BY <1>0, <3>1 DEF InDoubt, Doubtful
        <3> QED
            BY <1>2, <3>1, <3>2, <3>3 DEF InDoubt
    <2>11. CASE AwaitCanonical
        <3>1. /\ pc = "confirming" /\ fresh' /\ UNCHANGED <<signer, chain, tx>>
              /\ pc' \in {"unknown-outcome"} \cup Mined
            BY <1>0, <2>11 DEF AwaitCanonical, StatusOf, disk
        <3>2. Doubtful' = Doubtful /\ OnChain(tx)' = OnChain(tx)
            BY <3>1 DEF Doubtful, OnChain, Handed
        <3> QED
            BY <1>0, <1>2, <3>1, <3>2 DEF InDoubt
    <2>12. CASE RecordOutcome
        <3>1. /\ pc \in Mined \cup {"unknown-outcome"} /\ fresh' /\ pc' = "returned" /\ tx' = tx
              /\ pc = "unknown-outcome" => err' = "unknown"
            BY <1>0, <2>12 DEF RecordOutcome, Returned, Persist
        <3>2. Doubtful' \subseteq {tx} /\ (pc # "unknown-outcome" => Doubtful' = {})
            BY <1>0, <1>1, <3>1 DEF InDoubt
        <3> QED
            BY <1>2, <3>1, <3>2 DEF InDoubt
    <2>13. CASE OpenRecovery \/ Abandon \/ ReserveAgain \/ Rebroadcast \/ RecordRebroadcast \/ Poll
                \/ SettleRecovered
        <3>1. /\ pc \in Repairing /\ target # "run" /\ target' # "run" /\ fresh' /\ tx' = tx
              /\ pc' \in Repairing \cup {"exit", "reconcile"}
            BY <1>0, <2>13
            DEF OpenRecovery, Abandon, ReserveAgain, Rebroadcast, RecordRebroadcast, Poll,
                SettleRecovered, Persist, Control
        <3>2. Doubtful' \subseteq {tx}
            BY <1>0, <1>1, <3>1 DEF InDoubt
        <3> QED
            BY <1>2, <3>1, <3>2 DEF InDoubt
    <2> QED
        BY <1>6, <2>1, <2>2, <2>3, <2>4, <2>5, <2>6, <2>7, <2>8, <2>9, <2>10, <2>11, <2>12, <2>13
        DEF Engine
<1>7. CASE Scripts
    <2>1. pc \in {"script", "returned"} /\ (pc = "returned" /\ err = "unknown" => pc' = "exit")
          /\ fresh' /\ pc' \in {"script", "exit", "signed"}
        BY <1>0, <1>7, ScriptMoves DEF ScriptGoes, ScriptWrites, ScriptSigns, Sign, Persist
    <2>2. pc' # "exit" => Doubtful' = {}
        BY <1>0, <1>1, <2>1 DEF InDoubt
    <2> QED
        BY <1>3, <1>4, <2>1, <2>2
<1>8. CASE Chain \/ UNCHANGED vars
    <2>1. UNCHANGED <<fresh, pc, err, target, tx>>
        BY <1>8 DEF Chain, Mine, Finalize, Reorg, Evict, ArriveLate, offchain, process, vars
    <2>2. Doubtful' \subseteq Doubtful
        <3>1. signer' = signer
            BY <1>8 DEF Chain, Mine, Finalize, Reorg, Evict, ArriveLate, offchain, disk, vars
        <3>2. \A t : OnChain(t) \in Included => OnChain(t)' \in Included
            BY <1>8, ChainKeeps DEF Calm, Quiet
        <3> QED
            BY <3>1, <3>2 DEF Doubtful
    <2>3. OnChain(tx) \in Included => OnChain(tx)' \in Included
        <3>1. \A t : OnChain(t) \in Included => OnChain(t)' \in Included
            BY <1>8, ChainKeeps DEF Calm, Quiet
        <3> QED
            BY <2>1, <3>1 DEF OnChain
    <2> QED
        BY <1>0, <1>2, <2>1, <2>2, <2>3 DEF InDoubt
<1>9. CASE Crash \/ \E r \in {Deploy, Harness} : Launch(r)
    BY <1>0, <1>3, <1>9 DEF Crash, Idle, Launch
<1> QED
    BY <1>6, <1>7, <1>8, <1>9 DEF Next

--------------------------------------------------------------------------------
(* What is on record is true, and a nonce belongs to one transaction *)

\* no two transactions reserve one nonce
OneNonce ==
    \A t, u \in DOMAIN signer :
        signer[t] \in Reserved /\ signer[u] \in Reserved /\ t.nonce = u.nonce => t = u
\* whatever was sent at the nonce just signed for is not settled
NonceWatched ==
    pc \in {"signed", "journaled"} => \A u \in Handed : u.nonce = tx.nonce => Recorded(u) \in Reserved
\* nothing else was ever sent at a reserved nonce
NonceOwned ==
    \A t \in DOMAIN signer \ givenUp : signer[t] \in Reserved =>
        \A u \in Handed : u.nonce = t.nonce => u = t
SignerTrue ==
    \A t \in DOMAIN signer : /\ signer[t] \in Mined => Confirmed(t) /\ StatusOf(t) = signer[t]
                             /\ signer[t] = "abandoned-prebroadcast" => t \in givenUp
\* a label is sent at one nonce
LabelsCurrent == DOMAIN mem.tx \subseteq Current /\ \A r \in Runs : DOMAIN journal[r].tx \subseteq Current
LabelsOnce == \A t, u \in Handed : t.label = u.label => t = u
\* what the deployment's journal says of an outcome is so
TrueJournal(j) ==
    \A l \in DOMAIN j.tx : j.tx[l].status \in Mined =>
        LET t == [label |-> l, nonce |-> j.tx[l].nonce]
        IN Confirmed(t) /\ StatusOf(t) = j.tx[l].status
JournalTrue ==
    /\ TrueJournal(journal[Deploy])
    /\ run = Deploy /\ pc \in ({"reconcile"} \cup InScript \cup Repairing) \ {"recovering"}
           => TrueJournal(mem)
    /\ run = Deploy /\ pc \in Mined => Confirmed(tx) /\ StatusOf(tx) = pc
    /\ target # "run" /\ pc \in {"reconcile"} \cup Repairing => run \in Recoverable

Truths == /\ OneNonce /\ NonceWatched /\ NonceOwned /\ SignerTrue
          /\ LabelsCurrent /\ LabelsOnce /\ JournalTrue

(* What is confirmed stays so. *)
LEMMA ConfirmedStays ==
    ASSUME IInv, [Next]_vars, NEW t, Confirmed(t)
    PROVE  Confirmed(t)' /\ StatusOf(t)' = StatusOf(t) /\ chain'[t] = chain[t] /\ t \in Handed
<1> USE DEF IInv
<1>1. t \in Handed /\ chain[t] \in Final
    BY DEF Confirmed, OnChain, Final
<1>2. ASSUME NEW w \in {"absent", "pending"}, Leaves(w) PROVE t \in Handed' /\ chain'[t] = chain[t]
    <2>1. t # tx /\ chain' = Put(chain, tx, w)
        BY <1>2 DEF Leaves, Seen, Confirmed, Included
    <2>2. \A u \in Handed \ {tx} : u \in Handed' /\ chain'[u] = chain[u]
        BY <2>1, LeavesFacts
    <2> QED
        BY <1>1, <2>1, <2>2
<1>3. CASE Chain
    <2>1. PICK u \in Handed, w \in Places :
              chain' = [chain EXCEPT ![u] = w] /\ chain[u] \notin Final
        BY <1>3
        DEF Chain, Mine, Finalize, Reorg, Evict, ArriveLate, Places, Included, Mined, Final
    <2>2. t \in Handed' /\ chain'[t] = chain[t]
        BY <1>1, <2>1, ChainMoves
    <2> QED
        BY <1>1, <2>2 DEF Confirmed, StatusOf, Succeeded, OnChain
<1>4. chain' = chain \/ (t \in Handed' /\ chain'[t] = chain[t])
      => Confirmed(t)' /\ StatusOf(t)' = StatusOf(t) /\ chain'[t] = chain[t]
    BY <1>1 DEF Confirmed, StatusOf, Succeeded, OnChain, Handed
<1> QED
    BY <1>1, <1>2, <1>3, <1>4, HandedMoves

(* Where the signer's record was appended to, it was so elsewhere. *)
LEMMA SignerKeeps ==
    ASSUME NEW t, NEW s, signer' = Put(signer, t, s), NEW u \in DOMAIN signer'
    PROVE  (u = t /\ signer'[u] = s) \/ (u # t /\ u \in DOMAIN signer /\ signer'[u] = signer[u])
BY RecordedFacts

(* The signer's record settles a transaction as the chain did. *)
LEMMA SignerTrueStep ==
    IInv /\ OpenInHand /\ Truths /\ [Next]_vars => SignerTrue'
<1> SUFFICES ASSUME IInv, OpenInHand, Truths, [Next]_vars, NEW t \in DOMAIN signer'
             PROVE  /\ signer'[t] \in Mined => Confirmed(t)' /\ StatusOf(t)' = signer'[t]
                    /\ signer'[t] = "abandoned-prebroadcast" => t \in givenUp'
    BY DEF SignerTrue
<1> USE DEF IInv, Truths
<1>1. givenUp \subseteq givenUp'
    BY SignerMoves
<1>2. ASSUME t \in DOMAIN signer, signer'[t] = signer[t]
      PROVE  /\ signer'[t] \in Mined => Confirmed(t)' /\ StatusOf(t)' = signer'[t]
             /\ signer'[t] = "abandoned-prebroadcast" => t \in givenUp'
    BY <1>1, <1>2, ConfirmedStays DEF SignerTrue
<1>3. ASSUME NEW s \in Reserved \cup Terminal, signer' = Put(signer, t, s), Appends(t, s),
             signer' # signer
      PROVE  /\ s \in Mined => Confirmed(t)' /\ StatusOf(t)' = s
             /\ s = "abandoned-prebroadcast" => t \in givenUp'
    <2>1. CASE pc = "settling" /\ Confirmed(t) /\ s = StatusOf(t)
        BY <2>1, ConfirmedStays DEF StatusOf
    <2>2. CASE s \in Reserved
        BY <2>2 DEF Reserved, Mined
    <2>3. CASE pc = "abandon" /\ t = tx /\ s = "abandoned-prebroadcast"
        BY <1>3, <2>3, SignerMoves DEF Mined
    <2>4. CASE pc = "settle" /\ t = tx /\ s = mem.tx[tx.label].status
        <3>1. target # "run" /\ run \in Recoverable /\ Journaled(mem, tx) /\ RunOf[tx.label] = run
            BY <2>4 DEF Control, InHandRecorded, JournalTrue, Repairing, Repaired
        <3>2. tx.label \in DOMAIN mem.tx /\ mem.tx[tx.label].nonce = tx.nonce /\ tx.label \in Current
            BY <3>1 DEF Journaled, Known, LabelsCurrent
        <3>3. run = Deploy
            BY <3>1, <3>2, LabelFacts, RunsCovered DEF Current, DeployLabels
        <3>4. s \in Mined
            BY <2>4, <3>2, EntryFacts DEF OpenInHand, UnsettledIn, Types
        <3>5. TrueJournal(mem)
            BY <2>4, <3>3 DEF JournalTrue, Repairing
        <3>6. tx = [label |-> tx.label, nonce |-> tx.nonce]
            BY DEF Types, Txs
        <3>7. Confirmed(tx) /\ StatusOf(tx) = s
            BY <2>4, <3>2, <3>4, <3>5, <3>6 DEF TrueJournal
        <3>8. s # "abandoned-prebroadcast"
            BY <3>4 DEF Mined
        <3> QED
            BY <2>4, <3>7, <3>8, ConfirmedStays
    <2> QED
        BY <1>3, <2>1, <2>2, <2>3, <2>4 DEF Appends, Reserved
<1>4. CASE signer' = signer
    BY <1>2, <1>4
<1>5. CASE signer' # signer
    <2>1. PICK u \in Txs, s \in Reserved \cup Terminal : signer' = Put(signer, u, s) /\ Appends(u, s)
        BY <1>5, SignerMoves DEF SignerWritten
    <2>2. CASE u = t
        <3>1. signer'[t] = s
            BY <2>1, <2>2, SignerKeeps
        <3> QED
            BY <1>3, <1>5, <2>1, <2>2, <3>1
    <2>3. CASE u # t
        <3>1. t \in DOMAIN signer /\ signer'[t] = signer[t]
            BY <2>1, <2>3, SignerKeeps
        <3> QED
            BY <1>2, <3>1
    <2> QED
        BY <2>2, <2>3
<1> QED
    BY <1>4, <1>5

(* No transaction that was seen has the nonce a wallet is given next. *)
LEMMA PendingIsFree ==
    ASSUME Types, NEW t \in Handed, Seen(t)
    PROVE  t.nonce # PendingNonce
<1> DEFINE S == NoncesOf({"pending"} \cup Included)
           T == {n \in Nat : n \notin S}
<1>1. S \subseteq 0..MaxNonce /\ t.nonce \in S
    BY DEF NoncesOf, Types, OfTxs, Txs, Nonces, Handed, Seen, OnChain
<1> HIDE DEF S
<1>2. MaxNonce + 1 \in T /\ T \in SUBSET Nat
    BY <1>1, Bounds
<1>3. PICK n \in T : \A m \in T : n <= m
    BY <1>2, LeastOf
<1>4. n \in 0..(MaxNonce + 1) /\ n \notin S /\ 0..(n - 1) \subseteq S
    <2>1. n \in Nat /\ n <= MaxNonce + 1 /\ n \notin S
        BY <1>2, <1>3
    <2>2. ASSUME NEW m \in 0..(n - 1) PROVE m \in S
        BY <1>3, <2>1
    <2> QED
        BY <2>1, <2>2, Bounds
<1>5. FirstGap(S) \notin S
    BY <1>4 DEF FirstGap
<1> QED
    BY <1>1, <1>5 DEF PendingNonce, S

(* A nonce is reserved for one transaction at a time. *)
LEMMA OneNonceStep == IInv /\ Truths /\ [Next]_vars => OneNonce'
<1> SUFFICES ASSUME IInv, Truths, [Next]_vars,
                    NEW t \in DOMAIN signer', NEW u \in DOMAIN signer',
                    signer'[t] \in Reserved, signer'[u] \in Reserved, t.nonce = u.nonce, t # u
             PROVE  FALSE
    BY DEF OneNonce
<1> USE DEF IInv, Truths
<1>1. signer' # signer
    BY DEF OneNonce
<1>2. PICK v \in Txs, s \in Reserved \cup Terminal : signer' = Put(signer, v, s) /\ Appends(v, s)
    BY <1>1, SignerMoves DEF SignerWritten
<1>3. \A w \in {t, u} : (w = v /\ s \in Reserved) \/ (w \in DOMAIN signer /\ signer[w] \in Reserved)
    BY <1>2, SignerKeeps
<1>4. v \in {t, u} /\ s \in Reserved /\ ~(v \in DOMAIN signer /\ signer[v] \in Reserved)
    BY <1>3 DEF OneNonce
<1>5. NonceFree(v)
    <2>1. pc \in {"recorded", "unknown-signer", "settle"} => Recorded(tx) \in Reserved
        BY DEF InHandRecorded, Control, Submitting, Repaired, Repairing
    <2>2. Recorded(v) \notin Reserved
        BY <1>4 DEF Recorded, Reserved
    <2>3. v = tx /\ MayReserve(tx)
        BY <1>2, <1>4, <2>1, <2>2 DEF Appends, Reserved, StatusOf
    <2> QED
        BY <2>2, <2>3 DEF MayReserve, Reserved
<1> QED
    BY <1>3, <1>4, <1>5 DEF NonceFree

(* Whatever was sent at the nonce in hand is still reserved. *)
LEMMA NonceWatchedStep == IInv /\ Truths /\ [Next]_vars => NonceWatched'
<1> SUFFICES ASSUME IInv, Truths, [Next]_vars PROVE NonceWatched'
    OBVIOUS
<1> USE DEF IInv, Truths
<1>1. pc' \notin {"signed", "journaled"} => NonceWatched'
    BY DEF NonceWatched
<1>2. UNCHANGED <<tx, signer>> /\ Handed' = Handed /\ pc \in {"signed", "journaled"} => NonceWatched'
    BY DEF NonceWatched, Recorded
<1>3. CASE Engine
    <2>1. CASE JournalPrepared
        BY <2>1, <1>2 DEF JournalPrepared, Handed
    <2>2. CASE ~JournalPrepared
        BY <1>1, <1>3, <2>2
        DEF Engine, SettleSigner, LaunchRecovery, OpenJournal, Exit, Idle, Reconcile,
            ReconcileDone, ReserveNonce, BroadcastTransaction, RecordBroadcast,
            RecordSignerBroadcast, RecordUnknown, RecordSignerUnknown, Wait, AwaitCanonical,
            RecordOutcome, OpenRecovery, Abandon, ReserveAgain, Rebroadcast, RecordRebroadcast,
            Poll, SettleRecovered, Returned, StatusOf, Stopped
    <2> QED
        BY <2>1, <2>2
<1>4. CASE ScriptSigns
    <2>1. tx'.nonce = PendingNonce /\ UNCHANGED <<signer, chain>>
        BY <1>4, LabelFacts, SignFacts DEF ScriptSigns, disk
    <2>2. ASSUME NEW u \in Handed, u.nonce = PendingNonce PROVE Recorded(u) \in Reserved
        <3>1. ~Seen(u)
            BY <2>2, PendingIsFree
        <3>2. u \in DOMAIN signer /\ signer[u] # "abandoned-prebroadcast" /\ signer[u] \notin Mined
            BY <3>1 DEF AllRecorded, SignerTrue, Seen, Confirmed, Included
        <3>3. signer[u] \in Reserved \cup Terminal
            BY <3>2 DEF Types, OfTxs
        <3> QED
            BY <3>2, <3>3 DEF Terminal, Recorded
    <2> QED
        BY <2>1, <2>2 DEF NonceWatched, Recorded, Handed
<1>5. CASE Scripts
    BY <1>1, <1>4, <1>5, ScriptMoves DEF ScriptGoes, ScriptWrites
<1>6. CASE Chain
    <2>1. Handed' = Handed
        BY <1>6, ChainMoves
        DEF Chain, Mine, Finalize, Reorg, Evict, ArriveLate, Places, Included, Mined, Final
    <2>2. UNCHANGED <<tx, signer, pc>>
        BY <1>6 DEF Chain, Mine, Finalize, Reorg, Evict, ArriveLate, offchain, process, disk
    <2> QED
        BY <1>1, <1>2, <2>1, <2>2
<1>7. CASE Crash \/ \E r \in {Deploy, Harness} : Launch(r)
    BY <1>1, <1>7 DEF Crash, Idle, Launch
<1>8. CASE UNCHANGED vars
    BY <1>1, <1>2, <1>8 DEF vars, Handed
<1> QED
    BY <1>3, <1>5, <1>6, <1>7, <1>8 DEF Next

(* At a reserved nonce nothing else was ever sent. *)
LEMMA NonceOwnedStep == IInv /\ Truths /\ [Next]_vars => NonceOwned'
<1> SUFFICES ASSUME IInv, Truths, [Next]_vars,
                    NEW t \in DOMAIN signer', t \notin givenUp', signer'[t] \in Reserved,
                    NEW u \in Handed', u.nonce = t.nonce, u # t
             PROVE  FALSE
    BY DEF NonceOwned
<1> USE DEF IInv, Truths
<1>1. t \notin givenUp
    BY SignerMoves
<1>2. ASSUME t \in DOMAIN signer, signer[t] \in Reserved, chain' # chain, ~Chain PROVE FALSE
    <2>1. PICK w \in {"absent", "pending"} : Leaves(w)
        BY <1>2, HandedMoves
    <2>2. Handed' = Handed \cup {tx} /\ pc \in {"reserved", "rebroadcast"}
        BY <2>1, LeavesFacts DEF Leaves
    <2>3. u \notin Handed
        BY <1>1, <1>2 DEF NonceOwned
    <2>4. u = tx /\ Recorded(tx) \in Reserved
        BY <2>2, <2>3 DEF InHandRecorded, Control, Submitting, Repaired, Repairing
    <2>5. tx \in DOMAIN signer /\ signer[tx] \in Reserved
        BY <2>4 DEF Recorded, Reserved
    <2> QED
        BY <1>2, <2>4, <2>5 DEF OneNonce
<1>3. Chain => Handed' = Handed
    BY ChainMoves DEF Chain, Mine, Finalize, Reorg, Evict, ArriveLate, Places, Included, Mined, Final
<1>4. ASSUME t \in DOMAIN signer, signer[t] \in Reserved, Handed' = Handed PROVE FALSE
    BY <1>1, <1>4 DEF NonceOwned
<1>5. CASE t \in DOMAIN signer /\ signer[t] \in Reserved
    BY <1>2, <1>3, <1>4, <1>5 DEF Handed
<1>6. CASE ~(t \in DOMAIN signer /\ signer[t] \in Reserved)
    <2>1. PICK v \in Txs, s \in Reserved \cup Terminal : signer' = Put(signer, v, s) /\ Appends(v, s)
        BY <1>6, SignerMoves DEF SignerWritten
    <2>2. v = t /\ s \in Reserved
        BY <1>6, <2>1, SignerKeeps
    <2>3. pc \in {"recorded", "unknown-signer", "settle"} => Recorded(tx) \in Reserved
        BY DEF InHandRecorded, Control, Submitting, Repaired, Repairing
    <2>4. Recorded(t) \notin Reserved
        BY <1>6 DEF Recorded, Reserved
    <2>5. t = tx /\ MayReserve(tx) /\ pc \in {"journaled", "reserve-again"} /\ chain' = chain
        BY <1>6, <2>1, <2>2, <2>3, <2>4, SignerMoves DEF Appends, Reserved, StatusOf
    <2>6. pc = "reserve-again" => signer[tx] = "abandoned-prebroadcast" /\ tx \in DOMAIN signer
        BY <2>4, <2>5 DEF InHandRecorded, Control, Repairing, Recorded
    <2>7. pc = "journaled"
        BY <1>1, <2>5, <2>6 DEF SignerTrue
    <2>8. u \in DOMAIN signer /\ signer[u] \in Reserved
        BY <2>5, <2>7 DEF NonceWatched, Handed, Recorded, Reserved
    <2> QED
        BY <2>4, <2>5, <2>8 DEF MayReserve, NonceFree, Reserved
<1> QED
    BY <1>5, <1>6

(* A label is sent at one nonce only. *)
LEMMA LabelsStep == IInv /\ Truths /\ [Next]_vars => LabelsCurrent' /\ LabelsOnce'
<1> SUFFICES ASSUME IInv, Truths, [Next]_vars PROVE LabelsCurrent' /\ LabelsOnce'
    OBVIOUS
<1> USE DEF IInv, Truths
<1>0. run \in Runs /\ mem \in Journals /\ journal \in [Runs -> Journals]
    BY DEF Types
<1>1. LabelsCurrent'
    <2>1. ASSUME NEW j \in Journals, Changes(j) PROVE DOMAIN j.tx \subseteq Current
        <3>1. CASE pc = "signed" /\ j = Prepare(mem, tx.label, tx.nonce)
            <4>1. tx.label \in Current /\ tx.label \in Labels /\ tx.nonce \in Nat
                BY <3>1 DEF Control, Types, Txs, Nonces
            <4>2. DOMAIN Prepare(mem, tx.label, tx.nonce).tx = DOMAIN mem.tx \cup {tx.label}
                BY <1>0, <4>1, PrepareFacts
            <4> QED
                BY <3>1, <4>1, <4>2 DEF LabelsCurrent
        <3>2. ASSUME NEW l \in DOMAIN mem.tx, NEW s \in Unsettled \cup Mined, j = Outcome(mem, l, s)
              PROVE  DOMAIN j.tx \subseteq Current
            <4>1. DOMAIN Outcome(mem, l, s).tx = DOMAIN mem.tx
                BY <1>0, OutcomeFacts
            <4> QED
                BY <3>2, <4>1 DEF LabelsCurrent
        <3>3. CASE pc \in {"accepted", "rebroadcasted"} /\ j = Broadcasted(mem, tx.label)
            <4>0. tx.label \in DOMAIN mem.tx
                BY <3>3, JournalsInHand DEF Submitting, Control, Repairing
            <4>1. DOMAIN Broadcasted(mem, tx.label).tx = DOMAIN mem.tx
                BY <1>0, <4>0, BroadcastedFacts
            <4> QED
                BY <3>3, <4>1 DEF LabelsCurrent
        <3>4. CASE pc = "reconcile" /\ \E l \in todo : j = Outcome(mem, l, Verdict(l))
            BY <3>2, <3>4, JournalsInHand DEF InHandRecorded
        <3>5. CASE /\ pc \in {"unknown", "unknown-outcome"} \cup Mined \cup {"rebroadcast"}
                   /\ \E s \in Unsettled \cup Mined : j = Outcome(mem, tx.label, s)
            <4>1. tx.label \in DOMAIN mem.tx
                BY <3>5, JournalsInHand DEF Submitting, Control, Repairing
            <4> QED
                BY <3>2, <3>5, <4>1
        <3>6. CASE j.tx = mem.tx
            BY <3>6 DEF LabelsCurrent
        <3> QED
            BY <2>1, <3>1, <3>3, <3>4, <3>5, <3>6 DEF Changes, Unsettled, StatusOf, Mined
    <2>2. ASSUME NEW j \in Journals, mem' = j, Changes(j), Persist(j) \/ PersistFails(j)
          PROVE  LabelsCurrent'
        <3>1. journal' = journal \/ journal' = [journal EXCEPT ![run] = j]
            BY <2>2, PersistFacts DEF Types
        <3>2. \A r \in Runs : journal'[r] \in {journal[r], j}
            BY <1>0, <3>1
        <3> QED
            BY <2>1, <2>2, <3>2 DEF LabelsCurrent
    <2> QED
        BY <1>0, <2>2, JournalMoves, EmptyFacts
        DEF JournalWritten, JournalOpened, LabelsCurrent
<1>2. LabelsOnce'
    <2>1. Chain => Handed' = Handed
        BY ChainMoves
        DEF Chain, Mine, Finalize, Reorg, Evict, ArriveLate, Places, Included, Mined, Final
    <2>2. CASE Handed' = Handed
        BY <2>2 DEF LabelsOnce
    <2>3. ASSUME NEW w \in {"absent", "pending"}, Leaves(w) PROVE LabelsOnce'
        <3>1. Handed' = Handed \cup {tx} /\ pc \in {"reserved", "rebroadcast"}
            BY <2>3, LeavesFacts DEF Leaves
        <3>2. RunOf[tx.label] = run /\ Journaled(mem, tx) /\ SameNonces(mem, journal[run])
            BY <3>1 DEF Control, InHandRecorded, Submitting, Repaired, Repairing, InScript,
                        MemFollowsDisk
        <3>3. Journaled(journal[run], tx) /\ tx.label \in Current
            BY <3>2, HoldsFacts DEF SameNonces, LabelsCurrent, Journaled, Known
        <3>4. ASSUME NEW u \in Handed, u.label = tx.label PROVE u = tx
            <4>1. Journaled(journal[run], u)
                BY <3>2, <3>3, <3>4 DEF AllRecorded, Inherited
            <4>2. u.nonce = tx.nonce
                BY <3>3, <3>4, <4>1 DEF Journaled
            <4>3. u \in Txs /\ tx \in Txs
                BY DEF Types, OfTxs, Handed
            <4> QED
                BY <3>4, <4>2, <4>3 DEF Txs
        <3> QED
            BY <3>1, <3>4 DEF LabelsOnce
    <2> QED
        BY <2>1, <2>2, <2>3, HandedMoves DEF Handed
<1> QED
    BY <1>1, <1>2

(* A journal that is true stays true. *)
LEMMA TrueStays ==
    ASSUME IInv, [Next]_vars, NEW j, TrueJournal(j)
    PROVE  TrueJournal(j)'
BY ConfirmedStays DEF TrueJournal

Opened == ({"reconcile"} \cup InScript \cup Repairing) \ {"recovering"}

(* A process opens its journal once, and keeps to one run and one target. *)
LEMMA Flow ==
    ASSUME IInv, [Next]_vars
    PROVE  /\ pc' \in Opened => run' = run /\ (pc \in Opened \/ (JournalOpened /\ journal' = journal))
           /\ pc' \in Mined => \/ pc' = pc /\ UNCHANGED <<run, tx>>
                               \/ Wait \/ AwaitCanonical
           /\ target' # "run" /\ pc' \in {"reconcile"} \cup Repairing =>
                  \/ run' = run /\ target # "run" /\ pc \in {"reconcile"} \cup Repairing
                  \/ run' \in Recoverable
<1> USE DEF IInv, InScript, Submitting, Repairing, Mined, Opened
<1>1. CASE Engine
    <2>1. ASSUME NEW t \in DOMAIN signer, SettleSigner(t) \/ LaunchRecovery(t)
          PROVE  /\ pc' \notin Opened
                 /\ target' # "run" /\ pc' \in {"reconcile"} \cup Repairing => run' \in Recoverable
        BY <2>1 DEF SettleSigner, LaunchRecovery, Control
    <2>2. CASE OpenJournal \/ OpenRecovery
        BY <2>2 DEF OpenJournal, OpenRecovery, JournalOpened, disk, Control
    <2>3. CASE Exit
        BY <2>3 DEF Exit, Idle
    <2>4. CASE Wait \/ AwaitCanonical
        BY <2>4 DEF Wait, AwaitCanonical, Control, StatusOf
    <2>5. CASE RecordOutcome \/ JournalPrepared \/ ReserveNonce \/ BroadcastTransaction
               \/ RecordBroadcast \/ RecordSignerBroadcast \/ RecordUnknown \/ RecordSignerUnknown
        BY <2>5
        DEF RecordOutcome, JournalPrepared, ReserveNonce, BroadcastTransaction, RecordBroadcast,
            RecordSignerBroadcast, RecordUnknown, RecordSignerUnknown, Returned, Control
    <2>6. CASE (\E l \in todo : Reconcile(l)) \/ ReconcileDone \/ Abandon \/ ReserveAgain
               \/ Rebroadcast \/ RecordRebroadcast \/ Poll \/ SettleRecovered
        BY <2>6
        DEF Reconcile, ReconcileDone, Abandon, ReserveAgain, Rebroadcast, RecordRebroadcast, Poll,
            SettleRecovered, Control, Stopped
    <2> QED
        BY <1>1, <2>1, <2>2, <2>3, <2>4, <2>5, <2>6 DEF Engine
<1>2. CASE Scripts
    BY <1>2, ScriptMoves DEF ScriptGoes, ScriptWrites, ScriptSigns, Sign
<1>3. CASE Chain \/ UNCHANGED vars
    BY <1>3 DEF Chain, Mine, Finalize, Reorg, Evict, ArriveLate, offchain, process, vars
<1>4. CASE Crash \/ \E r \in {Deploy, Harness} : Launch(r)
    BY <1>4 DEF Crash, Idle, Launch
<1> QED
    BY <1>1, <1>2, <1>3, <1>4 DEF Next

(* What a process of the deployment writes is true. *)
LEMMA TrueWrites ==
    ASSUME IInv, Truths, NEW j, Changes(j), run = Deploy, pc \in Opened
    PROVE  TrueJournal(j)
<1> USE DEF IInv, Truths
<1>0. TrueJournal(mem) /\ mem \in Journals /\ tx.label \in Labels /\ tx.nonce \in Nat
      /\ tx = [label |-> tx.label, nonce |-> tx.nonce]
    BY DEF JournalTrue, Opened, Types, Txs, Nonces
<1>1. CASE pc = "signed" /\ j = Prepare(mem, tx.label, tx.nonce)
    <2> DEFINE k == Prepare(mem, tx.label, tx.nonce)
    <2>1. /\ DOMAIN k.tx = DOMAIN mem.tx \cup {tx.label}
          /\ \A l \in DOMAIN mem.tx : k.tx[l] = mem.tx[l]
          /\ tx.label \notin DOMAIN mem.tx => k.tx[tx.label].status = "prepared"
        BY <1>0, PrepareFacts
    <2> HIDE DEF k
    <2>2. TrueJournal(k)
        BY <1>0, <2>1 DEF TrueJournal, Mined
    <2> QED
        BY <1>1, <2>2 DEF k
<1>2. ASSUME NEW l \in DOMAIN mem.tx, NEW s \in Unsettled \cup Mined, j = Outcome(mem, l, s),
             s \in Mined => /\ Confirmed([label |-> l, nonce |-> mem.tx[l].nonce])
                            /\ StatusOf([label |-> l, nonce |-> mem.tx[l].nonce]) = s
      PROVE  TrueJournal(j)
    <2> DEFINE k == Outcome(mem, l, s)
    <2>1. /\ DOMAIN k.tx = DOMAIN mem.tx /\ k.tx[l].status = s
          /\ SameNonces(k, mem) /\ \A m \in DOMAIN mem.tx \ {l} : k.tx[m] = mem.tx[m]
        BY <1>0, OutcomeFacts
    <2> HIDE DEF k
    <2>2. k.tx[l].nonce = mem.tx[l].nonce
        BY <2>1 DEF SameNonces, Holds
    <2>3. TrueJournal(k)
        BY <1>0, <1>2, <2>1, <2>2 DEF TrueJournal
    <2> QED
        BY <1>2, <2>3 DEF k
<1>3. CASE pc \in {"accepted", "rebroadcasted"} /\ j = Broadcasted(mem, tx.label)
    <2> DEFINE k == Broadcasted(mem, tx.label)
    <2>0. tx.label \in DOMAIN mem.tx
        BY <1>3, JournalsInHand DEF Submitting, Control, Repairing
    <2>1. /\ DOMAIN k.tx = DOMAIN mem.tx /\ k.tx[tx.label].status = "broadcast"
          /\ \A m \in DOMAIN mem.tx \ {tx.label} : k.tx[m] = mem.tx[m]
        BY <1>0, <2>0, BroadcastedFacts
    <2> HIDE DEF k
    <2>2. TrueJournal(k)
        BY <1>0, <2>1 DEF TrueJournal, Mined
    <2> QED
        BY <1>3, <2>2 DEF k
<1>4. ASSUME pc = "reconcile", NEW l \in todo, j = Outcome(mem, l, Verdict(l)) PROVE TrueJournal(j)
    <2>1. l \in DOMAIN mem.tx /\ Verdict(l) \in Unsettled \cup Mined
        BY <1>4, JournalsInHand DEF InHandRecorded
    <2>2. Verdict(l) \in Mined => \/ Confirmed(InHand(l)) /\ StatusOf(InHand(l)) = Verdict(l)
                                  \/ Verdict(l) = mem.tx[l].status
        BY DEF Verdict, Mined
    <2>3. Verdict(l) \in Mined => /\ Confirmed([label |-> l, nonce |-> mem.tx[l].nonce])
                                  /\ StatusOf([label |-> l, nonce |-> mem.tx[l].nonce]) = Verdict(l)
        BY <1>0, <2>1, <2>2 DEF TrueJournal, InHand
    <2> QED
        BY <1>2, <1>4, <2>1, <2>3
<1>5. ASSUME pc \in Submitting \cup {"rebroadcast"}, NEW s \in Unsettled \cup Mined,
             j = Outcome(mem, tx.label, s), s \in Mined => Confirmed(tx) /\ StatusOf(tx) = s
      PROVE  TrueJournal(j)
    <2>1. Journaled(mem, tx)
        BY <1>5 DEF InHandRecorded, Control, Repairing, Repaired
    <2>2. tx.label \in DOMAIN mem.tx /\ tx = [label |-> tx.label, nonce |-> mem.tx[tx.label].nonce]
        BY <1>0, <2>1 DEF Journaled, Known
    <2> QED
        BY <1>2, <1>5, <2>2
<1>6. CASE pc \in {"unknown", "unknown-outcome"} /\ j = Outcome(mem, tx.label, "outcome-unknown")
    BY <1>5, <1>6 DEF Submitting, Unsettled, Mined
<1>7. CASE pc \in Mined /\ j = Outcome(mem, tx.label, pc)
    <2>1. Confirmed(tx) /\ StatusOf(tx) = pc
        BY <1>7 DEF JournalTrue
    <2> QED
        BY <1>5, <1>7, <2>1 DEF Submitting
<1>8. CASE pc = "rebroadcast" /\ Confirmed(tx) /\ j = Outcome(mem, tx.label, StatusOf(tx))
    <2>1. StatusOf(tx) \in Mined
        BY DEF StatusOf, Mined
    <2> QED
        BY <1>5, <1>8, <2>1
<1>9. CASE j.tx = mem.tx
    BY <1>0, <1>9 DEF TrueJournal
<1> QED
    BY <1>1, <1>3, <1>4, <1>6, <1>7, <1>8, <1>9 DEF Changes

(* What the deployment's journal settles, the chain has confirmed. *)
LEMMA JournalTrueStep == IInv /\ Truths /\ [Next]_vars => JournalTrue'
<1> SUFFICES ASSUME IInv, Truths, [Next]_vars PROVE JournalTrue'
    OBVIOUS
<1> USE DEF IInv, Truths
<1>0. Deploy \in Runs /\ run \in Runs /\ journal \in [Runs -> Journals]
    BY LabelFacts DEF Types
<1>1. \A j : TrueJournal(j) => TrueJournal(j)'
    BY TrueStays
<1>2. ASSUME NEW j, TrueJournal(j), mem' = j PROVE TrueJournal(mem)'
    BY <1>1, <1>2 DEF TrueJournal
<1>3. ASSUME NEW j, TrueJournal(j), journal'[Deploy] = j PROVE TrueJournal(journal[Deploy])'
    BY <1>1, <1>3 DEF TrueJournal
<1>4. TrueJournal(journal[Deploy])'
    <2>1. CASE journal' = journal
        BY <1>3, <2>1 DEF JournalTrue
    <2>2. CASE journal' # journal
        <3>1. PICK j \in Journals : Changes(j) /\ (Persist(j) \/ PersistFails(j))
            BY <2>2, JournalMoves DEF JournalWritten
        <3>2. journal' = [journal EXCEPT ![run] = j]
            BY <2>2, <3>1, PersistFacts DEF Types
        <3>3. CASE run = Deploy
            <4>1. pc \in Opened
                <5>1. pc \in {"signed", "accepted", "rebroadcasted", "reconcile", "unknown", "script",
                              "unknown-outcome", "rebroadcast", "returned"} \cup Mined
                    BY <3>1 DEF Changes
                <5> QED
                    BY <5>1 DEF Opened, InScript, Submitting, Repairing, Mined
            <4>2. TrueJournal(j) /\ journal'[Deploy] = j
                BY <1>0, <3>1, <3>2, <3>3, <4>1, TrueWrites
            <4> QED
                BY <1>3, <4>2
        <3>4. CASE run # Deploy
            <4>1. journal'[Deploy] = journal[Deploy]
                BY <1>0, <3>2, <3>4
            <4> QED
                BY <1>3, <4>1 DEF JournalTrue
        <3> QED
            BY <3>3, <3>4
    <2> QED
        BY <2>1, <2>2
<1>5. ASSUME run' = Deploy, pc' \in Opened PROVE TrueJournal(mem)'
    <2>1. run = Deploy /\ (pc \in Opened \/ (JournalOpened /\ journal' = journal))
        BY <1>5, Flow
    <2>2. CASE JournalOpened
        BY <1>2, <2>1, <2>2 DEF JournalOpened, JournalTrue
    <2>3. CASE pc \in Opened /\ mem' = mem
        BY <1>2, <2>1, <2>3 DEF JournalTrue, Opened
    <2>4. CASE pc \in Opened /\ JournalWritten
        BY <1>2, <2>1, <2>4, TrueWrites DEF JournalWritten
    <2>5. pc' # "idle"
        BY <1>5 DEF Opened, InScript, Submitting, Repairing, Mined
    <2> QED
        BY <2>1, <2>2, <2>3, <2>4, <2>5, JournalMoves
<1>6. ASSUME run' = Deploy, pc' \in Mined PROVE Confirmed(tx)' /\ StatusOf(tx)' = pc'
    <2>1. CASE Wait
        BY <1>6, <2>1, RunsCovered DEF Wait, Mined
    <2>2. CASE AwaitCanonical
        BY <1>6, <2>2 DEF AwaitCanonical, Mined, Confirmed, StatusOf, Succeeded, OnChain, Handed
    <2>3. CASE pc' = pc /\ UNCHANGED <<run, tx>>
        <3>1. Confirmed(tx) /\ StatusOf(tx) = pc
            BY <1>6, <2>3 DEF JournalTrue
        <3>2. \A t : Confirmed(t) => Confirmed(t)' /\ StatusOf(t)' = StatusOf(t)
            BY ConfirmedStays
        <3> QED
            BY <2>3, <3>1, <3>2 DEF Confirmed, StatusOf, Succeeded, OnChain
    <2> QED
        BY <1>6, <2>1, <2>2, <2>3, Flow
<1>7. target' # "run" /\ pc' \in {"reconcile"} \cup Repairing => run' \in Recoverable
    BY Flow DEF JournalTrue
<1> QED
    BY <1>4, <1>5, <1>6, <1>7 DEF JournalTrue, Opened

--------------------------------------------------------------------------------
(* The runners implement SubmittedOnce *)

Decided == {u \in Kept : Confirmed(u)}
SentBar == [l \in {t.label : t \in Kept} |-> NonceOf(l)]
FateBar == [l \in {t.label : t \in {u \in Kept : Confirmed(u)}} |->
                Word(chain[CHOOSE t \in Kept : t.label = l])]
ToldBar == [l \in {t.label : t \in Told} |-> Word(signer[CHOOSE t \in Told : t.label = l])]

(* Two functions are one, or one extends the other, by what they are where they are. *)
LEMMA SameMaps ==
    ASSUME NEW f, NEW g, f = [x \in DOMAIN f |-> f[x]], g = [x \in DOMAIN g |-> g[x]],
           DOMAIN f = DOMAIN g, \A x \in DOMAIN f : f[x] = g[x]
    PROVE  f = g
OBVIOUS
(* And of one map that extends another by one place. *)
LEMMA ExtendedMaps ==
    ASSUME NEW f, NEW g, NEW o, NEW z, g = [x \in DOMAIN g |-> g[x]],
           DOMAIN g = DOMAIN f \cup {o}, g[o] = z, \A x \in DOMAIN f \ {o} : g[x] = f[x]
    PROVE  g = Ledger!Extend(f, o, z)
BY DEF Ledger!Extend

\* the mapping, read at one transaction
BarsRead ==
    /\ SentBar = [l \in DOMAIN SentBar |-> SentBar[l]] /\ DOMAIN SentBar = {t.label : t \in Kept}
    /\ FateBar = [l \in DOMAIN FateBar |-> FateBar[l]] /\ DOMAIN FateBar = {t.label : t \in Decided}
    /\ ToldBar = [l \in DOMAIN ToldBar |-> ToldBar[l]] /\ DOMAIN ToldBar = {t.label : t \in Told}
    /\ \A t \in Kept : SentBar[t.label] = t.nonce
    /\ \A t \in Decided : t \in Kept /\ FateBar[t.label] = Word(chain[t])
    /\ \A t \in Told : t \in Decided /\ ToldBar[t.label] = Word(signer[t])
                       /\ ToldBar[t.label] = FateBar[t.label]

(* As a label is sent at one nonce, the mapping says of it what the chain and the *)
(* signer's record say of its one transaction.                                   *)
LEMMA BarsOfTruths == LabelsOnce /\ SignerTrue => BarsRead
<1> SUFFICES ASSUME LabelsOnce, SignerTrue PROVE BarsRead
    OBVIOUS
<1>1. \A t \in Kept : (CHOOSE u \in Kept : u.label = t.label) = t
    BY DEF LabelsOnce, Kept
<1>2. \A t \in Told : t \in Decided /\ Word(signer[t]) = Word(chain[t])
    BY DEF Told, SignerTrue, Decided, Confirmed, OnChain, Kept, Final, StatusOf, Succeeded, Word, Handed
<1>3. \A t \in Told : (CHOOSE u \in Told : u.label = t.label) = t
    BY <1>2 DEF LabelsOnce, Kept, Decided
<1>4. \A t \in Kept : SentBar[t.label] = t.nonce
    BY <1>1 DEF SentBar, NonceOf
<1>5. \A t \in Decided : t \in Kept /\ FateBar[t.label] = Word(chain[t])
    BY <1>1 DEF FateBar, Decided
<1>6. \A t \in Told : ToldBar[t.label] = Word(signer[t])
    BY <1>3 DEF ToldBar
<1>7. SentBar = [l \in DOMAIN SentBar |-> SentBar[l]] /\ DOMAIN SentBar = {t.label : t \in Kept}
    BY DEF SentBar
<1>8. FateBar = [l \in DOMAIN FateBar |-> FateBar[l]] /\ DOMAIN FateBar = {t.label : t \in Decided}
    BY DEF FateBar, Decided
<1>9. ToldBar = [l \in DOMAIN ToldBar |-> ToldBar[l]] /\ DOMAIN ToldBar = {t.label : t \in Told}
    BY DEF ToldBar
<1> QED
    BY <1>2, <1>4, <1>5, <1>6, <1>7, <1>8, <1>9 DEF BarsRead

(* The same after a step. *)
LEMMA BarFacts ==
    ASSUME Truths, Truths'
    PROVE  BarsRead /\ BarsRead'
<1>1. BarsRead
    BY BarsOfTruths DEF Truths
<1>2. LabelsOnce' /\ SignerTrue'
    BY DEF Truths
<1>3. BarsRead'
    BY <1>2, BarsOfTruths, PTL
<1> QED
    BY <1>1, <1>3

\* the steps of SubmittedOnce, of the mapping
SubmitBar ==
    /\ \E o \in DOMAIN SentBar' \ DOMAIN SentBar :
         SentBar' = Ledger!Extend(SentBar, o, SentBar'[o]) /\ \A p \in DOMAIN SentBar : SentBar[p] # SentBar'[o]
    /\ FateBar' = FateBar /\ ToldBar' = ToldBar
DecideBar ==
    /\ \E o \in DOMAIN SentBar \ DOMAIN FateBar :
         /\ \A p \in DOMAIN SentBar : SentBar[p] < SentBar[o] => p \in DOMAIN FateBar
         /\ \E s \in {"success", "failure"} : FateBar' = Ledger!Extend(FateBar, o, s)
    /\ SentBar' = SentBar /\ ToldBar' = ToldBar
TellBar ==
    /\ \E o \in DOMAIN FateBar \ DOMAIN ToldBar : ToldBar' = Ledger!Extend(ToldBar, o, FateBar[o])
    /\ SentBar' = SentBar /\ FateBar' = FateBar
StillBar == SentBar' = SentBar /\ FateBar' = FateBar /\ ToldBar' = ToldBar

(* An append to the signer's record stutters, or tells what the chain decided. *)
LEMMA TellStep ==
    ASSUME IInv, OpenInHand, Truths, Truths', [Next]_vars, chain' = chain
    PROVE  StillBar \/ TellBar
<1> USE DEF IInv, Truths
<1>1. Kept' = Kept
    BY SignerMoves DEF Kept, InHandRecorded, Handed
<1>2. SentBar' = SentBar /\ FateBar' = FateBar
    BY <1>1 DEF SentBar, FateBar, NonceOf, Confirmed, OnChain, Handed
<1>3. Decided' = Decided
    BY <1>1 DEF Decided, Confirmed, OnChain, Handed
<1>4. \A t \in Told : t \in Handed
    BY BarFacts DEF Decided, Kept, BarsRead
<1>5. \A t \in Told : t \notin givenUp'
    BY <1>4, SignerMoves DEF Told, InHandRecorded
<1>6. CASE signer' = signer
    <2>1. Told' = Told
        BY <1>5, <1>6, SignerMoves DEF Told
    <2> QED
        BY <1>2, <1>6, <2>1 DEF StillBar, ToldBar
<1>7. ASSUME NEW t \in Txs, NEW s \in Reserved \cup Terminal, signer' = Put(signer, t, s), Appends(t, s)
      PROVE  StillBar \/ TellBar
    <2>1. t \notin Told
        <3>1. Recorded(t) \notin Mined
            <4>1. pc \in {"recorded", "unknown-signer", "settle", "abandon"} =>
                      Recorded(tx) \in Reserved \cup {"abandoned-prebroadcast"}
                BY DEF InHandRecorded, Control, Submitting, Repaired, Repairing
            <4> QED
                BY <1>7, <4>1 DEF Appends, MayReserve, Reserved, Mined
        <3> QED
            BY <3>1 DEF Told, Recorded
    <2>2. \A v \in Told : v \in Told' /\ signer'[v] = signer[v]
        <3>1. \A v \in DOMAIN signer \ {t} : v \in DOMAIN signer' /\ signer'[v] = signer[v]
            BY <1>7, RecordedFacts
        <3> QED
            BY <1>5, <2>1, <3>1 DEF Told
    <2>3. Told' \subseteq Told \cup {t}
        <3>1. \A v \in DOMAIN signer' : v # t => v \in DOMAIN signer /\ signer'[v] = signer[v]
            BY <1>7, SignerKeeps
        <3> QED
            BY <3>1, SignerMoves DEF Told
    <2>4. \A v \in Told : ToldBar'[v.label] = ToldBar[v.label]
        <3>1. \A v \in Told' : ToldBar'[v.label] = Word(signer'[v])
            BY BarFacts DEF BarsRead
        <3> QED
            BY <2>2, <3>1, BarFacts DEF BarsRead
    <2>5. ToldBar' = [l \in DOMAIN ToldBar' |-> ToldBar'[l]] /\ DOMAIN ToldBar' = {v.label : v \in Told'}
        BY BarFacts DEF BarsRead
    <2>6. CASE t \in Told'
        <3>1. t \in Decided /\ ToldBar'[t.label] = FateBar[t.label]
            BY <1>2, <1>3, <2>6, BarFacts DEF BarsRead
        <3>2. t.label \in DOMAIN FateBar
            BY <3>1, BarFacts DEF BarsRead
        <3>3. t.label \notin DOMAIN ToldBar
            <4>1. \A v \in Told : v.label # t.label
                BY <1>4, <2>1, <3>1 DEF LabelsOnce, Decided, Kept
            <4> QED
                BY <4>1, BarFacts DEF BarsRead
        <3>4. Told' = Told \cup {t}
            BY <2>2, <2>3, <2>6
        <3>5. DOMAIN ToldBar' = DOMAIN ToldBar \cup {t.label}
            BY <2>5, <3>4, BarFacts DEF BarsRead
        <3>6. \A l \in DOMAIN ToldBar : ToldBar'[l] = ToldBar[l]
            BY <2>4, BarFacts DEF BarsRead
        <3>7. ToldBar' = Ledger!Extend(ToldBar, t.label, FateBar[t.label])
            BY <2>5, <3>1, <3>5, <3>6, ExtendedMaps
        <3> QED
            BY <1>2, <3>2, <3>3, <3>7 DEF TellBar
    <2>7. CASE t \notin Told'
        <3>1. Told' = Told
            BY <2>2, <2>3, <2>7
        <3>2. DOMAIN ToldBar' = DOMAIN ToldBar /\ \A l \in DOMAIN ToldBar : ToldBar'[l] = ToldBar[l]
            BY <2>4, <2>5, <3>1, BarFacts DEF BarsRead
        <3>3. ToldBar' = ToldBar
            BY <2>5, <3>2, BarFacts, SameMaps DEF BarsRead
        <3> QED
            BY <1>2, <3>3 DEF StillBar
    <2> QED
        BY <2>6, <2>7
<1> QED
    BY <1>6, <1>7, SignerMoves DEF SignerWritten

(* A request that leaves the process stutters, or submits. *)
LEMMA SubmitStep ==
    ASSUME IInv, Truths, Truths', [Next]_vars, NEW w \in {"absent", "pending"}, Leaves(w)
    PROVE  StillBar \/ SubmitBar
<1> USE DEF IInv, Truths
<1>1. /\ UNCHANGED <<signer, givenUp>> /\ Handed' = Handed \cup {tx} /\ chain'[tx] = w
      /\ \A u \in Handed \ {tx} : u \in Handed' /\ chain'[u] = chain[u]
    BY LeavesFacts DEF Leaves
<1>2. ToldBar' = ToldBar
    BY <1>1 DEF ToldBar, Told
<1>3. Decided' = Decided /\ \A t \in Decided : chain'[t] = chain[t]
    <2>1. \A t : Confirmed(t) => Confirmed(t)' /\ chain'[t] = chain[t] /\ t \in Handed
        BY ConfirmedStays
    <2>2. \A t : Confirmed(t)' => Confirmed(t)
        BY <1>1 DEF Confirmed, OnChain, Final
    <2> QED
        BY <1>1, <2>1, <2>2 DEF Decided, Kept, Handed
<1>4. FateBar' = FateBar
    <2>1. DOMAIN FateBar' = DOMAIN FateBar
        BY <1>3, BarFacts DEF BarsRead
    <2>2. \A t \in Decided : FateBar'[t.label] = FateBar[t.label]
        BY <1>3, BarFacts DEF BarsRead
    <2>3. \A l \in DOMAIN FateBar : FateBar'[l] = FateBar[l]
        BY <2>2, BarFacts DEF BarsRead
    <2> QED
        BY <2>1, <2>3, BarFacts, SameMaps DEF BarsRead
<1>5. CASE tx \in Handed \/ tx \in givenUp
    <2>1. Kept' = Kept
        BY <1>1, <1>5 DEF Kept
    <2> QED
        BY <1>2, <1>4, <2>1 DEF StillBar, SentBar, NonceOf
<1>6. CASE tx \notin Handed /\ tx \notin givenUp
    <2>1. Kept' = Kept \cup {tx} /\ tx \notin Kept
        BY <1>1, <1>6 DEF Kept
    <2>2. SentBar'[tx.label] = tx.nonce
        BY <2>1, BarFacts DEF BarsRead
    <2>3. tx.label \notin DOMAIN SentBar
        <3>1. \A u \in Kept : u \in Handed' /\ tx \in Handed' /\ u # tx
            BY <1>1, <2>1 DEF Kept
        <3>2. \A u \in Kept : u.label # tx.label
            BY <3>1 DEF LabelsOnce
        <3> QED
            BY <3>2, BarFacts DEF BarsRead
    <2>4. DOMAIN SentBar' = DOMAIN SentBar \cup {tx.label}
        BY <2>1, BarFacts DEF BarsRead
    <2>5. \A l \in DOMAIN SentBar : SentBar'[l] = SentBar[l]
        <3>1. \A u \in Kept : SentBar'[u.label] = u.nonce /\ SentBar[u.label] = u.nonce
            BY <2>1, BarFacts DEF BarsRead
        <3> QED
            BY <3>1, BarFacts DEF BarsRead
    <2>6. SentBar' = Ledger!Extend(SentBar, tx.label, SentBar'[tx.label])
        <3>1. SentBar' = Ledger!Extend(SentBar, tx.label, tx.nonce)
            <4>1. SentBar' = [l \in DOMAIN SentBar' |-> SentBar'[l]]
                BY BarFacts DEF BarsRead
            <4> QED
                BY <2>2, <2>4, <2>5, <4>1, ExtendedMaps
        <3> QED
            BY <2>2, <3>1
    <2>7. \A u \in Kept : u.nonce # tx.nonce
        <3>1. tx \in DOMAIN signer \ givenUp /\ signer[tx] \in Reserved
            <4>1. Recorded(tx) \in Reserved
                BY DEF Leaves, InHandRecorded, Control, Submitting, Repaired, Repairing
            <4> QED
                BY <1>6, <4>1 DEF Recorded, Reserved
        <3> QED
            BY <2>1, <3>1 DEF NonceOwned, Kept
    <2>8. \A p \in DOMAIN SentBar : SentBar[p] # SentBar'[tx.label]
        <3>1. \A u \in Kept : SentBar[u.label] # SentBar'[tx.label]
            BY <2>2, <2>7, BarFacts DEF BarsRead
        <3> QED
            BY <3>1, BarFacts DEF BarsRead
    <2> QED
        BY <1>2, <1>4, <2>3, <2>4, <2>6, <2>8 DEF SubmitBar
<1> QED
    BY <1>5, <1>6

(* A move of the chain stutters, or decides the next submission. *)
LEMMA DecideStep ==
    ASSUME IInv, Truths, Truths', [Next]_vars, Chain
    PROVE  StillBar \/ DecideBar
<1> USE DEF IInv, Truths
<1>1. PICK t \in Handed : \/ Mine(t, "mined-success") \/ Mine(t, "mined-failure")
                          \/ Finalize(t) \/ Reorg(t) \/ Evict(t) \/ ArriveLate(t)
    BY DEF Chain
<1>2. UNCHANGED <<signer, givenUp>>
    BY <1>1 DEF Mine, Finalize, Reorg, Evict, ArriveLate, offchain, disk
<1>3. PICK w \in Places : /\ chain' = [chain EXCEPT ![t] = w] /\ chain[t] \notin Final
                          /\ w \in Final => Finalize(t)
    BY <1>1 DEF Mine, Finalize, Reorg, Evict, ArriveLate, Places, Included, Mined, Final
<1>4. Handed' = Handed /\ chain'[t] = w /\ \A u \in Handed \ {t} : chain'[u] = chain[u]
    BY <1>3, ChainMoves
<1>5. Kept' = Kept
    BY <1>2, <1>4 DEF Kept
<1>6. SentBar' = SentBar /\ ToldBar' = ToldBar
    BY <1>2, <1>5 DEF SentBar, NonceOf, ToldBar, Told
<1>7. t \notin Decided /\ \A u \in Decided : u \in Decided' /\ chain'[u] = chain[u]
    BY <1>3, <1>4, <1>5 DEF Decided, Confirmed, OnChain, Kept
<1>8. Decided' \subseteq Decided \cup {t}
    BY <1>4, <1>5 DEF Decided, Confirmed, OnChain
<1>9. \A l \in DOMAIN FateBar : FateBar'[l] = FateBar[l]
    <2>1. \A u \in Decided : FateBar'[u.label] = FateBar[u.label]
        BY <1>7, BarFacts DEF BarsRead
    <2> QED
        BY <2>1, BarFacts DEF BarsRead
<1>10. CASE t \notin Decided'
    <2>1. Decided' = Decided
        BY <1>7, <1>8, <1>10
    <2>2. DOMAIN FateBar' = DOMAIN FateBar
        BY <2>1, BarFacts DEF BarsRead
    <2>3. FateBar' = FateBar
        BY <1>9, <2>2, BarFacts, SameMaps DEF BarsRead
    <2> QED
        BY <1>6, <2>3 DEF StillBar
<1>11. CASE t \in Decided'
    <2>1. Decided' = Decided \cup {t} /\ t \in Kept
        BY <1>5, <1>7, <1>8, <1>11 DEF Decided
    <2>2. w \in Final
        BY <1>4, <1>11 DEF Decided, Confirmed, OnChain, Final
    <2>3. Finalize(t)
        BY <1>3, <2>2
    <2>4. t.label \in DOMAIN SentBar /\ t.label \notin DOMAIN FateBar
        <3>1. \A u \in Decided : u.label # t.label
            BY <1>7, <2>1 DEF LabelsOnce, Decided, Kept
        <3> QED
            BY <2>1, <3>1, BarFacts DEF BarsRead
    <2>5. \A p \in Kept : p.nonce < t.nonce => p \in Decided
        <3> SUFFICES ASSUME NEW p \in Kept, p.nonce < t.nonce PROVE Confirmed(p)
            BY DEF Decided
        <3>1. p \in Handed /\ p \notin givenUp /\ p.nonce \in Nat /\ t.nonce \in Nat
            BY DEF Kept, Types, OfTxs, Txs, Nonces, Handed
        <3>2. p.nonce \in NoncesOf(Final)
            BY <2>3, <3>1 DEF Finalize, Below
        <3>3. PICK u \in Handed : chain[u] \in Final /\ u.nonce = p.nonce
            BY <3>2 DEF NoncesOf
        <3>4. p \in DOMAIN signer /\ (signer[p] \in Reserved \/ signer[p] \in Mined)
            <4>1. p \in DOMAIN signer /\ signer[p] # "abandoned-prebroadcast"
                BY <3>1 DEF AllRecorded
            <4>2. signer[p] \in Reserved \cup Terminal
                BY <4>1 DEF Types, OfTxs
            <4> QED
                BY <4>1, <4>2 DEF Terminal
        <3>5. CASE signer[p] \in Reserved
            <4>1. u = p
                BY <3>1, <3>3, <3>4, <3>5 DEF NonceOwned
            <4> QED
                BY <3>3, <4>1 DEF Confirmed, OnChain
        <3>6. CASE signer[p] \in Mined
            BY <3>4, <3>6 DEF SignerTrue
        <3> QED
            BY <3>4, <3>5, <3>6
    <2>6. \A p \in DOMAIN SentBar : SentBar[p] < SentBar[t.label] => p \in DOMAIN FateBar
        <3>1. \A p \in Kept : SentBar[p.label] < SentBar[t.label] => p.label \in DOMAIN FateBar
            BY <2>1, <2>5, BarFacts DEF BarsRead
        <3> QED
            BY <3>1, BarFacts DEF BarsRead
    <2>7. PICK s \in {"success", "failure"} : FateBar'[t.label] = s
        BY <1>11, BarFacts DEF BarsRead, Word
    <2>8. DOMAIN FateBar' = DOMAIN FateBar \cup {t.label}
        BY <2>1, BarFacts DEF BarsRead
    <2>9. FateBar' = Ledger!Extend(FateBar, t.label, s)
        <3>1. FateBar' = [l \in DOMAIN FateBar' |-> FateBar'[l]]
            BY BarFacts DEF BarsRead
        <3> QED
            BY <1>9, <2>7, <2>8, <3>1, ExtendedMaps
    <2> QED
        BY <1>6, <2>4, <2>6, <2>9 DEF DecideBar
<1> QED
    BY <1>10, <1>11

--------------------------------------------------------------------------------
(* Where the harness is in its script, and what it owes *)

Sent == pc \in {"signed", "returned"} \cup Submitting
Harnessing == run = Harness /\ pc \in {"reconcile"} \cup InScript
Scripting == run = Harness /\ pc \in InScript

\* the steps of the harness; one that submits has its own label in hand
Stepping ==
    Scripting =>
        /\ step \in {"start", "quote", "owe", "approve", "swap", "cleanup", "pass", "mark-failed"}
        /\ Sent => /\ step \in {"start", "quote", "approve", "swap", "cleanup"}
                   /\ tx.label = IF step = "start" THEN "recovery" ELSE step

\* an approval that is not included, and may still be; an allowance there is or may be
Loose == \E t \in Handed : t.label = "approve" /\ chain[t] \notin Included
Owing == Allowance \/ Loose

\* what a journal of the harness says of its run, its receipts and its obligation is so
Finished(j) == j.run = "passed" => ~j.owed /\ UnsettledIn(j) = {}
IncludedIn(j) ==
    \A l \in DOMAIN j.tx : j.tx[l].status \in Mined =>
        OnChain([label |-> l, nonce |-> j.tx[l].nonce]) \in Included
Good(j) ==
    /\ Finished(j)
    /\ Quiet => IncludedIn(j)
    /\ Quiet /\ ~j.owed => ~Owing

\* what the journal in memory must say for the script to be at step s
Suits(s, j) ==
    /\ s \in {"owe", "approve", "swap", "cleanup", "pass"} => j.run # "passed"
    /\ s = "approve" => j.owed
    /\ s = "pass" => ~j.owed
    /\ s \in {"swap", "cleanup", "pass"} => "approve" \notin UnsettledIn(j)
Between == pc \in {"script", "signed"} \/ (pc = "returned" /\ err = "none")
Progress ==
    /\ Harnessing =>
           /\ step # "mark-failed" /\ mem.owed => journal[Harness].owed
           /\ Quiet /\ pc \in {"confirming"} \cup Mined => OnChain(tx) \in Included
    /\ Scripting =>
           /\ Suits(step, mem)
           /\ pc \in Submitting \/ (pc = "returned" /\ err = "none") => mem.run # "passed"
           /\ step \notin {"cleanup", "mark-failed"} =>
                  /\ Between => UnsettledIn(mem) = {}
                  /\ pc \in Submitting => UnsettledIn(mem) \subseteq {tx.label}
Duty == Good(journal[Harness]) /\ (Harnessing => Good(mem)) /\ Progress

(* The harness keeps to its steps. *)
LEMMA SteppingStep == IInv /\ Stepping /\ [Next]_vars => Stepping'
<1> SUFFICES ASSUME IInv, Stepping, [Next]_vars, run' = Harness, pc' \in InScript PROVE Stepping'
    BY DEF Stepping, Scripting
<1> USE DEF IInv, InScript, Submitting, Mined
<1>1. CASE Engine
    <2>1. CASE ReconcileDone \/ \E l \in todo : Reconcile(l)
        <3>1. pc = "reconcile" /\ step = "start" /\ step' \in {"start", "mark-failed"} /\ pc' = "script"
            BY <2>1 DEF ReconcileDone, Reconcile, Stopped, Control
        <3> QED
            BY <3>1 DEF Stepping, Sent
    <2>2. CASE JournalPrepared \/ ReserveNonce \/ BroadcastTransaction \/ RecordBroadcast
               \/ RecordSignerBroadcast \/ RecordUnknown \/ RecordSignerUnknown \/ Wait
               \/ AwaitCanonical \/ RecordOutcome
        <3>1. pc \in {"signed"} \cup Submitting /\ UNCHANGED <<run, step, tx>>
            BY <2>2
            DEF JournalPrepared, ReserveNonce, BroadcastTransaction, RecordBroadcast,
                RecordSignerBroadcast, RecordUnknown, RecordSignerUnknown, Wait, AwaitCanonical,
                RecordOutcome
        <3> QED
            BY <3>1 DEF Stepping, Scripting, Sent
    <2>3. CASE ~(ReconcileDone \/ (\E l \in todo : Reconcile(l)) \/ JournalPrepared
                 \/ ReserveNonce \/ BroadcastTransaction
                 \/ RecordBroadcast \/ RecordSignerBroadcast \/ RecordUnknown
                 \/ RecordSignerUnknown \/ Wait \/ AwaitCanonical \/ RecordOutcome)
        BY <1>1, <2>3
        DEF Engine, SettleSigner, LaunchRecovery, OpenJournal, Exit, Idle, OpenRecovery,
            Abandon, ReserveAgain, Rebroadcast, RecordRebroadcast, Poll, SettleRecovered
    <2> QED
        BY <2>1, <2>2, <2>3
<1>2. CASE Scripts
    <2> USE DEF At, Back
    <2>1. run = Harness /\ pc \in {"script", "returned"}
        BY <1>2, ScriptMoves DEF ScriptGoes, ScriptWrites, ScriptSigns, Sign
    <2>2. \A s : Goto("script", s) => pc' = "script" /\ step' = s
        BY DEF Goto
    <2>3. \A s : Goto("exit", s) => pc' = "exit"
        BY DEF Goto
    <2>4. \A l : Sign(l) => pc' = "signed" /\ step' = step /\ tx'.label = l
        BY DEF Sign
    <2>5. \A j, p, q, bp, bq : PersistThen(j, p, q, bp, bq) =>
              (pc' = p /\ step' = q) \/ (pc' = bp /\ step' = bq)
        BY DEF PersistThen
    <2>6. /\ pc' = "script" =>
                step' \in {"start", "quote", "owe", "approve", "swap", "cleanup", "pass", "mark-failed"}
          /\ pc' = "signed" =>
                /\ step' \in {"start", "quote", "approve", "swap", "cleanup"}
                /\ tx'.label = IF step' = "start" THEN "recovery" ELSE step'
          /\ pc' \in {"script", "signed"}
        <3>1. ~DeployNext /\ ~DeployReturned
            BY <2>1, LabelFacts DEF DeployNext, DeployReturned
        <3>2. CASE HarnessRecover
            BY <2>2, <2>3, <2>4, <2>5, <3>2 DEF HarnessRecover, Caught, ThrowPlain
        <3>3. CASE HarnessQuote
            BY <2>2, <2>3, <2>4, <3>3 DEF HarnessQuote, Caught
        <3>4. CASE HarnessApprove
            BY <2>2, <2>3, <2>4, <2>5, <3>4 DEF HarnessApprove, Caught, ThrowPlain
        <3>5. CASE HarnessSwap
            BY <2>2, <2>3, <2>4, <2>5, <3>5 DEF HarnessSwap
        <3>6. CASE HarnessCleanup
            BY <2>2, <2>3, <2>4, <2>5, <3>6 DEF HarnessCleanup
        <3>7. CASE HarnessEnd
            BY <2>2, <2>3, <2>4, <2>5, <3>7 DEF HarnessEnd
        <3> QED
            BY <1>2, <3>1, <3>2, <3>3, <3>4, <3>5, <3>6, <3>7 DEF Scripts
    <2> QED
        BY <2>6 DEF Stepping, Sent
<1>3. CASE Chain \/ UNCHANGED vars
    <2>1. UNCHANGED <<run, pc, step, tx>>
        BY <1>3 DEF Chain, Mine, Finalize, Reorg, Evict, ArriveLate, offchain, process, vars
    <2> QED
        BY <2>1 DEF Stepping, Scripting, Sent
<1>4. CASE Crash \/ \E r \in {Deploy, Harness} : Launch(r)
    BY <1>4 DEF Crash, Idle, Launch
<1> QED
    BY <1>1, <1>2, <1>3, <1>4 DEF Next

(* An allowance there may be comes from one there was, or from an approval that leaves. *)
LEMMA OwingGrows ==
    ASSUME IInv, Truths, [Next]_vars, Quiet', Owing'
    PROVE  Owing \/ (run = Harness /\ pc = "reserved" /\ tx.label = "approve")
<1> SUFFICES ASSUME ~Loose PROVE Allowance \/ (run = Harness /\ pc = "reserved" /\ tx.label = "approve")
    BY DEF Owing
<1> USE DEF IInv
<1>1. ASSUME NEW w \in {"absent", "pending"}, Leaves(w), tx.label = "approve"
      PROVE  run = Harness /\ pc = "reserved"
    <2>1. RunOf[tx.label] = Harness /\ Harness \notin Recoverable
        BY <1>1, LabelFacts, RunsCovered DEF HarnessLabels
    <2>2. RunOf[tx.label] = run
        BY <1>1 DEF Leaves, Control, Submitting, InHandRecorded, Repairing
    <2>3. pc = "rebroadcast" => run \in Recoverable
        BY DEF Control, Truths, JournalTrue, Repairing
    <2> QED
        BY <1>1, <2>1, <2>2, <2>3 DEF Leaves
<1>2. ASSUME NEW t \in Handed', t \notin Handed
      PROVE  \E w \in {"absent", "pending"} : Leaves(w) /\ t = tx /\ chain'[t] = w
    <2>1. Chain => Handed' = Handed
        BY ChainMoves
        DEF Chain, Mine, Finalize, Reorg, Evict, ArriveLate, Places, Included, Mined, Final
    <2>2. PICK w \in {"absent", "pending"} : Leaves(w)
        BY <1>2, <2>1, HandedMoves DEF Handed
    <2>3. Handed' = Handed \cup {tx} /\ chain'[tx] = w
        BY <2>2, LeavesFacts DEF Leaves
    <2> QED
        BY <1>2, <2>2, <2>3
<1>3. \A t \in Handed : t.label = "approve" => chain[t] \in Included /\ OnChain(t) \in Included
    BY DEF Loose, OnChain
<1>4. CASE Loose'
    <2>1. PICK t \in Handed' : t.label = "approve" /\ chain'[t] \notin Included
        BY <1>4 DEF Loose
    <2>2. t \notin Handed
        BY <1>3, <2>1, ChainKeeps DEF OnChain
    <2> QED
        BY <1>1, <1>2, <2>1, <2>2
<1>5. CASE Allowance'
    <2>1. PICK t \in Handed' : /\ t.label = "approve" /\ Succeeded(t)'
                               /\ \A u \in Handed' : u.label \in Drains /\ Succeeded(u)'
                                                         => u.nonce < t.nonce
        BY <1>5 DEF Allowance
    <2>2. t \in Handed
        <3>1. t \notin Handed => chain'[t] \in {"absent", "pending"}
            BY <1>2
        <3> QED
            BY <2>1, <3>1 DEF Succeeded, OnChain, Handed
    <2>3. Succeeded(t)
        BY <1>3, <2>1, <2>2, ChainKeeps
    <2>4. ASSUME NEW u \in Handed, u.label \in Drains, Succeeded(u) PROVE u.nonce < t.nonce
        <3>1. OnChain(u) \in Included
            BY <2>4 DEF Succeeded, Included, Mined, Final
        <3>2. Succeeded(u)' /\ OnChain(u)' \in Included
            BY <2>4, <3>1, ChainKeeps
        <3>3. u \in Handed'
            BY <3>2 DEF OnChain, Included, Mined, Final
        <3> QED
            BY <2>1, <2>4, <3>2, <3>3
    <2> QED
        BY <2>1, <2>2, <2>3, <2>4 DEF Allowance
<1> QED
    BY <1>4, <1>5 DEF Owing

(* What a journal says stays so, unless an approval leaves that it does not owe. *)
LEMMA GoodStays ==
    ASSUME IInv, Truths, [Next]_vars, NEW j, Good(j),
           run = Harness /\ pc = "reserved" /\ tx.label = "approve" => j.owed
    PROVE  Good(j)'
<1> USE DEF IInv
<1>1. Quiet' => Quiet
    BY MishapsGrow
<1>2. Quiet' => IncludedIn(j)'
    BY <1>1, ChainKeeps DEF Good, IncludedIn
<1>3. Quiet' /\ ~j.owed => ~Owing'
    BY <1>1, OwingGrows DEF Good
<1> QED
    BY <1>2, <1>3 DEF Good, Finished, UnsettledIn

(* What is cleared is clear: every approval has its receipt. *)
LEMMA Cleared ==
    ASSUME IInv, Scripting, ~(pc = "returned" /\ err = "unknown"), IncludedIn(mem),
           "approve" \notin UnsettledIn(mem)
    PROVE  ~Loose
<1> USE DEF IInv
<1>1. ASSUME NEW t \in Handed, t.label = "approve" PROVE chain[t] \in Included
    <2>1. t.label \in HarnessLabels /\ RunOf[t.label] = Harness /\ t.label \notin Inherited
        BY <1>1, LabelFacts DEF HarnessLabels, Inherited, Current
    <2>2. Journaled(journal[Harness], t)
        BY <2>1 DEF AllRecorded
    <2>3. SameNonces(mem, journal[Harness])
        BY DEF MemFollowsDisk, Scripting, InScript, Submitting, Mined
    <2>4. Journaled(mem, t)
        BY <2>2, <2>3, HoldsFacts DEF SameNonces
    <2>5. "approve" \in DOMAIN mem.tx /\ mem.tx["approve"].nonce = t.nonce
        BY <1>1, <2>4 DEF Journaled, Known
    <2>6. mem.tx["approve"].status \in Mined
        BY <2>5, EntryFacts DEF Types, UnsettledIn
    <2>7. t = [label |-> "approve", nonce |-> mem.tx["approve"].nonce]
        BY <1>1, <2>5 DEF Types, OfTxs, Txs, Handed
    <2> QED
        BY <2>5, <2>6, <2>7 DEF IncludedIn, OnChain
<1> QED
    BY <1>1 DEF Loose

(* What the operations of the journal do to the open transactions. *)
LEMMA OpenFacts ==
    ASSUME NEW j \in Journals
    PROVE  /\ \A l \in Labels, n \in Nat :
                  UnsettledIn(Prepare(j, l, n)) \subseteq UnsettledIn(j) \cup {l}
           /\ \A l \in DOMAIN j.tx : UnsettledIn(Broadcasted(j, l)) \subseteq UnsettledIn(j) \cup {l}
           /\ \A l \in DOMAIN j.tx, s \in Unsettled \cup Mined :
                  /\ UnsettledIn(Outcome(j, l, s)) \subseteq UnsettledIn(j) \cup {l}
                  /\ s \in Mined => UnsettledIn(Outcome(j, l, s)) \subseteq UnsettledIn(j) \ {l}
           /\ \A k : k.tx = j.tx => UnsettledIn(k) = UnsettledIn(j)
<1>1. ASSUME NEW l \in Labels, NEW n \in Nat
      PROVE  UnsettledIn(Prepare(j, l, n)) \subseteq UnsettledIn(j) \cup {l}
    <2> DEFINE k == Prepare(j, l, n)
    <2>1. DOMAIN k.tx = DOMAIN j.tx \cup {l} /\ \A m \in DOMAIN j.tx : k.tx[m] = j.tx[m]
        BY PrepareFacts
    <2> HIDE DEF k
    <2>2. UnsettledIn(k) \subseteq UnsettledIn(j) \cup {l}
        BY <2>1 DEF UnsettledIn
    <2> QED
        BY <2>2 DEF k
<1>2. ASSUME NEW l \in DOMAIN j.tx PROVE UnsettledIn(Broadcasted(j, l)) \subseteq UnsettledIn(j) \cup {l}
    <2> DEFINE k == Broadcasted(j, l)
    <2>1. DOMAIN k.tx = DOMAIN j.tx /\ \A m \in DOMAIN j.tx \ {l} : k.tx[m] = j.tx[m]
        BY BroadcastedFacts
    <2> HIDE DEF k
    <2>2. UnsettledIn(k) \subseteq UnsettledIn(j) \cup {l}
        BY <2>1 DEF UnsettledIn
    <2> QED
        BY <2>2 DEF k
<1>3. ASSUME NEW l \in DOMAIN j.tx, NEW s \in Unsettled \cup Mined
      PROVE  /\ UnsettledIn(Outcome(j, l, s)) \subseteq UnsettledIn(j) \cup {l}
             /\ s \in Mined => UnsettledIn(Outcome(j, l, s)) \subseteq UnsettledIn(j) \ {l}
    <2> DEFINE k == Outcome(j, l, s)
    <2>1. DOMAIN k.tx = DOMAIN j.tx /\ k.tx[l].status = s
          /\ \A m \in DOMAIN j.tx \ {l} : k.tx[m] = j.tx[m]
        BY OutcomeFacts
    <2> HIDE DEF k
    <2>2. UnsettledIn(k) \subseteq UnsettledIn(j) \cup {l}
        BY <2>1 DEF UnsettledIn
    <2>3. s \in Mined => s \notin Unsettled
        BY DEF Mined, Unsettled
    <2>4. s \in Mined => UnsettledIn(k) \subseteq UnsettledIn(j) \ {l}
        BY <2>1, <2>3 DEF UnsettledIn
    <2> QED
        BY <2>2, <2>4 DEF k
<1>4. \A k : k.tx = j.tx => UnsettledIn(k) = UnsettledIn(j)
    BY DEF UnsettledIn
<1> QED
    BY <1>1, <1>2, <1>3, <1>4

(* A process of the harness is a run: the recovery tool has no journal of the harness. *)
LEMMA HarnessRuns ==
    ASSUME IInv, Truths, run = Harness
    PROVE  pc \in {"reconcile"} \cup Repairing => pc = "reconcile" /\ target = "run"
<1>1. Harness \notin Recoverable
    BY RunsCovered
<1> QED
    BY <1>1 DEF IInv, Control, Truths, JournalTrue

(* What the engine writes to the journal of the harness is so. *)
LEMMA GoodEngine ==
    ASSUME IInv, OpenInHand, Truths, Duty, run = Harness, NEW j, Changes(j),
           pc \notin {"script", "returned"}
    PROVE  Good(j) /\ j.owed = mem.owed /\ j.run = mem.run
<1> USE DEF IInv
<1>0. /\ pc \in {"signed", "accepted", "reconcile", "unknown", "unknown-outcome"} \cup Mined
      /\ mem \in Journals /\ tx.label \in Labels /\ tx.nonce \in Nat
      /\ tx = [label |-> tx.label, nonce |-> tx.nonce]
    BY HarnessRuns DEF Changes, Repairing, Types, Txs, Nonces
<1>1. Harnessing /\ Good(mem)
    BY <1>0 DEF Harnessing, InScript, Submitting, Mined, Duty
<1>2. ASSUME NEW l \in DOMAIN mem.tx, NEW s \in Unsettled \cup Mined, mem.run # "passed",
             Quiet /\ s \in Mined => OnChain([label |-> l, nonce |-> mem.tx[l].nonce]) \in Included
      PROVE  LET k == Outcome(mem, l, s) IN Good(k) /\ k.owed = mem.owed /\ k.run = mem.run
    <2> DEFINE k == Outcome(mem, l, s)
    <2>1. /\ DOMAIN k.tx = DOMAIN mem.tx /\ k.tx[l].status = s
          /\ SameNonces(k, mem) /\ (\A m \in DOMAIN mem.tx \ {l} : k.tx[m] = mem.tx[m])
          /\ k.run = mem.run /\ k.owed = mem.owed
        BY <1>0, OutcomeFacts
    <2> HIDE DEF k
    <2>2. k.tx[l].nonce = mem.tx[l].nonce
        BY <2>1 DEF SameNonces, Holds
    <2>3. Quiet => IncludedIn(k)
        BY <1>1, <1>2, <2>1, <2>2 DEF Good, IncludedIn
    <2>4. Good(k)
        BY <1>1, <1>2, <2>1, <2>3 DEF Good, Finished
    <2> QED
        BY <2>1, <2>4 DEF k
<1>3. pc \in Submitting => mem.run # "passed" /\ Journaled(mem, tx)
    BY DEF Duty, Progress, Scripting, InScript, InHandRecorded
<1>4. CASE pc = "signed" /\ MayPrepare(mem, tx.label, tx.nonce) /\ j = Prepare(mem, tx.label, tx.nonce)
    <2> DEFINE k == Prepare(mem, tx.label, tx.nonce)
    <2>1. /\ DOMAIN k.tx = DOMAIN mem.tx \cup {tx.label}
          /\ \A l \in DOMAIN mem.tx : k.tx[l] = mem.tx[l]
          /\ tx.label \notin DOMAIN mem.tx => k.tx[tx.label].status = "prepared"
          /\ k.run = mem.run /\ k.owed = mem.owed
        BY <1>0, PrepareFacts
    <2> HIDE DEF k
    <2>2. mem.run # "passed"
        BY <1>1, <1>4 DEF MayPrepare, TerminalRun, Good, Finished
    <2>3. Quiet => IncludedIn(k)
        BY <1>1, <2>1 DEF Good, IncludedIn, Mined
    <2>4. Good(k)
        BY <1>1, <2>1, <2>2, <2>3 DEF Good, Finished
    <2> QED
        BY <1>4, <2>1, <2>4 DEF k
<1>5. CASE pc = "accepted" /\ j = Broadcasted(mem, tx.label)
    <2> DEFINE k == Broadcasted(mem, tx.label)
    <2>0. tx.label \in DOMAIN mem.tx
        BY <1>3, <1>5 DEF Submitting, Journaled, Known
    <2>1. /\ DOMAIN k.tx = DOMAIN mem.tx /\ k.tx[tx.label].status = "broadcast"
          /\ \A m \in DOMAIN mem.tx \ {tx.label} : k.tx[m] = mem.tx[m]
          /\ k.run = mem.run /\ k.owed = mem.owed
        BY <1>0, <2>0, BroadcastedFacts
    <2> HIDE DEF k
    <2>2. Quiet => IncludedIn(k)
        BY <1>1, <2>1 DEF Good, IncludedIn, Mined
    <2>3. mem.run # "passed"
        BY <1>3, <1>5 DEF Submitting
    <2>4. Good(k)
        BY <1>1, <2>1, <2>2, <2>3 DEF Good, Finished
    <2> QED
        BY <1>5, <2>1, <2>4 DEF k
<1>6. ASSUME pc = "reconcile", NEW l \in todo, j = Outcome(mem, l, Verdict(l))
      PROVE  Good(j) /\ j.owed = mem.owed /\ j.run = mem.run
    <2>1. l \in DOMAIN mem.tx /\ Verdict(l) \in Unsettled \cup Mined
        BY <1>6, JournalsInHand DEF InHandRecorded
    <2>2. mem.run # "passed"
        BY <1>1, <1>6 DEF OpenInHand, Good, Finished
    <2>3. \/ Confirmed(InHand(l))
          \/ Verdict(l) \in {"outcome-unknown", mem.tx[l].status}
        BY DEF Verdict
    <2>4. Quiet /\ Verdict(l) \in Mined => OnChain([label |-> l, nonce |-> mem.tx[l].nonce]) \in Included
        BY <1>1, <2>1, <2>3 DEF Good, IncludedIn, InHand, Confirmed, Included, Mined
    <2> QED
        BY <1>2, <1>6, <2>1, <2>2, <2>4
<1>7. CASE (pc \in {"unknown", "unknown-outcome"} /\ j = Outcome(mem, tx.label, "outcome-unknown"))
           \/ (pc \in Mined /\ j = Outcome(mem, tx.label, pc))
    <2> DEFINE s == IF pc \in Mined THEN pc ELSE "outcome-unknown"
    <2>1. pc \in Submitting /\ j = Outcome(mem, tx.label, s) /\ s \in Unsettled \cup Mined
        BY <1>7 DEF Submitting, Mined, Unsettled
    <2>2. tx.label \in DOMAIN mem.tx /\ mem.tx[tx.label].nonce = tx.nonce /\ mem.run # "passed"
        BY <1>3, <2>1 DEF Journaled, Known
    <2>3. s \in Mined => s = pc
        BY DEF Mined
    <2>4. Quiet /\ s \in Mined => OnChain(tx) \in Included
        BY <1>1, <2>3 DEF Duty, Progress
    <2> HIDE DEF s
    <2> QED
        BY <1>0, <1>2, <2>1, <2>2, <2>4
<1> QED
    BY <1>0, <1>4, <1>5, <1>6, <1>7 DEF Changes, Mined

(* The harness goes on, or leaves. *)
LEMMA WentOn ==
    ASSUME IInv, Duty, Scripting, step # "mark-failed", NEW p \in {"script", "exit"}, NEW s,
           Goto(p, s),
           p = "script" => Suits(s, mem) /\ (s \notin {"cleanup", "mark-failed"} => UnsettledIn(mem) = {})
    PROVE  Progress'
<1>1. UNCHANGED <<journal, mem, run>> /\ pc' = p /\ step' = s
    BY DEF Goto, disk
<1>2. mem.owed => journal[Harness].owed
    BY DEF Duty, Progress, Scripting, Harnessing
<1>3. p = "script" => Suits(step, mem)' /\ (step' \notin {"cleanup", "mark-failed"} => UnsettledIn(mem)' = {})
    BY <1>1 DEF Suits, UnsettledIn
<1> QED
    BY <1>1, <1>2, <1>3
    DEF Progress, Harnessing, Scripting, Between, InScript, Submitting, Mined

(* The harness signs. *)
LEMMA Signed ==
    ASSUME IInv, Duty, Scripting, pc = "script", step # "mark-failed", NEW l, Sign(l)
    PROVE  Progress'
<1>1. UNCHANGED <<journal, mem, run, step>> /\ pc' = "signed"
    BY DEF Sign, disk
<1>2. Suits(step, mem)' /\ (step' \notin {"cleanup", "mark-failed"} => UnsettledIn(mem)' = {})
    BY <1>1 DEF Duty, Progress, Suits, Between, UnsettledIn
<1>3. mem.owed => journal[Harness].owed
    BY DEF Duty, Progress, Scripting, Harnessing
<1> QED
    BY <1>1, <1>2, <1>3 DEF Progress, Harnessing, Scripting, InScript, Submitting, Mined

(* The harness writes what is no transaction. *)
LEMMA Wrote ==
    ASSUME IInv, Duty, Scripting, NEW j \in Journals, j.tx = mem.tx, Good(j),
           NEW p \in {"script", "exit"}, NEW s, NEW bp \in {"script", "exit"}, NEW bs,
           PersistThen(j, p, s, bp, bs),
           p = "script" => Suits(s, j) /\ (s \notin {"cleanup", "mark-failed"} => UnsettledIn(mem) = {}),
           bp = "script" => bs = "mark-failed" \/ (bs = "cleanup" /\ Suits(bs, j) /\ ~j.owed)
    PROVE  Progress' /\ (mem' = mem \/ \E k : mem' = k /\ Good(k))
<1> USE DEF IInv
<1>1. mem' = j /\ run' = run /\ run = Harness /\ UnsettledIn(j) = UnsettledIn(mem)
    BY DEF PersistThen, Scripting, UnsettledIn
<1>2. \A i : Suits(i, j) => Suits(i, mem)'
    BY <1>1 DEF Suits, UnsettledIn
<1>3. UnsettledIn(mem)' = UnsettledIn(mem)
    BY <1>1 DEF UnsettledIn
<1>4. ASSUME Persist(j), pc' = p, step' = s PROVE Progress'
    <2>1. journal'[Harness] = j
        BY <1>1, <1>4, PersistFacts DEF Types
    <2>2. p = "script" => Suits(step, mem)'
        BY <1>2, <1>4 DEF Suits, UnsettledIn
    <2> QED
        BY <1>1, <1>3, <1>4, <2>1, <2>2
        DEF Progress, Harnessing, Scripting, Between, InScript, Submitting, Mined
<1>5. ASSUME pc' = bp, step' = bs PROVE Progress'
    <2>1. bp = "script" => Suits(step, mem)' /\ step' \in {"cleanup", "mark-failed"}
                           /\ (step' = "cleanup" => ~mem'.owed)
        BY <1>1, <1>2, <1>5 DEF Suits, UnsettledIn
    <2> QED
        BY <1>5, <2>1 DEF Progress, Harnessing, Scripting, InScript, Submitting, Mined
<1> QED
    BY <1>1, <1>4, <1>5 DEF PersistThen

(* The script of the harness never loses an obligation. *)
LEMMA GoodScripts ==
    ASSUME IInv, Duty, Scripts, run = Harness
    PROVE  Progress' /\ (mem' = mem \/ \E k : mem' = k /\ Good(k))
<1> USE DEF IInv, At, Back
<1>0. pc \in {"script", "returned"} /\ Scripting /\ Good(mem) /\ mem \in Journals
    BY ScriptMoves DEF Scripting, Harnessing, InScript, Duty, Types
<1>1. \A p, s : Goto(p, s) => mem' = mem
    BY DEF Goto
<1>2. \A l : Sign(l) => mem' = mem
    BY DEF Sign
<1>3. ASSUME ~Allowance, "approve" \notin UnsettledIn(mem), ~(pc = "returned" /\ err = "unknown")
      PROVE  Good(Clear(mem))
    <2>1. Quiet => ~Owing
        BY <1>0, <1>3, Cleared DEF Owing, Good
    <2>2. Clear(mem).tx = mem.tx /\ Clear(mem).run = mem.run /\ ~Clear(mem).owed
        BY <1>0, OtherFacts
    <2> DEFINE k == Clear(mem)
    <2> HIDE DEF k
    <2>3. k.tx = mem.tx /\ k.run = mem.run /\ ~k.owed => Good(k)
        BY <1>0, <2>1 DEF Good, Finished, UnsettledIn, IncludedIn
    <2> QED
        BY <2>2, <2>3 DEF k
<1>4. /\ Clear(mem) \in Journals /\ Clear(mem).tx = mem.tx /\ ~Clear(mem).owed
      /\ Clear(mem).run = mem.run
      /\ Owe(mem) \in Journals /\ Owe(mem).tx = mem.tx /\ Owe(mem).owed /\ Owe(mem).run = mem.run
      /\ \A s \in RunStatuses : MarkRun(mem, s) \in Journals /\ MarkRun(mem, s).tx = mem.tx
                                /\ MarkRun(mem, s).run = s /\ MarkRun(mem, s).owed = mem.owed
    BY <1>0, OtherFacts
<1>5. \A k : k.tx = mem.tx => UnsettledIn(k) = UnsettledIn(mem)
    BY DEF UnsettledIn
<1>6. /\ Suits(step, mem)
      /\ pc = "returned" /\ err = "none" => mem.run # "passed"
      /\ step \notin {"cleanup", "mark-failed"} /\ Between => UnsettledIn(mem) = {}
    BY <1>0 DEF Duty, Progress
<1>7. Suits("mark-failed", mem) /\ Suits("mark-failed", Clear(mem)) /\ Suits("quote", mem)
      /\ Suits("quote", Clear(mem))
    BY DEF Suits
<1>8. step # "mark-failed" => \A p \in {"script", "exit"} : \A s :
          Goto(p, s)
          /\ (p = "script" => Suits(s, mem) /\ (s \notin {"cleanup", "mark-failed"} => UnsettledIn(mem) = {}))
          => Progress' /\ mem' = mem
    BY <1>0, <1>1, WentOn
<1>9. step # "mark-failed" /\ pc = "script" => \A l : Sign(l) => Progress' /\ mem' = mem
    BY <1>0, <1>2, Signed
<1>10. step # "mark-failed" => (ThrowPlain => Progress' /\ mem' = mem)
                              /\ (Caught => Progress' /\ mem' = mem)
    BY <1>7, <1>8 DEF ThrowPlain, Caught
<1>11. CASE HarnessRecover
    <2>1. step = "start" /\ step # "mark-failed"
        BY <1>11 DEF HarnessRecover
    <2>2. CASE pc = "script" /\ ~mem.owed /\ Goto("script", "quote")
        BY <1>6, <1>7, <1>8, <2>1, <2>2 DEF Between
    <2>3. CASE pc = "script" /\ Sign("recovery")
        BY <1>9, <2>1, <2>3
    <2>4. CASE Between /\ ~Allowance /\ PersistThen(Clear(mem), "script", "quote", "script", "mark-failed")
        <3>1. UnsettledIn(mem) = {} /\ ~(pc = "returned" /\ err = "unknown")
            BY <1>6, <2>1, <2>4 DEF Between
        <3>2. Good(Clear(mem))
            BY <1>3, <2>4, <3>1
        <3> QED
            BY <1>0, <1>4, <1>7, <2>4, <3>1, <3>2, Wrote
    <2>5. CASE ThrowPlain \/ Caught
        BY <1>10, <2>1, <2>5
    <2> QED
        BY <1>11, <2>2, <2>3, <2>4, <2>5 DEF HarnessRecover, Between
<1>12. CASE HarnessQuote
    <2>1. step = "quote" /\ step # "mark-failed"
        BY <1>12 DEF HarnessQuote
    <2>2. CASE pc = "returned" /\ err = "none" /\ Goto("script", "owe")
        BY <1>6, <1>8, <2>1, <2>2 DEF Between, Suits
    <2> QED
        BY <1>9, <1>10, <1>12, <2>1, <2>2 DEF HarnessQuote
<1>13. CASE HarnessApprove
    <2>1. step \in {"owe", "approve"} /\ step # "mark-failed" /\ mem.run # "passed"
        BY <1>6, <1>13 DEF HarnessApprove, Suits
    <2>2. CASE pc = "script" /\ step = "owe" /\ mem.owed /\ Goto("script", "approve")
        BY <1>6, <1>8, <2>1, <2>2 DEF Between, Suits
    <2>3. CASE pc = "script" /\ step = "owe"
               /\ PersistThen(Owe(mem), "script", "approve", "script", "mark-failed")
        <3>1. Suits("approve", Owe(mem)) /\ UnsettledIn(mem) = {}
            BY <1>4, <1>6, <2>1, <2>3 DEF Suits, Between
        <3> DEFINE k == Owe(mem)
        <3> HIDE DEF k
        <3>2. k.tx = mem.tx /\ k.run = mem.run /\ k.owed => Good(k)
            BY <1>0, <2>1 DEF Good, Finished, IncludedIn
        <3>3. Good(Owe(mem))
            BY <1>4, <3>2 DEF k
        <3> QED
            BY <1>0, <1>4, <2>3, <3>1, <3>3, Wrote
    <2>4. CASE step = "approve" /\ Between /\ Goto("script", "swap")
        BY <1>6, <1>8, <2>1, <2>4 DEF Suits
    <2>5. CASE step = "approve" /\ pc = "script" /\ Sign("approve")
        BY <1>9, <2>1, <2>5
    <2>6. CASE ThrowPlain \/ Caught
        BY <1>10, <2>1, <2>6
    <2> QED
        BY <1>13, <2>2, <2>3, <2>4, <2>5, <2>6 DEF HarnessApprove, Between
<1>14. CASE HarnessSwap
    <2>1. /\ step = "swap" /\ step # "mark-failed" /\ mem.run # "passed"
          /\ "approve" \notin UnsettledIn(mem) /\ Suits("cleanup", mem)
        BY <1>6, <1>14 DEF HarnessSwap, Suits
    <2>2. CASE pc = "script" /\ Sign("swap")
        BY <1>9, <2>1, <2>2
    <2>3. CASE pc = "returned" /\ err = "none" /\ ~Allowance
               /\ PersistThen(Clear(mem), "script", "pass", "script", "cleanup")
        <3>1. UnsettledIn(mem) = {}
            BY <1>6, <2>1, <2>3 DEF Between
        <3>2. Good(Clear(mem))
            BY <1>3, <2>1, <2>3
        <3>3. Suits("pass", Clear(mem)) /\ Suits("cleanup", Clear(mem))
            BY <1>4, <1>5, <2>1 DEF Suits
        <3> QED
            BY <1>0, <1>4, <2>3, <3>1, <3>2, <3>3, Wrote
    <2>4. CASE Goto("script", "cleanup") \/ Goto("exit", step)
        BY <1>8, <2>1, <2>4
    <2> QED
        BY <1>14, <2>2, <2>3, <2>4 DEF HarnessSwap
<1>15. CASE HarnessCleanup
    <2>1. step = "cleanup" /\ step # "mark-failed" /\ "approve" \notin UnsettledIn(mem)
        BY <1>6, <1>15 DEF HarnessCleanup, Suits
    <2>2. CASE pc = "script" /\ Sign("cleanup")
        BY <1>9, <2>1, <2>2
    <2>3. CASE (pc = "script" \/ err = "none") /\ ~Allowance
               /\ PersistThen(Clear(mem), "script", "mark-failed", "exit", step)
        <3>1. Good(Clear(mem))
            BY <1>0, <1>3, <2>1, <2>3
        <3> QED
            BY <1>0, <1>4, <1>7, <2>3, <3>1, Wrote
    <2>4. CASE Goto("script", "mark-failed") \/ Goto("exit", step)
        BY <1>7, <1>8, <2>1, <2>4
    <2> QED
        BY <1>15, <2>2, <2>3, <2>4 DEF HarnessCleanup
<1>16. CASE HarnessEnd
    <2>1. CASE pc = "script" /\ step = "pass"
               /\ PersistThen(MarkRun(mem, "passed"), "exit", step, "script", "mark-failed")
        <3>1. ~mem.owed /\ UnsettledIn(mem) = {}
            BY <1>6, <2>1 DEF Suits, Between
        <3> DEFINE k == MarkRun(mem, "passed")
        <3>2. k.tx = mem.tx /\ k.owed = mem.owed /\ k \in Journals
            BY <1>4 DEF RunStatuses
        <3> HIDE DEF k
        <3>3. Good(k)
            BY <1>0, <1>5, <3>1, <3>2 DEF Good, Finished, IncludedIn
        <3>4. PersistThen(k, "exit", step, "script", "mark-failed")
            BY <2>1 DEF k
        <3> QED
            BY <1>0, <3>2, <3>3, <3>4, Wrote
    <2>2. CASE pc = "script" /\ PersistThen(MarkRun(mem, "failed"), "exit", step, "exit", step)
        <3> DEFINE k == MarkRun(mem, "failed")
        <3>1. k.tx = mem.tx /\ k.owed = mem.owed /\ k \in Journals /\ k.run = "failed"
            BY <1>4 DEF RunStatuses
        <3> HIDE DEF k
        <3>2. Good(k)
            BY <1>0, <3>1 DEF Good, Finished, IncludedIn
        <3>3. PersistThen(k, "exit", step, "exit", step)
            BY <2>2 DEF k
        <3> QED
            BY <1>0, <3>1, <3>2, <3>3, Wrote
    <2> QED
        BY <1>16, <2>1, <2>2 DEF HarnessEnd
<1>17. ~DeployNext /\ ~DeployReturned
    BY LabelFacts DEF DeployNext, DeployReturned
<1> QED
    BY <1>11, <1>12, <1>13, <1>14, <1>15, <1>16, <1>17 DEF Scripts

(* The engine takes the harness no further than its journal allows. *)
LEMMA ProgressEngine ==
    ASSUME IInv, OpenInHand, Truths, Stepping, Duty, [Next]_vars, Engine, run' = Harness,
           pc' \in {"reconcile"} \cup InScript
    PROVE  Progress'
<1> USE DEF IInv, InScript, Submitting, Mined
<1>0. mem \in Journals /\ tx.label \in Labels /\ tx.nonce \in Nat
    BY DEF Types, Txs, Nonces
<1>1. CASE OpenJournal \/ OpenRecovery
    <2>1. pc' = "reconcile" /\ mem' = journal[Harness] /\ journal' = journal
        BY <1>1 DEF OpenJournal, OpenRecovery, disk
    <2> QED
        BY <2>1 DEF Progress, Scripting
<1>2. CASE ~(OpenJournal \/ OpenRecovery)
    <2>1. pc \in Opened /\ run = Harness /\ tx' = tx
          /\ (step' = step \/ (pc = "reconcile" /\ pc' = "script" /\ step' = "mark-failed"))
        <3>1. pc \in Opened /\ run = Harness
            <4>1. ~JournalOpened \/ pc \in Opened
                BY <1>2
                DEF JournalOpened, Engine, SettleSigner, LaunchRecovery, Exit, Idle, Reconcile,
                    ReconcileDone, JournalPrepared, ReserveNonce, BroadcastTransaction,
                    RecordBroadcast, RecordSignerBroadcast, RecordUnknown, RecordSignerUnknown,
                    Wait, AwaitCanonical, RecordOutcome, Abandon, ReserveAgain, Rebroadcast,
                    RecordRebroadcast, Poll, SettleRecovered, Opened
            <4> QED
                BY <4>1, Flow DEF Opened
        <3> QED
            BY <3>1, <1>2
            DEF Engine, SettleSigner, LaunchRecovery, Exit, Idle, Reconcile, ReconcileDone,
                JournalPrepared, ReserveNonce, BroadcastTransaction, RecordBroadcast,
                RecordSignerBroadcast, RecordUnknown, RecordSignerUnknown, Wait, AwaitCanonical,
                RecordOutcome, Abandon, ReserveAgain, Rebroadcast, RecordRebroadcast, Poll,
                SettleRecovered, Opened, Stopped
    <2>2. pc \in {"reconcile"} \cup InScript /\ pc \notin {"script", "returned"} /\ Harnessing
          /\ (pc = "reconcile" => target = "run" /\ step = "start")
        <3>1. pc \notin {"script", "returned"}
            BY <1>2, <2>1
            DEF Engine, SettleSigner, LaunchRecovery, Exit, Idle, Reconcile,
                ReconcileDone, JournalPrepared, ReserveNonce, BroadcastTransaction,
                RecordBroadcast, RecordSignerBroadcast, RecordUnknown, RecordSignerUnknown,
                Wait, AwaitCanonical, RecordOutcome, Abandon, ReserveAgain, Rebroadcast,
                RecordRebroadcast, Poll, SettleRecovered
        <3> QED
            BY <2>1, <3>1, HarnessRuns DEF Opened, Repairing, Harnessing, Control
    <2>3. \/ journal' = journal /\ mem' = mem
          \/ JournalWritten
        BY <2>2, JournalMoves DEF JournalOpened
    <2>4. mem'.owed = mem.owed /\ mem'.run = mem.run
        BY <2>1, <2>2, <2>3, GoodEngine DEF JournalWritten
    <2>5. step # "mark-failed" /\ mem'.owed => journal'[Harness].owed
        <3>1. journal'[Harness] = journal[Harness] \/ journal'[Harness] = mem'
            BY <2>1, <2>3, PersistFacts DEF JournalWritten, Types
        <3> QED
            BY <2>2, <2>4, <3>1 DEF Duty, Progress
    <2>6. Quiet' => Quiet
        BY MishapsGrow
    <2>7. Quiet' /\ pc' \in {"confirming"} \cup Mined => OnChain(tx)' \in Included
        <3>1. ASSUME pc' \in {"confirming"} \cup Mined PROVE Wait \/ (AwaitCanonical /\ pc = "confirming")
            BY <1>2, <2>2, <3>1
            DEF Engine, SettleSigner, LaunchRecovery, Exit, Idle, Reconcile,
                ReconcileDone, JournalPrepared, ReserveNonce, BroadcastTransaction,
                RecordBroadcast, RecordSignerBroadcast, RecordUnknown, RecordSignerUnknown,
                AwaitCanonical, RecordOutcome, Abandon, ReserveAgain, Rebroadcast,
                RecordRebroadcast, Poll, SettleRecovered, Returned, Stopped
        <3>2. ASSUME pc' \in {"confirming"} \cup Mined, Quiet' PROVE OnChain(tx) \in Included /\ chain' = chain
            BY <2>2, <2>6, <3>1, <3>2 DEF Wait, AwaitCanonical, Duty, Progress
        <3> QED
            BY <2>1, <3>2 DEF OnChain, Handed
    <2>8. ASSUME pc' \in InScript
          PROVE  /\ Suits(step, mem)'
                 /\ pc' \in Submitting \/ (pc' = "returned" /\ err' = "none") => mem'.run # "passed"
                 /\ step' \notin {"cleanup", "mark-failed"} =>
                        /\ Between' => UnsettledIn(mem)' = {}
                        /\ pc' \in Submitting => UnsettledIn(mem)' \subseteq {tx'.label}
        <3>0. CASE pc' = "script" /\ step' = "mark-failed"
            BY <3>0 DEF Suits
        <3>1. CASE ReconcileDone /\ step' = step
            <4>1. /\ step' = "start" /\ pc' = "script" /\ mem' = mem /\ UnsettledIn(mem) = {}
                BY <2>1, <2>2, <2>8, <3>1 DEF ReconcileDone, Stopped
            <4>2. UnsettledIn(mem)' = UnsettledIn(mem)
                BY <4>1 DEF UnsettledIn
            <4> QED
                BY <4>1, <4>2 DEF Suits
        <3>2. CASE ~ReconcileDone /\ step' = step
            <4>1. Scripting /\ pc \in {"signed"} \cup Submitting
                <5>1. pc # "reconcile"
                    BY <1>2, <2>1, <2>2, <2>8, <3>2
                    DEF Engine, SettleSigner, LaunchRecovery, Exit, Idle, Reconcile, JournalPrepared,
                        ReserveNonce, BroadcastTransaction, RecordBroadcast, RecordSignerBroadcast,
                        RecordUnknown, RecordSignerUnknown, Wait, AwaitCanonical, RecordOutcome,
                        Abandon, ReserveAgain, Rebroadcast, RecordRebroadcast, Poll, SettleRecovered,
                        Stopped
                <5> QED
                    BY <2>1, <2>2, <5>1 DEF Scripting
            <4>2. step \in {"swap", "cleanup", "pass"} => tx.label # "approve"
                BY <4>1 DEF Stepping, Sent
            <4>3. UnsettledIn(mem)' \subseteq UnsettledIn(mem) \cup {tx.label}
                <5>1. CASE mem' = mem
                    BY <5>1 DEF UnsettledIn
                <5>2. CASE JournalWritten
                    <6>1. PICK j \in Journals : mem' = j /\ Changes(j)
                        BY <5>2 DEF JournalWritten
                    <6>2. tx.label \in Labels /\ (pc \in Submitting => tx.label \in DOMAIN mem.tx)
                        BY <1>0, JournalsInHand
                    <6>3. UnsettledIn(j) \subseteq UnsettledIn(mem) \cup {tx.label}
                        <7>1. \/ pc = "signed" /\ j = Prepare(mem, tx.label, tx.nonce)
                              \/ j = Broadcasted(mem, tx.label) /\ pc \in Submitting
                              \/ \E s \in Unsettled \cup Mined :
                                     j = Outcome(mem, tx.label, s) /\ pc \in Submitting
                            BY <4>1, <6>1 DEF Changes, Unsettled
                        <7> QED
                            BY <1>0, <6>2, <7>1, OpenFacts
                    <6> QED
                        BY <6>1, <6>3 DEF UnsettledIn
                <5> QED
                    BY <2>3, <5>1, <5>2
            <4>4. Suits(step, mem)'
                BY <2>1, <2>4, <4>1, <4>2, <4>3 DEF Suits, Duty, Progress, UnsettledIn
            <4>5. pc' \in Submitting \/ (pc' = "returned" /\ err' = "none") => mem'.run # "passed"
                <5>1. CASE pc \in Submitting
                    BY <2>4, <4>1, <5>1 DEF Duty, Progress
                <5>2. CASE pc = "signed"
                    <6>1. JournalPrepared
                        BY <1>2, <2>1, <3>2, <5>2
                        DEF Engine, SettleSigner, LaunchRecovery, Exit, Reconcile, ReserveNonce,
                            BroadcastTransaction, RecordBroadcast, RecordSignerBroadcast,
                            RecordUnknown, RecordSignerUnknown, Wait, AwaitCanonical, RecordOutcome,
                            Abandon, ReserveAgain, Rebroadcast, RecordRebroadcast, Poll,
                            SettleRecovered
                    <6>2. \/ pc' = "journaled" /\ MayPrepare(mem, tx.label, tx.nonce)
                          \/ pc' = "returned" /\ err' \in {"plain", "unknown"}
                        <7>1. \A e : Returned(e) => pc' = "returned" /\ err' = e
                            BY DEF Returned
                        <7>2. (IF OtherHash(mem, tx.label, tx.nonce) /\ ~TerminalRun(mem)
                               THEN "plain" ELSE "unknown") \in {"plain", "unknown"}
                            OBVIOUS
                        <7> QED
                            BY <6>1, <7>1, <7>2 DEF JournalPrepared
                    <6>3. MayPrepare(mem, tx.label, tx.nonce) => mem.run # "passed"
                        BY <2>2 DEF MayPrepare, TerminalRun, Duty, Good, Finished
                    <6> QED
                        BY <2>4, <6>2, <6>3
                <5> QED
                    BY <4>1, <5>1, <5>2
            <4>6. ASSUME step \notin {"cleanup", "mark-failed"}
                  PROVE  /\ Between' => UnsettledIn(mem)' = {}
                         /\ pc' \in Submitting => UnsettledIn(mem)' \subseteq {tx'.label}
                <5>1. UnsettledIn(mem) \subseteq {tx.label}
                    BY <4>1, <4>6 DEF Duty, Progress, Between
                <5>2. ASSUME Between' PROVE UnsettledIn(mem)' = {}
                    <6>0. RecordOutcome
                        <7>1. RecordOutcome \/ JournalPrepared \/ ReserveNonce
                            BY <1>2, <2>1, <2>2, <4>1, <5>2
                            DEF Engine, SettleSigner, LaunchRecovery, Exit, Idle, Reconcile,
                                ReconcileDone, BroadcastTransaction, RecordBroadcast,
                                RecordSignerBroadcast, RecordUnknown, RecordSignerUnknown, Wait,
                                AwaitCanonical, Abandon, ReserveAgain, Rebroadcast,
                                RecordRebroadcast, Poll, SettleRecovered, Between, StatusOf
                        <7>2. \A e : Returned(e) => pc' = "returned" /\ err' = e
                            BY DEF Returned
                        <7>3. (IF OtherHash(mem, tx.label, tx.nonce) /\ ~TerminalRun(mem)
                               THEN "plain" ELSE "unknown") \in {"plain", "unknown"}
                            OBVIOUS
                        <7>4. JournalPrepared => pc' = "journaled" \/ (pc' = "returned" /\ err' # "none")
                            BY <7>2, <7>3 DEF JournalPrepared
                        <7>5. ReserveNonce => pc' = "reserved" \/ (pc' = "returned" /\ err' # "none")
                            BY <7>2 DEF ReserveNonce
                        <7> QED
                            BY <5>2, <7>1, <7>4, <7>5 DEF Between
                    <6>1. RecordOutcome /\ pc = "mined-success"
                        <7>1. pc' = "returned" /\ err' = "none"
                            BY <5>2, <6>0 DEF RecordOutcome, Returned, Between
                        <7>2. pc \in Mined \cup {"unknown-outcome"}
                            BY <6>0 DEF RecordOutcome
                        <7>3. pc \in {"mined-failure", "unknown-outcome"} => err' \in {"plain", "unknown"}
                            BY <6>0 DEF RecordOutcome, Returned
                        <7> QED
                            BY <6>0, <7>1, <7>2, <7>3
                    <6> DEFINE j == Outcome(mem, tx.label, "mined-success")
                    <6>2. mem' = j
                        BY <6>1 DEF RecordOutcome
                    <6>3. tx.label \in DOMAIN mem.tx
                        BY <6>1, JournalsInHand
                    <6>4. UnsettledIn(j) \subseteq UnsettledIn(mem) \ {tx.label}
                        BY <1>0, <6>3, OpenFacts
                    <6> HIDE DEF j
                    <6>5. UnsettledIn(mem)' = UnsettledIn(j)
                        BY <6>2 DEF UnsettledIn
                    <6> QED
                        BY <5>1, <6>4, <6>5
                <5> QED
                    BY <2>1, <4>3, <5>1, <5>2
            <4> QED
                BY <2>1, <4>4, <4>5, <4>6
        <3> QED
            BY <2>1, <3>0, <3>1, <3>2
    <2> QED
        BY <2>1, <2>5, <2>7, <2>8 DEF Progress, Harnessing, Scripting
<1> QED
    BY <1>1, <1>2

(* The harness does its duty, whatever fails. *)
LEMMA DutyStep == IInv /\ OpenInHand /\ Truths /\ Stepping /\ Duty /\ [Next]_vars => Duty'
<1> SUFFICES ASSUME IInv, OpenInHand, Truths, Stepping, Duty, [Next]_vars PROVE Duty'
    OBVIOUS
<1> USE DEF IInv, InScript, Submitting, Mined
<1>0. Harness \in Runs /\ run \in Runs /\ journal \in [Runs -> Journals]
    BY LabelFacts DEF Types
<1>1. run = Harness /\ pc = "reserved" /\ tx.label = "approve" => mem.owed /\ journal[Harness].owed
    BY DEF Stepping, Sent, Scripting, Harnessing, Duty, Progress, Suits
<1>2. \A j : Good(j) /\ (run = Harness /\ pc = "reserved" /\ tx.label = "approve" => j.owed) => Good(j)'
    BY GoodStays
<1>3. ASSUME NEW j, Good(j), pc # "reserved" \/ run # Harness, mem' = j PROVE Good(mem)'
    BY <1>2, <1>3 DEF Good, Finished, IncludedIn, UnsettledIn
<1>4. ASSUME NEW j, Good(j), pc # "reserved" \/ run # Harness, journal'[Harness] = j
      PROVE  Good(journal[Harness])'
    BY <1>2, <1>4 DEF Good, Finished, IncludedIn, UnsettledIn
<1>5. ASSUME journal'[Harness] = journal[Harness] PROVE Good(journal[Harness])'
    <2> DEFINE j == journal[Harness]
    <2>1. Good(j) /\ (run = Harness /\ pc = "reserved" /\ tx.label = "approve" => j.owed)
        BY <1>1 DEF Duty
    <2>2. \A k : k = j => Good(k)'
        BY <1>2, <2>1
    <2> QED
        BY <1>5, <2>2 DEF Good, Finished, IncludedIn, UnsettledIn
<1>6. ASSUME mem' = mem, Harnessing PROVE Good(mem)'
    <2>1. Good(mem) /\ (run = Harness /\ pc = "reserved" /\ tx.label = "approve" => mem.owed)
        BY <1>1, <1>6 DEF Duty
    <2>2. \A k : k = mem => Good(k)'
        BY <1>2, <2>1
    <2> QED
        BY <1>6, <2>2 DEF Good, Finished, IncludedIn, UnsettledIn
<1>7. ASSUME run = Harness, JournalWritten, ~Crash PROVE pc # "reserved" /\ \E j \in Journals : mem' = j /\ Good(j)
    <2>1. PICK j \in Journals : mem' = j /\ Changes(j)
        BY <1>7 DEF JournalWritten
    <2>2. pc # "reserved"
        BY <2>1 DEF Changes
    <2>3. CASE pc \in {"script", "returned"}
        <3>1. Scripts \/ mem' = mem
            BY <1>7, <2>3
            DEF Next, Engine, SettleSigner, LaunchRecovery, OpenJournal, Exit, Reconcile,
                ReconcileDone, JournalPrepared, ReserveNonce, BroadcastTransaction, RecordBroadcast,
                RecordSignerBroadcast, RecordUnknown, RecordSignerUnknown, Wait, AwaitCanonical,
                RecordOutcome, OpenRecovery, Abandon, ReserveAgain, Rebroadcast, RecordRebroadcast,
                Poll, SettleRecovered, Chain, Mine, Finalize, Reorg, Evict, ArriveLate, offchain,
                process, Launch, vars
        <3> QED
            BY <1>7, <2>1, <2>2, <2>3, <3>1, GoodScripts DEF Duty, Harnessing, Types
    <2> QED
        BY <1>7, <2>1, <2>2, <2>3, GoodEngine
<1>8. Good(journal[Harness])'
    <2>1. CASE journal' = journal
        BY <1>5, <2>1
    <2>2. CASE journal' # journal /\ run = Harness
        <3>1. JournalWritten /\ ~Crash
            BY <2>2, JournalMoves DEF Crash, disk
        <3>2. journal'[Harness] = mem' \/ journal'[Harness] = journal[Harness]
            BY <1>0, <2>2, <3>1, PersistFacts DEF JournalWritten, Types
        <3> QED
            BY <1>4, <1>5, <1>7, <2>2, <3>1, <3>2
    <2>3. CASE journal' # journal /\ run # Harness
        <3>1. journal'[Harness] = journal[Harness]
            BY <1>0, <2>3, JournalMoves, PersistFacts DEF JournalWritten, Types
        <3> QED
            BY <1>5, <3>1
    <2> QED
        BY <2>1, <2>2, <2>3
<1>9. ASSUME run' = Harness, pc' \in {"reconcile"} \cup InScript PROVE Good(mem)'
    <2>1. run = Harness /\ (pc \in Opened \/ (JournalOpened /\ journal' = journal))
        BY <1>9, Flow DEF Opened
    <2>2. CASE JournalOpened
        <3>1. mem' = journal[Harness] /\ pc # "reserved" /\ Good(journal[Harness])
            BY <2>1, <2>2 DEF JournalOpened, Duty
        <3> QED
            BY <1>3, <3>1
    <2>3. CASE pc \in Opened
        <3>1. pc \in {"reconcile"} \cup InScript
            BY <2>1, <2>3, HarnessRuns DEF Opened
        <3>2. Harnessing /\ ~JournalOpened /\ pc' # "idle" /\ ~Crash
            BY <1>9, <2>1, <3>1 DEF Harnessing, JournalOpened, Crash, Idle
        <3> QED
            BY <1>3, <1>6, <1>7, <2>1, <3>2, JournalMoves
    <2> QED
        BY <2>1, <2>2, <2>3
<1>10. ASSUME run' = Harness, pc' \in {"reconcile"} \cup InScript PROVE Progress'
    <2>1. CASE Engine
        BY <1>10, <2>1, ProgressEngine
    <2>2. CASE Scripts
        BY <1>10, <2>2, ScriptMoves, GoodScripts DEF ScriptGoes, ScriptWrites, ScriptSigns, Sign
    <2>3. CASE Chain \/ UNCHANGED vars
        <3>1. UNCHANGED <<run, pc, step, tx, mem, journal, err>>
            BY <2>3 DEF Chain, Mine, Finalize, Reorg, Evict, ArriveLate, offchain, process, disk, vars
        <3>2. (Quiet' => Quiet) /\ (Quiet' /\ OnChain(tx) \in Included => OnChain(tx)' \in Included)
            <4>1. \A t : Quiet' /\ OnChain(t) \in Included => OnChain(t)' \in Included
                BY ChainKeeps
            <4> QED
                BY <3>1, <4>1, MishapsGrow DEF OnChain
        <3> QED
            BY <3>1, <3>2 DEF Duty, Progress, Harnessing, Scripting, Suits, Between, UnsettledIn
    <2>4. CASE Crash \/ \E r \in {Deploy, Harness} : Launch(r)
        BY <1>10, <2>4 DEF Crash, Idle, Launch
    <2> QED
        BY <2>1, <2>2, <2>3, <2>4 DEF Next
<1>11. Progress'
    BY <1>10 DEF Progress, Harnessing, Scripting
<1> QED
    BY <1>8, <1>9, <1>11 DEF Duty, Harnessing

--------------------------------------------------------------------------------
(* The theorems *)

(* The inductive invariant holds at first. *)
LEMMA InvariantInit == Init => IInv
<1> SUFFICES ASSUME Init PROVE IInv
    OBVIOUS
<1>1. Types
    BY TypesInit
<1>2. Control /\ MemFollowsDisk /\ InHandRecorded
    BY DEF Init, Control, MemFollowsDisk, InHandRecorded, InScript, Submitting, Repairing,
           Repaired, Mined
<1>3. AllRecorded
    <2>1. CASE chain = [t \in {} |-> "none"]
        BY <2>1 DEF AllRecorded, Handed
    <2>2. ASSUME NEW l \in Labels \ HarnessLabels, NEW w \in {"none", "absent", "pending"},
                 Leftover([label |-> l, nonce |-> 0], w),
                 l \in Historical => w = "none", l \notin Historical => l \notin DeployLabels
          PROVE  AllRecorded
        <3> DEFINE t == [label |-> l, nonce |-> 0]
        <3>1. CASE w = "none"
            BY <2>2, <3>1 DEF Leftover, AllRecorded, Handed
        <3>2. CASE w # "none"
            <4>1. Handed = {t} /\ DOMAIN signer = {t} /\ signer[t] = "prepared"
                BY <2>2, <3>2 DEF Leftover, Handed
            <4>2. t.label \in Inherited
                BY <2>2, <3>2 DEF Inherited, Current, DeployLabels
            <4> QED
                BY <4>1, <4>2 DEF AllRecorded
        <3> QED
            BY <3>1, <3>2
    <2>3. \/ chain = [t \in {} |-> "none"]
          \/ \E l \in Labels \ HarnessLabels : \E w \in {"none", "absent", "pending"} :
                 /\ Leftover([label |-> l, nonce |-> 0], w)
                 /\ l \in Historical => w = "none"
                 /\ l \notin Historical => l \notin DeployLabels
        BY DEF Init, DeployLabels
    <2> QED
        BY <2>1, <2>2, <2>3
<1> QED
    BY <1>1, <1>2, <1>3 DEF IInv

(* It holds always. *)
LEMMA Invariant == Spec => []IInv
<1>1. IInv /\ [Next]_vars => IInv'
    BY TypesStep, ControlStep, JournalStep, InHandStep, RecordedStep DEF IInv
<1> QED
    BY <1>1, InvariantInit, PTL DEF Spec

(* So does what it says of payloads. *)
LEMMA TidyInvariant == Spec => [](IInv /\ AllTidy /\ OpenInHand)
<1>1. Init => AllTidy /\ OpenInHand
    <2>1. Tidy(EmptyJournal)
        BY EmptyFacts DEF Tidy
    <2> QED
        BY <2>1 DEF Init, AllTidy, OpenInHand, Submitting, Mined
<1>2. IInv /\ AllTidy /\ OpenInHand /\ [Next]_vars => AllTidy' /\ OpenInHand'
    BY TidyStep, OpenStep
<1> QED
    BY <1>1, <1>2, Invariant, PTL DEF Spec

(* Every variable has its type, a journal holds the payload of exactly the transactions *)
(* that are not settled, and so can be opened again after any crash.                     *)
THEOREM Types_Correct == Spec => []TypeOK
<1>1. ASSUME NEW j \in Journals, Tidy(j) PROVE IsJournal(j) /\ Readable(j)
    <2>1. \A l \in DOMAIN j.tx : j.tx[l] \in Entries
        BY DEF Journals, Ledgers
    <2>2. \A l \in DOMAIN j.tx : j.tx[l].status \in Mined => ~j.tx[l].payload
        BY <1>1 DEF Tidy, Mined, Unsettled
    <2>3. Readable(j)
        BY <1>1 DEF Tidy, Readable, Unsettled
    <2>4. DOMAIN j.tx \subseteq Labels /\ j.run \in RunStatuses /\ j.owed \in BOOLEAN
        BY EntryFacts DEF Journals
    <2> QED
        BY <2>1, <2>2, <2>3, <2>4 DEF IsJournal
<1>2. IInv /\ AllTidy => TypeOK
    <2> SUFFICES ASSUME Types, AllTidy PROVE TypeOK
        BY DEF IInv
    <2>1. DOMAIN journal = Runs /\ IsJournal(mem)
          /\ \A r \in Runs : IsJournal(journal[r]) /\ Readable(journal[r])
        BY <1>1 DEF Types, AllTidy
    <2>2. /\ DOMAIN signer \subseteq Txs /\ (\A t \in DOMAIN signer : signer[t] \in Reserved \cup Terminal)
          /\ Handed \subseteq Txs /\ (\A t \in Handed : chain[t] \in Places)
        BY DEF Types, OfTxs, Handed
    <2> QED
        BY <2>1, <2>2 DEF TypeOK, Types, Places
<1> QED
    BY <1>2, TidyInvariant, PTL

(* Whatever an RPC node was ever handed, the signer's record and the journal of its *)
(* run hold on disk, at the nonce it was signed with.                               *)
THEOREM Recorded_Before_Sent == Spec => []SentIsRecorded
<1>1. IInv => SentIsRecorded
    BY DEF IInv, AllRecorded, SentIsRecorded, Inherited
<1> QED
    BY <1>1, Invariant, PTL

(* What the recovery tool gave up was never sent. *)
THEOREM Given_Up_Is_Unsent == Spec => []GivenUpIsUnsent
<1>1. IInv => GivenUpIsUnsent
    BY DEF IInv, AllRecorded, GivenUpIsUnsent, Recorded
<1> QED
    BY <1>1, Invariant, PTL

(* As long as no append failed and the chain replaced no head, at most one reserved *)
(* transaction has no receipt: the recovery tool's sole-transaction rule does not   *)
(* lock the signer out.                                                             *)
THEOREM One_In_Doubt == Spec => []AtMostOneInDoubt
<1>1. Init => InDoubt
    <2> SUFFICES ASSUME Init PROVE InDoubt
        OBVIOUS
    <2>1. \A t, u \in DOMAIN signer : t = u
        BY DEF Init, Leftover
    <2> QED
        BY <2>1 DEF Init, InDoubt, Doubtful, Submitting, Repairing, Mined
<1>2. IInv /\ InDoubt /\ [Next]_vars => InDoubt'
    BY InDoubtStep
<1>3. InDoubt => AtMostOneInDoubt
    BY DEF InDoubt, AtMostOneInDoubt, Calm, Quiet, Doubtful
<1> QED
    BY <1>1, <1>2, <1>3, Invariant, PTL DEF Spec

(* And of nonces, outcomes and labels. *)
LEMMA TruthsInvariant == Spec => [](IInv /\ AllTidy /\ OpenInHand /\ Truths)
<1>1. Init => Truths
    <2> SUFFICES ASSUME Init PROVE Truths
        OBVIOUS
    <2>1. \A t, u \in DOMAIN signer \cup Handed : t = u
        BY DEF Init, Leftover, Handed
    <2>2. \A t \in DOMAIN signer : signer[t] = "prepared"
        BY DEF Init, Leftover
    <2>3. OneNonce /\ NonceOwned /\ SignerTrue /\ LabelsOnce
        BY <2>1, <2>2 DEF OneNonce, NonceOwned, SignerTrue, LabelsOnce, Mined
    <2>4. NonceWatched
        BY DEF Init, NonceWatched
    <2>5. LabelsCurrent /\ TrueJournal(EmptyJournal)
        BY EmptyFacts DEF Init, LabelsCurrent, TrueJournal
    <2>6. JournalTrue
        BY <2>5, LabelFacts
        DEF Init, JournalTrue, InScript, Submitting, Repairing, Mined
    <2> QED
        BY <2>3, <2>4, <2>5, <2>6 DEF Truths
<1>2. IInv /\ OpenInHand /\ Truths /\ [Next]_vars => Truths'
    BY SignerTrueStep, OneNonceStep, NonceWatchedStep, NonceOwnedStep, LabelsStep, JournalTrueStep
    DEF Truths
<1> QED
    BY <1>1, <1>2, TidyInvariant, PTL DEF Spec

(* As long as the chain replaced no head, an allowance that is there or on its way is an *)
(* obligation on disk, and a harness run that passed left neither, nor anything open:    *)
(* no crash, failed append or lost answer lets the harness forget what it approved.      *)
THEOREM Allowance_Is_Owed == Spec => []AllowanceIsOwed
<1>1. Init => Stepping /\ Duty
    <2> SUFFICES ASSUME Init PROVE Stepping /\ Duty
        OBVIOUS
    <2>1. pc = "idle" /\ journal[Harness] = EmptyJournal
        BY LabelFacts DEF Init
    <2>2. ~Owing
        <3>1. \A t \in Handed : t.label \notin HarnessLabels
            <4>1. ASSUME NEW l \in Labels \ HarnessLabels, NEW w, Leftover([label |-> l, nonce |-> 0], w)
                  PROVE  \A t \in Handed : t.label \notin HarnessLabels
                BY <4>1 DEF Leftover, Handed
            <4>2. \/ Handed = {}
                  \/ \E l \in Labels \ HarnessLabels, w \in {"none", "absent", "pending"} :
                        Leftover([label |-> l, nonce |-> 0], w)
                BY DEF Init, Handed
            <4> QED
                BY <4>1, <4>2
        <3> QED
            BY <3>1 DEF Owing, Loose, Allowance, HarnessLabels
    <2>3. Good(EmptyJournal)
        BY <2>2, EmptyFacts DEF Good, Finished, IncludedIn, EmptyJournal
    <2> QED
        BY <2>1, <2>3
        DEF Stepping, Duty, Progress, Harnessing, Scripting, InScript, Submitting, Mined
<1>2. /\ IInv /\ OpenInHand /\ Truths /\ Stepping /\ Duty /\ [Next]_vars
      => Stepping' /\ Duty'
    BY SteppingStep, DutyStep
<1>3. Duty => AllowanceIsOwed
    <2> SUFFICES ASSUME Duty, Quiet
                 PROVE  /\ Owing => journal[Harness].owed
                        /\ journal[Harness].run = "passed" =>
                               ~Allowance /\ ~journal[Harness].owed /\ UnsettledIn(journal[Harness]) = {}
        BY DEF AllowanceIsOwed, Quiet, Owing, Loose, Included, Mined, Final
    <2> QED
        BY DEF Duty, Good, Finished, Owing
<1> QED
    BY <1>1, <1>2, <1>3, TruthsInvariant, PTL DEF Spec

(* The runners implement SubmittedOnce: whatever crashes, fails, is lost or retried, an *)
(* operation is submitted at one nonce that no other has, the chain decides them in the *)
(* order of their nonces, and the signer's record says of one what the chain decided.   *)
THEOREM Submitted_Once == Spec => SubmitsOnce
<1>1. Init => Ledger!Init
    <2> SUFFICES ASSUME Init PROVE Ledger!Init
        OBVIOUS
    <2>1. \A t, u \in Kept : t = u
        BY DEF Init, Leftover, Handed, Kept
    <2>2. \A t : ~Confirmed(t)
        BY DEF Init, Leftover, Handed, Confirmed, OnChain, Final
    <2>3. Told = {}
        BY DEF Init, Leftover, Told, Mined
    <2>4. \A k, l \in {t.label : t \in Kept} : k = l
        BY <2>1
    <2>5. DOMAIN SentBar = {t.label : t \in Kept} /\ DOMAIN FateBar = {} /\ DOMAIN ToldBar = {}
        BY <2>2, <2>3 DEF SentBar, FateBar, ToldBar
    <2>6. Ledger!Distinct(SentBar)
        BY <2>4, <2>5 DEF Ledger!Distinct
    <2> QED
        BY <2>5, <2>6 DEF Ledger!Init, SentBar, FateBar, ToldBar
<1>2. /\ IInv /\ AllTidy /\ OpenInHand /\ Truths
      /\ (IInv /\ AllTidy /\ OpenInHand /\ Truths)'
      /\ [Next]_vars
      => StillBar \/ SubmitBar \/ DecideBar \/ TellBar
    BY HandedMoves, TellStep, SubmitStep, DecideStep
<1>3. StillBar \/ SubmitBar \/ DecideBar \/ TellBar
      => [Ledger!Next]_<<SentBar, FateBar, ToldBar>>
    <2>1. SubmitBar => Ledger!Submit
        BY DEF SubmitBar, Ledger!Submit, SentBar, FateBar, ToldBar
    <2>2. DecideBar => Ledger!Decide
        BY DEF DecideBar, Ledger!Decide, SentBar, FateBar, ToldBar
    <2>3. TellBar => Ledger!Tell
        BY DEF TellBar, Ledger!Tell, SentBar, FateBar, ToldBar
    <2> QED
        BY <2>1, <2>2, <2>3 DEF StillBar, Ledger!Next
<1> QED
    BY <1>1, <1>2, <1>3, TruthsInvariant, PTL
    DEF Spec, SubmitsOnce, Ledger!Spec, SentBar, FateBar, ToldBar
================================================================================
