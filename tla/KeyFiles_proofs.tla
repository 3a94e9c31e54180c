-------------------------- MODULE KeyFiles_proofs ---------------------------
(***************************************************************************)
(* Proofs about KeyFiles, for any number of runs, side by side or not, and *)
(* whatever key files there are in the beginning.  That a run without a    *)
(* rival leaves a pair, and that only a rival's file is ever replaced, is  *)
(* not inductive: it rests on who can have made the files that a run under *)
(* way does not expect (RivalInv), on the files that there are at each     *)
(* system call of a run that is alone (PairFollowsPc), and on nobody       *)
(* getting far beside the files of the user (UserInv).                     *)
(***************************************************************************)
EXTENDS KeyFiles, TLAPS

\* Runs under way are rivals of each other, and so is whoever made a file
\* that another run, which has looked and not found it, comes upon.
RivalInv ==
  /\ \A q, r \in Runs : q \in rivals[r] <=> r \in rivals[q]
  /\ \A q, r \in Runs : Active(q) /\ Active(r) /\ q # r => q \in rivals[r]
  /\ \A r \in Runs : Active(r) /\ priv # None /\ priv.from \in Runs \ {r}
       => priv.from \in rivals[r]
  /\ \A r \in Runs :
       Active(r) /\ pc[r] # "statPub" /\ pub # None /\ pub.from \in Runs \ {r}
         => pub.from \in rivals[r]

\* A run that has not begun has made nothing and met nobody.
FreshInv ==
  \A r \in Runs : pc[r] = "statPriv" =>
    /\ rivals[r] = {}
    /\ priv # None => priv.from # r
    /\ pub # None => pub.from # r

\* Which files there are at each system call of a run without a rival.
PairFollowsPc ==
  \A r \in Runs : rivals[r] = {} =>
    /\ pc[r] = "statPub" => priv = None
    /\ pc[r] = "openPriv" => priv = None /\ pub = None
    /\ pc[r] = "writePriv" => priv = Part(r) /\ pub = None
    /\ pc[r] = "openPub" => priv = Whole(r) /\ pub = None
    /\ pc[r] = "writePub" => priv = Whole(r) /\ pub = Part(r)

\* Beside a file of the user no run gets beyond looking.
UserInv ==
  /\ priv # None /\ priv.from = User => \A r \in Runs : ~ Active(r)
  /\ pub # None /\ pub.from = User =>
       \A r \in Runs : pc[r] \in {"statPriv", "statPub", "ended"}

PairInv ==
  /\ KeyTypeOK
  /\ RivalInv
  /\ FreshInv
  /\ PairFollowsPc
  /\ UserInv
  /\ PublicHasPrivate

\* A key is never mistaken for no file, nor a part of it for the whole.
LEMMA Keys ==
  \A r \in Runs \cup {User} :
    /\ Part(r) \in Key /\ Whole(r) \in Key
    /\ Part(r) # None /\ Whole(r) # None
    /\ Part(r).from = r /\ Whole(r).from = r
    /\ \A q \in Runs \cup {User} : Part(r) # Whole(q) /\ (Whole(r) = Whole(q) => r = q)
<1> TAKE r \in Runs \cup {User}
<1>1. Part(r) \in Key /\ Whole(r) \in Key
  BY DEF Part, Whole, Key
<1>2. Part(r) # None /\ Whole(r) # None
  BY <1>1, NoneAssumption
<1>3. Part(r).from = r /\ Whole(r).from = r
  BY DEF Part, Whole
<1>4. \A q \in Runs \cup {User} : Part(r) # Whole(q) /\ (Whole(r) = Whole(q) => r = q)
  BY DEF Part, Whole
<1>5. QED
  BY <1>1, <1>2, <1>3, <1>4

\* Nothing but files of the user is there in the beginning.
LEMMA InitPairInv == Init => PairInv
<1> SUFFICES ASSUME Init PROVE PairInv
  OBVIOUS
<1>1. /\ \A r \in Runs : pc[r] = "statPriv" /\ ~ Active(r) /\ rivals[r] = {}
      /\ priv # None => priv = Whole(User)
      /\ pub # None => pub = Whole(User)
  BY DEF Init, Active
<1>2. KeyTypeOK
  BY Keys DEF Init, KeyTypeOK, Labels
<1>3. RivalInv /\ PairFollowsPc /\ UserInv
  BY <1>1 DEF RivalInv, PairFollowsPc, UserInv
<1>4. FreshInv /\ PublicHasPrivate
  BY <1>1, Keys, UserAssumption DEF FreshInv, PublicHasPrivate, Init
<1>5. QED
  BY <1>2, <1>3, <1>4 DEF PairInv

\* What a run does that gets under way.
LEMMA Met ==
  ASSUME KeyTypeOK, NEW r \in Runs, Meet(r), rivals[r] = {}, ~ Active(r)
  PROVE  /\ rivals' \in [Runs -> SUBSET Runs]
         /\ \A q \in Runs : Active(q) => q \in rivals'[r] /\ r \in rivals'[q]
         /\ \A q \in Runs : ~ Active(q) /\ q # r => q \notin rivals'[r] /\ rivals'[q] = rivals[q]
         /\ \A q \in Runs : rivals[q] \subseteq rivals'[q]
         /\ r \notin rivals'[r]
         /\ \A p, q \in Runs \ {r} : p \in rivals'[q] <=> p \in rivals[q]
BY DEF Meet, KeyTypeOK

\* A run gets under way: it has found no private key.
LEMMA BeginKeeps ==
  ASSUME PairInv, NEW r \in Runs, StatPriv(r)
  PROVE  PairInv'
<1>1. KeyTypeOK /\ RivalInv /\ FreshInv /\ PairFollowsPc /\ UserInv /\ PublicHasPrivate
  BY DEF PairInv
<1>2. priv' = priv /\ pub' = pub /\ pc[r] = "statPriv"
  BY DEF StatPriv
<1>3. CASE priv # None /\ End(r, "refused") /\ UNCHANGED rivals
  <2>1. \A q \in Runs : Active(q)' <=> Active(q)
    BY <1>1, <1>2, <1>3 DEF End, Active, KeyTypeOK
  <2>2. \A q \in Runs \ {r} : pc'[q] = pc[q] /\ told'[q] = told[q]
    BY <1>1, <1>3 DEF End, KeyTypeOK
  <2>3. pc'[r] = "ended" /\ told'[r] = "refused"
    BY <1>1, <1>3 DEF End, KeyTypeOK
  <2>4. KeyTypeOK'
    BY <1>1, <1>2, <1>3 DEF End, KeyTypeOK, Labels
  <2>5. RivalInv' /\ FreshInv'
    BY <1>1, <1>2, <1>3, <2>1, <2>2, <2>3 DEF RivalInv, FreshInv, Active
  <2>6. PairFollowsPc' /\ UserInv'
    BY <1>1, <1>2, <1>3, <2>1, <2>2, <2>3 DEF PairFollowsPc, UserInv
  <2>7. PublicHasPrivate'
    BY <1>1, <1>2, <1>3, <2>2, <2>3 DEF PublicHasPrivate
  <2>8. QED
    BY <2>4, <2>5, <2>6, <2>7 DEF PairInv
<1>4. CASE priv = None /\ Goto(r, "statPub") /\ Meet(r)
  <2>1. /\ rivals[r] = {} /\ ~ Active(r)
        /\ pub # None => pub.from # r
    BY <1>1, <1>2 DEF FreshInv, Active
  <2>2. /\ pc'[r] = "statPub" /\ told' = told
        /\ \A q \in Runs \ {r} : pc'[q] = pc[q]
    BY <1>1, <1>4 DEF Goto, KeyTypeOK
  <2>3. /\ rivals' \in [Runs -> SUBSET Runs]
        /\ \A q \in Runs : Active(q) => q \in rivals'[r] /\ r \in rivals'[q]
        /\ \A q \in Runs : ~ Active(q) /\ q # r => q \notin rivals'[r] /\ rivals'[q] = rivals[q]
        /\ \A q \in Runs : rivals[q] \subseteq rivals'[q]
        /\ r \notin rivals'[r]
        /\ \A p, q \in Runs \ {r} : p \in rivals'[q] <=> p \in rivals[q]
    BY <1>1, <1>4, <2>1, Met
  <2>4. KeyTypeOK'
    BY <1>1, <1>2, <1>4, <2>3 DEF Goto, KeyTypeOK, Labels
  <2>5. \A q \in Runs : Active(q)' <=> Active(q) \/ q = r
    BY <2>2 DEF Active
  <2>6. RivalInv'
    <3>1. \A p, q \in Runs : p \in rivals'[q] <=> q \in rivals'[p]
      <4> SUFFICES ASSUME NEW p \in Runs, NEW q \in Runs, p \in rivals'[q]
                   PROVE  q \in rivals'[p]
        OBVIOUS
      <4>1. CASE p # r /\ q # r
        BY <1>1, <2>3, <4>1 DEF RivalInv
      <4>2. CASE p = r /\ q # r
        <5>1. CASE Active(q)
          BY <2>3, <4>2, <5>1
        <5>2. CASE ~ Active(q)
          <6>1. r \in rivals[q]
            BY <2>3, <4>2, <5>2
          <6>2. QED
            BY <1>1, <2>1, <6>1 DEF RivalInv
        <5>3. QED
          BY <5>1, <5>2
      <4>3. CASE q = r
        BY <2>3, <4>3
      <4>4. QED
        BY <4>1, <4>2, <4>3
    <3>2. \A p, q \in Runs : Active(p)' /\ Active(q)' /\ p # q => p \in rivals'[q]
      BY <1>1, <2>3, <2>5 DEF RivalInv
    <3>3. \A q \in Runs :
            Active(q)' /\ pc'[q] # "statPub" /\ pub' # None /\ pub'.from \in Runs \ {q}
              => pub'.from \in rivals'[q]
      BY <1>1, <1>2, <2>2, <2>3, <2>5 DEF RivalInv
    <3>4. QED
      BY <1>2, <1>4, <3>1, <3>2, <3>3 DEF RivalInv
  <2>7. FreshInv'
    BY <1>1, <1>2, <2>2, <2>3 DEF FreshInv, Active
  <2>8. PairFollowsPc'
    BY <1>1, <1>2, <1>4, <2>2, <2>3 DEF PairFollowsPc
  <2>9. UserInv'
    BY <1>1, <1>2, <1>4, <2>2 DEF UserInv
  <2>10. PublicHasPrivate'
    <3>1. \A q \in Runs : rivals'[q] = {} => rivals[q] = {}
      BY <2>3
    <3>2. QED
      BY <1>1, <1>2, <2>2, <3>1 DEF PublicHasPrivate
  <2>11. QED
    BY <2>4, <2>6, <2>7, <2>8, <2>9, <2>10 DEF PairInv
<1>5. QED
  BY <1>3, <1>4 DEF StatPriv

\* A run that is under way moves on, with the files as they are or with one of
\* them its own.
Moves(r) ==
  /\ Active(r)
  /\ rivals' = rivals
  /\ \E label \in Labels \ {"statPriv"}, how \in {"nothing", "ok", "refused", "error", "crashed"} :
       /\ pc' = [pc EXCEPT ![r] = label]
       /\ told' = [told EXCEPT ![r] = how]
       /\ label = "ended" <=> how # "nothing"
  /\ priv' \in {priv, Part(r), Whole(r)}
  /\ pub' \in {pub, Part(r), Whole(r)}
  /\ pc[r] = "statPub" => priv' = priv /\ pub' = pub
  /\ pc'[r] = "statPub" => FALSE
  /\ pc[r] = "statPub" /\ pc'[r] # "ended" => pub = None

\* Such a step keeps who is whose rival, who is fresh, and what the user has.
LEMMA MoveKeeps ==
  ASSUME PairInv, NEW r \in Runs, Moves(r)
  PROVE  /\ KeyTypeOK' /\ RivalInv' /\ FreshInv' /\ UserInv'
         /\ \A q \in Runs \ {r} : pc'[q] = pc[q] /\ told'[q] = told[q]
         /\ \A q \in Runs \ {r} : rivals[q] = {} => ~ Active(q)
<1>1. KeyTypeOK /\ RivalInv /\ FreshInv /\ UserInv
  BY DEF PairInv
<1>2. /\ rivals' = rivals /\ Active(r)
      /\ \A q \in Runs \ {r} : pc'[q] = pc[q] /\ told'[q] = told[q]
      /\ pc'[r] # "statPriv" /\ pc'[r] # "statPub"
      /\ pc[r] = "statPub" /\ pc'[r] # "ended" => pub = None
      /\ pc[r] = "statPub" => priv' = priv /\ pub' = pub
  BY <1>1 DEF Moves, KeyTypeOK
<1>3. /\ priv' = priv \/ (priv' # None /\ priv'.from = r)
      /\ pub' = pub \/ (pub' # None /\ pub'.from = r)
  BY Keys DEF Moves
<1>4. \A q \in Runs : Active(q)' => Active(q)
  BY <1>2 DEF Active
<1>5. KeyTypeOK'
  <2>1. priv' \in Key \cup {None} /\ pub' \in Key \cup {None}
    BY <1>1, Keys DEF Moves, KeyTypeOK
  <2>2. QED
    BY <1>1, <2>1 DEF Moves, KeyTypeOK
<1>6. \A q \in Runs \ {r} : Active(q) => r \in rivals[q]
  BY <1>1, <1>2 DEF RivalInv
<1>7. RivalInv'
  <2>1. \A p, q \in Runs : p \in rivals'[q] <=> q \in rivals'[p]
    BY <1>1, <1>2 DEF RivalInv
  <2>2. \A p, q \in Runs : Active(p)' /\ Active(q)' /\ p # q => p \in rivals'[q]
    BY <1>1, <1>2, <1>4 DEF RivalInv
  <2>3. \A q \in Runs : Active(q)' /\ priv' # None /\ priv'.from \in Runs \ {q}
          => priv'.from \in rivals'[q]
    BY <1>1, <1>2, <1>3, <1>4, <1>6 DEF RivalInv
  <2>4. ASSUME NEW q \in Runs, Active(q)', pc'[q] # "statPub", pub' # None,
               pub'.from \in Runs \ {q}
        PROVE  pub'.from \in rivals'[q]
    <3>1. CASE pub'.from = r
      BY <1>2, <1>4, <1>6, <2>4, <3>1
    <3>2. CASE pub'.from # r
      <4>1. pub' = pub /\ pc[q] # "statPub"
        BY <1>2, <1>3, <2>4, <3>2 DEF Active
      <4>2. QED
        BY <1>1, <1>2, <1>4, <2>4, <4>1 DEF RivalInv
    <3>3. QED
      BY <3>1, <3>2
  <2>5. QED
    BY <2>1, <2>2, <2>3, <2>4 DEF RivalInv
<1>8. FreshInv'
  BY <1>1, <1>2, <1>3 DEF FreshInv
<1>9. UserInv'
  <2>1. r # User
    BY UserAssumption
  <2>2. CASE priv' # None /\ priv'.from = User
    BY <1>1, <1>2, <1>3, <2>1, <2>2 DEF UserInv
  <2>3. CASE pub' # None /\ pub'.from = User
    <3>1. pub' = pub
      BY <1>3, <2>1, <2>3
    <3>2. \A q \in Runs : pc[q] \in {"statPriv", "statPub", "ended"}
      BY <1>1, <2>3, <3>1 DEF UserInv
    <3>3. pc[r] = "statPub" /\ pc'[r] = "ended"
      BY <1>2, <2>3, <3>1, <3>2 DEF Active
    <3>4. \A q \in Runs : pc'[q] \in {"statPriv", "statPub", "ended"}
      BY <1>2, <3>2, <3>3
    <3>5. priv' = priv /\ (priv # None => priv.from # User)
      BY <1>1, <1>2, <3>3 DEF UserInv
    <3>6. QED
      BY <3>4, <3>5 DEF UserInv
  <2>4. QED
    BY <2>2, <2>3 DEF UserInv
<1>10. QED
  BY <1>2, <1>5, <1>6, <1>7, <1>8, <1>9

\* All system calls but the first are such steps, and what they make of the
\* two files of a run without a rival is a pair, the private key first.
LEMMA MovesAre ==
  ASSUME PairInv, NEW r \in Runs,
         StatPub(r) \/ OpenPriv(r) \/ WritePriv(r) \/ OpenPub(r) \/ WritePub(r) \/ Crash(r)
  PROVE  /\ Moves(r)
         /\ rivals[r] = {} =>
              /\ pc'[r] = "openPriv" => priv' = None /\ pub' = None
              /\ pc'[r] = "writePriv" => priv' = Part(r) /\ pub' = None
              /\ pc'[r] = "openPub" => priv' = Whole(r) /\ pub' = None
              /\ pc'[r] = "writePub" => priv' = Whole(r) /\ pub' = Part(r)
              /\ told'[r] = "ok" => priv' = Whole(r) /\ pub' = Whole(r)
              /\ pub' # pub => priv' = Whole(r)
              /\ priv' # priv => pub' = None
<1> USE DEF Moves, Active, Labels, Goto, End
<1>1. KeyTypeOK /\ PairFollowsPc
  BY DEF PairInv
<1>2. CASE StatPub(r)
  BY <1>1, <1>2 DEF StatPub, KeyTypeOK, PairFollowsPc
<1>3. CASE OpenPriv(r)
  BY <1>1, <1>3 DEF OpenPriv, KeyTypeOK, PairFollowsPc
<1>4. CASE WritePriv(r)
  BY <1>1, <1>4 DEF WritePriv, KeyTypeOK, PairFollowsPc
<1>5. CASE OpenPub(r)
  BY <1>1, <1>5 DEF OpenPub, KeyTypeOK, PairFollowsPc
<1>6. CASE WritePub(r)
  BY <1>1, <1>6 DEF WritePub, KeyTypeOK, PairFollowsPc
<1>7. CASE Crash(r)
  BY <1>1, <1>7 DEF Crash, KeyTypeOK, PairFollowsPc
<1>8. QED
  BY <1>2, <1>3, <1>4, <1>5, <1>6, <1>7

\* So they keep the whole of the invariant.
LEMMA MovePairs ==
  ASSUME PairInv, NEW r \in Runs,
         StatPub(r) \/ OpenPriv(r) \/ WritePriv(r) \/ OpenPub(r) \/ WritePub(r) \/ Crash(r)
  PROVE  PairInv'
<1>1. Moves(r)
  BY MovesAre
<1>2. /\ KeyTypeOK' /\ RivalInv' /\ FreshInv' /\ UserInv'
      /\ \A q \in Runs \ {r} : pc'[q] = pc[q] /\ told'[q] = told[q]
      /\ \A q \in Runs \ {r} : rivals[q] = {} => ~ Active(q)
  BY <1>1, MoveKeeps
<1>3. rivals[r] = {} =>
        /\ pc'[r] = "openPriv" => priv' = None /\ pub' = None
        /\ pc'[r] = "writePriv" => priv' = Part(r) /\ pub' = None
        /\ pc'[r] = "openPub" => priv' = Whole(r) /\ pub' = None
        /\ pc'[r] = "writePub" => priv' = Whole(r) /\ pub' = Part(r)
        /\ told'[r] = "ok" => priv' = Whole(r) /\ pub' = Whole(r)
        /\ pub' # pub => priv' = Whole(r)
        /\ priv' # priv => pub' = None
  BY MovesAre
<1>4. rivals' = rivals /\ Active(r) /\ pc'[r] # "statPub"
  BY <1>1 DEF Moves
<1>5. /\ priv' = priv \/ (priv' # None /\ priv'.from = r)
      /\ pub' = pub \/ (pub' # None /\ pub'.from = r)
  BY <1>1, Keys DEF Moves
<1>6. KeyTypeOK /\ RivalInv /\ PublicHasPrivate
  BY DEF PairInv
<1>7. PairFollowsPc'
  BY <1>2, <1>3, <1>4 DEF PairFollowsPc, Active
\* A pair that another run made alone is not touched: the run would be its rival.
<1>8. ASSUME NEW q \in Runs \ {r}, rivals[q] = {}, priv = Whole(q)
      PROVE  FALSE
  <2>1. priv # None /\ priv.from = q
    BY <1>8, Keys
  <2>2. q \in rivals[r]
    BY <1>4, <1>6, <2>1 DEF RivalInv
  <2>3. QED
    BY <1>6, <1>8, <2>2 DEF RivalInv
<1>9. PublicHasPrivate'
  <2>1. ASSUME pub' # None, pub'.from \in Runs, rivals'[pub'.from] = {}
        PROVE  priv' = Whole(pub'.from)
    <3>1. CASE pub'.from = r
      <4>1. CASE pub' # pub
        BY <1>3, <1>4, <2>1, <3>1, <4>1
      <4>2. CASE pub' = pub
        <5>1. priv = Whole(r)
          BY <1>4, <1>6, <2>1, <3>1, <4>2 DEF PublicHasPrivate
        <5>2. priv' = priv
          BY <1>3, <1>4, <2>1, <3>1
        <5>3. QED
          BY <3>1, <5>1, <5>2
      <4>3. QED
        BY <4>1, <4>2
    <3>2. CASE pub'.from # r
      <4>1. pub' = pub
        BY <1>5, <3>2
      <4>2. priv = Whole(pub.from)
        BY <1>4, <1>6, <2>1, <4>1 DEF PublicHasPrivate
      <4>3. QED
        BY <1>4, <1>8, <2>1, <3>2, <4>1, <4>2
    <3>3. QED
      BY <3>1, <3>2
  <2>2. ASSUME NEW q \in Runs, told'[q] = "ok", rivals'[q] = {}
        PROVE  priv' = Whole(q) /\ pub' = Whole(q)
    <3>1. CASE q = r
      BY <1>3, <1>4, <2>2, <3>1
    <3>2. CASE q # r
      <4>1. priv = Whole(q)
        BY <1>2, <1>4, <1>6, <2>2, <3>2 DEF PublicHasPrivate
      <4>2. QED
        BY <1>4, <1>8, <2>2, <3>2, <4>1
    <3>3. QED
      BY <3>1, <3>2
  <2>3. QED
    BY <2>1, <2>2 DEF PublicHasPrivate
<1>10. QED
  BY <1>2, <1>7, <1>9 DEF PairInv

\* Every system call keeps the invariant.
LEMMA StepPairInv == PairInv /\ [Next]_vars => PairInv'
<1> SUFFICES ASSUME PairInv, [Next]_vars PROVE PairInv'
  OBVIOUS
<1>1. CASE UNCHANGED vars
  BY <1>1 DEF vars, PairInv, KeyTypeOK, RivalInv, FreshInv, PairFollowsPc, UserInv,
              PublicHasPrivate, Active
<1>2. CASE \E r \in Runs : StatPriv(r)
  BY <1>2, BeginKeeps
<1>3. CASE \E r \in Runs : StatPub(r) \/ OpenPriv(r) \/ WritePriv(r) \/ OpenPub(r)
                             \/ WritePub(r) \/ Crash(r)
  BY <1>3, MovePairs
<1>4. QED
  BY <1>1, <1>2, <1>3 DEF Next

\* None replaces a file that was there before the run, or that it has not
\* been raced for.
LEMMA StepKeeps ==
  ASSUME PairInv, [Next]_vars
  PROVE  Keeps(priv, priv') /\ Keeps(pub, pub')
<1>1. KeyTypeOK /\ RivalInv /\ UserInv
  BY DEF PairInv
<1>2. CASE priv' = priv /\ pub' = pub
  BY <1>2 DEF Keeps
<1>3. ASSUME NEW r \in Runs, Moves(r)
      PROVE  Keeps(priv, priv') /\ Keeps(pub, pub')
  <2>1. /\ Active(r)
        /\ priv' = priv \/ (priv' # None /\ priv'.from = r)
        /\ pub' = pub \/ (pub' # None /\ pub'.from = r /\ pc[r] # "statPub")
    BY <1>3, Keys DEF Moves
  <2>2. /\ priv # None => priv.from \in Runs \cup {User}
        /\ pub # None => pub.from \in Runs \cup {User}
    BY <1>1 DEF KeyTypeOK, Key
  <2>3. Keeps(priv, priv')
    <3>1. CASE priv # None /\ priv.from = User
      BY <1>1, <2>1, <3>1 DEF UserInv
    <3>2. CASE priv # None /\ priv.from \in Runs
      BY <1>1, <2>1, <3>2 DEF RivalInv, Keeps
    <3>3. QED
      BY <2>2, <3>1, <3>2 DEF Keeps
  <2>4. Keeps(pub, pub')
    <3>1. CASE pub' = pub
      BY <3>1 DEF Keeps
    <3>2. CASE pub' # pub /\ pub # None /\ pub.from = User
      <4>1. pc[r] \in {"statPriv", "statPub", "ended"}
        BY <1>1, <3>2 DEF UserInv
      <4>2. QED
        BY <2>1, <3>2, <4>1 DEF Active
    <3>3. CASE pub' # pub /\ pub # None /\ pub.from \in Runs
      BY <1>1, <2>1, <3>3 DEF RivalInv, Keeps
    <3>4. QED
      BY <2>2, <3>1, <3>2, <3>3 DEF Keeps
  <2>5. QED
    BY <2>3, <2>4
<1>4. (priv' = priv /\ pub' = pub) \/ \E r \in Runs : Moves(r)
  BY MovesAre DEF Next, StatPriv, vars
<1>5. QED
  BY <1>2, <1>3, <1>4

\* The inductive invariant of key generation.
LEMMA PairInvariant == Spec => []PairInv
BY InitPairInv, StepPairInv, PTL DEF Spec

\* A public key file made by a run that had no rival always has the complete
\* private key of its pair beside it (the order of the two os.WriteFile calls
\* of GenerateKeyPair), whatever fails in between and whoever runs before or
\* after, and success means that both files are those of the run.
THEOREM PublicKeysAreUsable == Spec => []PublicHasPrivate
<1>1. PairInv => PublicHasPrivate
  BY DEF PairInv
<1>2. QED
  BY <1>1, PairInvariant, PTL

\* The two os.Stat checks of GenerateKeyPair keep any run from replacing a key
\* file that was there when it began, be it the user's, an earlier run's, or a
\* public key alone.  What can be replaced is a file made in a race: after the
\* run had looked, by one that was under way with it.
THEOREM KeysAreKept == Spec => NoClobber
<1>1. PairInv /\ [Next]_vars => [Keeps(priv, priv') /\ Keeps(pub, pub')]_vars
  BY StepKeeps
<1>2. QED
  BY <1>1, PairInvariant, PTL DEF Spec, NoClobber

\* The state stays well formed, and a run has ended exactly if it has reported
\* how.
THEOREM KeysStayWellFormed == Spec => []KeyTypeOK
<1>1. PairInv => KeyTypeOK
  BY DEF PairInv
<1>2. QED
  BY <1>1, PairInvariant, PTL

=============================================================================
