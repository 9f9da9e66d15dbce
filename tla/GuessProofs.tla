----------------------------- MODULE GuessProofs -----------------------------
(***************************************************************************)
(* How many wrong codes one row of email_otps answers, for any number of   *)
(* concurrent requests and any limit.                                      *)
(*                                                                         *)
(* A request that is to count a failure can set the attempts column back   *)
(* to what it read plus one, so the column alone measures nothing.  What   *)
(* does is the vector of counts "so many of the slots are worth at most    *)
(* v": no step raises it in lexicographic order, every wrong answer lowers *)
(* it, and there are no more such vectors than choices of m out of m + k.  *)
(***************************************************************************)
EXTENDS OtpProofs, FunctionTheorems, WellFoundedInduction

Levels == 0 .. MaxVerifyAttempts - 1

(* The attempts a slot can make the row have next, less one: of what it    *)
(* has read and what it would read now, the smaller.                       *)
Worth(r, o) ==
  IF /\ req[r].pc = "count_failure"
     /\ req[r].otp = o
     /\ req[r].attempts < otp[o].attempts
  THEN req[r].attempts
  ELSE otp[o].attempts

(* How many slots are worth at most v.                                     *)
Counts(W) ==
  [v \in Levels |-> Cardinality({r \in Requests : W[r] <= v})]

Profile(o) == Counts([r \in Requests |-> Worth(r, o)])

(* The vectors a profile can be.                                           *)
Ladders ==
  {g \in [Levels -> 0 .. Cardinality(Requests)] :
     \A v, w \in Levels : v <= w => g[v] <= g[w]}

(* Lexicographic order.                                                    *)
Below(f, g) ==
  \E v \in Levels : f[v] < g[v] /\ \A w \in Levels : w < v => f[w] = g[w]

Passed(f) == {g \in Ladders : Below(f, g)}

GuessInv == \A o \in OtpIds : fails[o] <= Cardinality(Passed(Profile(o)))

-----------------------------------------------------------------------------
(* Ladders and their order.                                                *)

LEMMA LeastOf ==
  ASSUME NEW T \in SUBSET Nat, T # {}
  PROVE  \E x \in T : \A y \in T : x <= y
<1> DEFINE R == {ss \in Nat \X Nat : ss[1] < ss[2]}
<1>1. IsWellFoundedOn(R, Nat)
  BY NatLessThanWellFounded DEF OpToRel
<1>2. \A x, y \in Nat : y < x => <<y, x>> \in R
  OBVIOUS
<1> HIDE DEF R
<1>3. PICK x \in T : \A y \in T : ~(<<y, x>> \in R)
  BY <1>1, WFMin
<1>4. ASSUME NEW y \in T PROVE x <= y
  <2>1. x \in Nat /\ y \in Nat
    OBVIOUS
  <2>2. ~(y < x)
    BY <1>2, <1>3, <2>1
  <2> QED
    BY <2>1, <2>2
<1> QED
  BY <1>4

LEMMA LevelsAre == Levels \subseteq Nat /\ IsFiniteSet(Levels)
                   /\ Cardinality(Levels) = MaxVerifyAttempts
BY FS_Interval, SettingsOK DEF Levels

LEMMA BelowTransitive ==
  ASSUME NEW f \in Ladders, NEW g \in Ladders, NEW h \in Ladders,
         Below(f, g), Below(g, h)
  PROVE  Below(f, h)
<1>0. /\ \A v \in Levels : f[v] \in Nat /\ g[v] \in Nat /\ h[v] \in Nat
      /\ Levels \subseteq Nat
  BY RequestsFinite, FS_CardinalityType, LevelsAre DEF Ladders
<1>1. PICK a \in Levels : f[a] < g[a] /\ \A w \in Levels : w < a => f[w] = g[w]
  BY DEF Below
<1>2. PICK b \in Levels : g[b] < h[b] /\ \A w \in Levels : w < b => g[w] = h[w]
  BY DEF Below
<1>3. CASE a <= b
  <2>1. f[a] < h[a]
    BY <1>0, <1>1, <1>2, <1>3
  <2>2. \A w \in Levels : w < a => f[w] = h[w]
    BY <1>0, <1>1, <1>2, <1>3
  <2> QED
    BY <2>1, <2>2 DEF Below
<1>4. CASE b < a
  <2>1. f[b] < h[b]
    BY <1>0, <1>1, <1>2, <1>4
  <2>2. \A w \in Levels : w < b => f[w] = h[w]
    BY <1>0, <1>1, <1>2, <1>4
  <2> QED
    BY <2>1, <2>2 DEF Below
<1> QED
  BY <1>0, <1>3, <1>4

LEMMA BelowIrreflexive ==
  ASSUME NEW f \in Ladders PROVE ~Below(f, f)
<1>1. \A v \in Levels : f[v] \in Nat
  BY RequestsFinite, FS_CardinalityType DEF Ladders
<1> QED
  BY <1>1 DEF Below

(* A vector that is nowhere greater is below whatever the other is below.  *)
LEMMA BelowPointwise ==
  ASSUME NEW f \in Ladders, NEW g \in Ladders, NEW h \in Ladders,
         \A v \in Levels : f[v] <= g[v], Below(g, h)
  PROVE  Below(f, h)
<1>0. /\ \A v \in Levels : f[v] \in Nat /\ g[v] \in Nat /\ h[v] \in Nat
      /\ Levels \subseteq Nat
  BY RequestsFinite, FS_CardinalityType, LevelsAre DEF Ladders
<1>1. PICK a \in Levels : g[a] < h[a] /\ \A w \in Levels : w < a => g[w] = h[w]
  BY DEF Below
<1> DEFINE T == {v \in Levels : f[v] < h[v]}
<1>2. T \in SUBSET Nat /\ T # {}
  <2>1. f[a] < h[a]
    BY <1>0, <1>1
  <2> QED
    BY <1>0, <2>1
<1>3. PICK x \in T : \A y \in T : x <= y
  BY <1>2, LeastOf
<1>4. x <= a
  BY <1>0, <1>1, <1>3
<1>5. ASSUME NEW w \in Levels, w < x PROVE f[w] = h[w]
  <2>1. ~(f[w] < h[w])
    BY <1>0, <1>3, <1>5
  <2>2. g[w] = h[w]
    BY <1>0, <1>1, <1>3, <1>4, <1>5
  <2> QED
    BY <1>0, <2>1, <2>2
<1> QED
  BY <1>3, <1>5 DEF Below

-----------------------------------------------------------------------------
(* There are no more ladders than choices: the steps of a ladder, each     *)
(* pushed up by one more than the one before, are a set of Choices, and    *)
(* different ladders give different sets.                                  *)

Foot(g, v) == g[v] + v + 1

Feet(g) == {Foot(g, v) : v \in Levels}

LEMMA FeetClimb ==
  ASSUME NEW g \in Ladders, NEW v \in Levels, NEW w \in Levels
  PROVE  /\ Foot(g, v) \in 1 .. MaxVerifyAttempts + Cardinality(Requests)
         /\ v < w => Foot(g, v) < Foot(g, w)
<1>1. Cardinality(Requests) \in Nat
  BY RequestsFinite, FS_CardinalityType
<1>2. /\ v \in Nat /\ w \in Nat /\ v < MaxVerifyAttempts
      /\ g[v] \in 0 .. Cardinality(Requests) /\ g[w] \in 0 .. Cardinality(Requests)
      /\ v <= w => g[v] <= g[w]
  BY SettingsOK DEF Levels, Ladders
<1> QED
  BY <1>1, <1>2, SettingsOK DEF Foot

LEMMA FeetChosen ==
  ASSUME NEW g \in Ladders
  PROVE  Feet(g) \in Choices
<1> DEFINE F == [v \in Levels |-> Foot(g, v)]
<1>1. F \in Surjection(Levels, Feet(g))
  BY DEF Surjection, Feet
<1>2. F \in Injection(Levels, Feet(g))
  <2>1. ASSUME NEW v \in Levels, NEW w \in Levels, v # w
        PROVE  F[v] # F[w]
    <3>1. v \in Nat /\ w \in Nat /\ Foot(g, v) \in Nat /\ Foot(g, w) \in Nat
      BY FeetClimb, LevelsAre, RequestsFinite, FS_CardinalityType, SettingsOK
    <3>2. Foot(g, v) < Foot(g, w) \/ Foot(g, w) < Foot(g, v)
      BY <2>1, <3>1, FeetClimb
    <3> QED
      BY <3>1, <3>2
  <2>2. F \in [Levels -> Feet(g)]
    BY DEF Feet
  <2> QED
    BY <2>1, <2>2, Fun_IsInj
<1>3. F \in Bijection(Levels, Feet(g))
  BY <1>1, <1>2 DEF Bijection
<1>4. Cardinality(Feet(g)) = MaxVerifyAttempts
  BY <1>3, LevelsAre, FS_Bijection DEF ExistsBijection
<1>5. Feet(g) \subseteq 1 .. MaxVerifyAttempts + Cardinality(Requests)
  BY FeetClimb DEF Feet
<1> QED
  BY <1>4, <1>5 DEF Choices

LEMMA FeetTell ==
  ASSUME NEW g \in Ladders, NEW h \in Ladders, NEW v \in Levels,
         g[v] < h[v], \A w \in Levels : w < v => g[w] = h[w]
  PROVE  Feet(g) # Feet(h)
<1>1. Foot(g, v) \in Feet(g)
  BY DEF Feet
<1>2. ASSUME NEW w \in Levels PROVE Foot(h, w) # Foot(g, v)
  <2>0. /\ v \in Nat /\ w \in Nat /\ g[v] \in Nat /\ h[v] \in Nat
        /\ Foot(h, v) \in Nat /\ Foot(h, w) \in Nat /\ Foot(g, v) \in Nat
    BY FeetClimb, RequestsFinite, FS_CardinalityType, LevelsAre DEF Ladders
  <2>1. CASE w < v
    <3>1. Foot(h, w) = Foot(g, w)
      BY <2>1 DEF Foot
    <3>2. Foot(g, w) < Foot(g, v)
      BY <2>1, FeetClimb
    <3> QED
      BY <2>0, <3>1, <3>2
  <2>2. CASE w >= v
    <3>1. Foot(h, v) <= Foot(h, w)
      BY <2>0, <2>2, FeetClimb
    <3>2. Foot(g, v) < Foot(h, v)
      BY <2>0 DEF Foot
    <3> QED
      BY <2>0, <3>1, <3>2
  <2> QED
    BY <2>0, <2>1, <2>2
<1>3. Foot(g, v) \notin Feet(h)
  BY <1>2 DEF Feet
<1> QED
  BY <1>1, <1>3

LEMMA ChoicesFinite == IsFiniteSet(Choices)
<1>1. IsFiniteSet(1 .. MaxVerifyAttempts + Cardinality(Requests))
  BY FS_Interval, RequestsFinite, FS_CardinalityType, SettingsOK
<1>2. IsFiniteSet(SUBSET (1 .. MaxVerifyAttempts + Cardinality(Requests)))
  BY <1>1, FS_SUBSET
<1>3. Choices \in SUBSET (SUBSET (1 .. MaxVerifyAttempts + Cardinality(Requests)))
  BY DEF Choices
<1> QED
  BY <1>2, <1>3, FS_Subset

LEMMA LaddersCounted ==
  IsFiniteSet(Ladders) /\ Cardinality(Ladders) <= Cardinality(Choices)
<1>1. IsFiniteSet(Choices)
  BY ChoicesFinite
<1> DEFINE F == [g \in Ladders |-> Feet(g)]
<1>2. F \in [Ladders -> Choices]
  BY FeetChosen
<1>3. ASSUME NEW g \in Ladders, NEW h \in Ladders, g # h
      PROVE  Feet(g) # Feet(h)
  <2> DEFINE T == {v \in Levels : g[v] # h[v]}
  <2>0. /\ \A v \in Levels : g[v] \in Nat /\ h[v] \in Nat
        /\ Levels \subseteq Nat
    BY RequestsFinite, FS_CardinalityType, LevelsAre DEF Ladders
  <2>1. T \in SUBSET Nat /\ T # {}
    <3>1. g = [v \in Levels |-> g[v]] /\ h = [v \in Levels |-> h[v]]
      BY DEF Ladders
    <3>2. \E v \in Levels : g[v] # h[v]
      BY <1>3, <3>1
    <3> QED
      BY <2>0, <3>2
  <2>2. PICK x \in T : \A y \in T : x <= y
    BY <2>1, LeastOf
  <2>3. \A w \in Levels : w < x => g[w] = h[w]
    BY <2>0, <2>2
  <2>4. g[x] < h[x] \/ h[x] < g[x]
    BY <2>0, <2>2
  <2> QED
    BY <2>2, <2>3, <2>4, FeetTell
<1>4. F \in Injection(Ladders, Choices)
  BY <1>2, <1>3, Fun_IsInj
<1> QED
  BY <1>1, <1>4, FS_Injection

-----------------------------------------------------------------------------
(* What is passed grows as profiles fall.                                  *)

LEMMA PassedCounted ==
  ASSUME NEW f \in Ladders
  PROVE  /\ IsFiniteSet(Passed(f))
         /\ Cardinality(Passed(f)) \in Nat
         /\ Cardinality(Passed(f)) < Cardinality(Ladders)
<1>1. Passed(f) \in SUBSET Ladders /\ f \notin Passed(f)
  BY BelowIrreflexive DEF Passed
<1>2. IsFiniteSet(Ladders) /\ Cardinality(Ladders) \in Nat
  BY LaddersCounted, FS_CardinalityType
<1>3. /\ IsFiniteSet(Passed(f))
      /\ Cardinality(Passed(f)) <= Cardinality(Ladders)
      /\ Cardinality(Ladders) # Cardinality(Passed(f))
  BY <1>1, <1>2, FS_Subset
<1>4. Cardinality(Passed(f)) \in Nat
  BY <1>3, FS_CardinalityType
<1> QED
  BY <1>2, <1>3, <1>4

LEMMA PassedKept ==
  ASSUME NEW f \in Ladders, NEW g \in Ladders, \A v \in Levels : f[v] <= g[v]
  PROVE  Cardinality(Passed(g)) <= Cardinality(Passed(f))
<1>1. Passed(g) \in SUBSET Passed(f)
  BY BelowPointwise DEF Passed
<1> QED
  BY <1>1, PassedCounted, FS_Subset

LEMMA PassedGrows ==
  ASSUME NEW f \in Ladders, NEW g \in Ladders, Below(f, g)
  PROVE  Cardinality(Passed(g)) + 1 <= Cardinality(Passed(f))
<1>1. Passed(g) \cup {g} \in SUBSET Passed(f)
  BY BelowTransitive DEF Passed
<1>2. g \notin Passed(g)
  BY BelowIrreflexive DEF Passed
<1>3. Cardinality(Passed(g) \cup {g}) = Cardinality(Passed(g)) + 1
  BY <1>2, PassedCounted, FS_AddElement
<1>4. Cardinality(Passed(g) \cup {g}) <= Cardinality(Passed(f))
  BY <1>1, PassedCounted, FS_Subset
<1> QED
  BY <1>3, <1>4

LEMMA AtMost ==
  ASSUME NEW W, NEW v \in Levels
  PROVE  /\ IsFiniteSet({r \in Requests : W[r] <= v})
         /\ Counts(W)[v] = Cardinality({r \in Requests : W[r] <= v})
         /\ Counts(W)[v] \in Nat
         /\ Counts(W)[v] <= Cardinality(Requests)
<1> DEFINE A == {r \in Requests : W[r] <= v}
<1>1. A \in SUBSET Requests
  OBVIOUS
<1>2. IsFiniteSet(A) /\ Cardinality(A) <= Cardinality(Requests)
  BY <1>1, RequestsFinite, FS_Subset
<1>3. Cardinality(A) \in Nat
  BY <1>2, FS_CardinalityType
<1>4. Counts(W)[v] = Cardinality(A)
  BY DEF Counts
<1> QED
  BY <1>2, <1>3, <1>4

(* Of two counts, the one over more slots is the greater.                  *)
LEMMA CountsCompared ==
  ASSUME NEW W, NEW V, NEW v \in Levels, NEW w \in Levels,
         \A r \in Requests : W[r] <= v => V[r] <= w
  PROVE  /\ Counts(W)[v] <= Counts(V)[w]
         /\ (\E r \in Requests : V[r] <= w /\ ~(W[r] <= v))
              => Counts(W)[v] < Counts(V)[w]
<1> DEFINE A == {r \in Requests : W[r] <= v}
           B == {r \in Requests : V[r] <= w}
<1>1. A \in SUBSET B
  OBVIOUS
<1>2. /\ IsFiniteSet(B) /\ Counts(W)[v] = Cardinality(A)
      /\ Counts(V)[w] = Cardinality(B)
      /\ Counts(W)[v] \in Nat /\ Counts(V)[w] \in Nat
  BY AtMost
<1>3. /\ Cardinality(A) <= Cardinality(B)
      /\ Cardinality(B) = Cardinality(A) => A = B
  BY <1>1, <1>2, FS_Subset
<1>4. (\E r \in Requests : V[r] <= w /\ ~(W[r] <= v)) => A # B
  OBVIOUS
<1> HIDE DEF A, B
<1> QED
  BY <1>2, <1>3, <1>4

LEMMA CountsLadder ==
  ASSUME NEW W \in [Requests -> Nat]
  PROVE  Counts(W) \in Ladders
<1>1. Counts(W) \in [Levels -> 0 .. Cardinality(Requests)]
  <2>1. Cardinality(Requests) \in Nat
    BY RequestsFinite, FS_CardinalityType
  <2>2. ASSUME NEW v \in Levels
        PROVE  Counts(W)[v] \in 0 .. Cardinality(Requests)
    <3>1. Counts(W)[v] \in Nat /\ Counts(W)[v] <= Cardinality(Requests)
      BY AtMost
    <3> QED
      BY <2>1, <3>1
  <2>3. Counts(W) = [v \in Levels |-> Counts(W)[v]]
    BY DEF Counts
  <2> QED
    BY <2>2, <2>3
<1>2. ASSUME NEW v \in Levels, NEW w \in Levels, v <= w
      PROVE  Counts(W)[v] <= Counts(W)[w]
  <2>1. \A r \in Requests : W[r] <= v => W[r] <= w
    BY <1>2, LevelsAre
  <2> QED
    BY <2>1, CountsCompared
<1> QED
  BY <1>1, <1>2 DEF Ladders

-----------------------------------------------------------------------------
(* Steps.                                                                  *)

LEMMA WorthType ==
  ASSUME TypeInv, NEW r \in Requests, NEW o \in OtpIds
  PROVE  /\ otp[o].attempts \in Nat /\ req[r].attempts \in Nat
         /\ Worth(r, o) \in Nat
         /\ Worth(r, o) <= otp[o].attempts
BY SettingsOK DEF TypeInv, TypeOK, Row, Slot, Worth

LEMMA ProfileType ==
  TypeInv => \A o \in OtpIds : /\ Profile(o) \in Ladders
                               /\ \A r \in Requests : Worth(r, o) \in Nat
<1> SUFFICES ASSUME TypeInv, NEW o \in OtpIds
             PROVE  /\ Profile(o) \in Ladders
                    /\ \A r \in Requests : Worth(r, o) \in Nat
  OBVIOUS
<1>1. \A r \in Requests : Worth(r, o) \in Nat
  BY WorthType
<1>2. [r \in Requests |-> Worth(r, o)] \in [Requests -> Nat]
  BY <1>1
<1> QED
  BY <1>1, <1>2, CountsLadder DEF Profile

(* Wrong answers apart, no step moves a row's counters.                    *)
LEMMA AttemptsKept ==
  ASSUME TypeInv, [Next]_vars, NEW o \in OtpIds,
         \A r \in Requests : ~(IncrementOtpAttempts(r) /\ req[r].otp = o)
  PROVE  otp'[o].attempts = otp[o].attempts /\ fails'[o] = fails[o]
<1>0. /\ otp \in [OtpIds -> Row] /\ otp[o] \in Row
      /\ fails \in [OtpIds -> Nat]
  BY DEF TypeInv, TypeOK
<1>1. ASSUME NEW r \in Requests, NEW i \in OtpIds, CreateEmailOtp(r, i)
      PROVE  otp'[o].attempts = otp[o].attempts /\ fails'[o] = fails[o]
  BY <1>0, <1>1 DEF CreateEmailOtp, NoRow, history
<1>2. ASSUME NEW r \in Requests, InvalidateCommit(r) \/ MarkOtpUsed(r)
      PROVE  otp'[o].attempts = otp[o].attempts /\ fails'[o] = fails[o]
  <2>1. otp'[o] \in {otp[o], [otp[o] EXCEPT !.used = TRUE]} /\ fails' = fails
    BY <1>0, <1>2 DEF InvalidateCommit, MarkOtpUsed, history
  <2> QED
    BY <1>0, <2>1 DEF Row
<1>3. ASSUME NEW r \in Requests, IncrementOtpAttempts(r)
      PROVE  otp'[o].attempts = otp[o].attempts /\ fails'[o] = fails[o]
  BY <1>0, <1>3 DEF IncrementOtpAttempts
<1>4. \/ otp' = otp
      \/ \E r \in Requests :
           \/ \E i \in OtpIds : CreateEmailOtp(r, i)
           \/ InvalidateCommit(r) \/ IncrementOtpAttempts(r) \/ MarkOtpUsed(r)
  BY DEF Next, Send, Verify, RegisterCreate, ForgotRead, ResendRead,
         StartSending, CountResends, InvalidateExecute, VerifyRead,
         VerifyRefuse, VerifyCompare, VerifyUserEmail, ReplyResetToken,
         ReplyTokenPair, Abort, SoftDeleteUser, Tick, vars, tables
<1>5. \/ fails' = fails
      \/ \E r \in Requests :
           \/ \E i \in OtpIds : CreateEmailOtp(r, i)
           \/ InvalidateCommit(r) \/ IncrementOtpAttempts(r) \/ MarkOtpUsed(r)
  BY DEF Next, Send, Verify, RegisterCreate, ForgotRead, ResendRead,
         StartSending, CountResends, InvalidateExecute, VerifyRead,
         VerifyRefuse, VerifyCompare, VerifyUserEmail, ReplyResetToken,
         ReplyTokenPair, Abort, SoftDeleteUser, Tick, vars, history
<1> QED
  BY <1>1, <1>2, <1>3, <1>4, <1>5

(* While the row keeps its counter no slot loses worth: what a request     *)
(* reads now is the counter itself.                                        *)
LEMMA WorthKept ==
  ASSUME TypeInv, [Next]_vars, NEW o \in OtpIds, NEW r \in Requests,
         otp'[o].attempts = otp[o].attempts
  PROVE  Worth(r, o) <= Worth(r, o)'
<1>0. /\ otp[o].attempts \in Nat /\ req[r].attempts \in Nat
      /\ Worth(r, o) \in Nat /\ Worth(r, o) <= otp[o].attempts
  BY WorthType
<1>1. CASE req'[r] = req[r]
  BY <1>0, <1>1 DEF Worth
<1>2. CASE req'[r].pc # "count_failure"
  BY <1>0, <1>2 DEF Worth
<1>3. ASSUME NEW i \in OtpIds, VerifyCompare(r, i, "count_failure")
      PROVE  Worth(r, o) <= Worth(r, o)'
  <2>1. req'[r].otp = i /\ req'[r].attempts = otp[i].attempts
    BY <1>3 DEF VerifyCompare, TypeInv, TypeOK, Slot
  <2>2. Worth(r, o)' = otp[o].attempts
    BY <1>0, <2>1 DEF Worth
  <2> QED
    BY <1>0, <2>2
<1>4. \/ req'[r] = req[r]
      \/ req'[r].pc # "count_failure"
      \/ \E i \in OtpIds : VerifyCompare(r, i, "count_failure")
  <2>1. ASSUME NEW u \in Users, RegisterCreate(r, u)
        PROVE  req'[r].pc # "count_failure"
    BY <2>1, IdleType DEF RegisterCreate, TypeInv, TypeOK, Slot
  <2> QED
    BY <2>1, Flow DEF Moves
<1> QED
  BY <1>1, <1>2, <1>3, <1>4

(* A wrong answer leaves no slot worth as little as its own request was,   *)
(* that one excepted which were already worth less or the same.            *)
LEMMA WorthCounted ==
  ASSUME TypeInv, NEW o \in OtpIds, NEW r \in Requests,
         IncrementOtpAttempts(r), req[r].otp = o
  PROVE  /\ Worth(r, o) \in Levels
         /\ Worth(r, o) < Worth(r, o)'
         /\ \A q \in Requests, w \in Levels :
              /\ w < Worth(r, o) => (Worth(q, o)' <= w <=> Worth(q, o) <= w)
              /\ w = Worth(r, o) => (Worth(q, o)' <= w => Worth(q, o) <= w)
<1>1. /\ req[r].pc = "count_failure" /\ req[r].attempts < MaxVerifyAttempts
      /\ MaxVerifyAttempts \in Nat
      /\ \A q \in Requests : req[q].attempts \in Nat
      /\ otp[o].attempts \in Nat
  BY WorthType, SettingsOK DEF IncrementOtpAttempts, TypeInv, TypeOK, SlotOK
<1>2. /\ otp'[o].attempts = req[r].attempts + 1
      /\ \A q \in Requests \ {r} : req'[q] = req[q]
      /\ req'[r].pc = "idle"
  <2>1. otp'[o].attempts = req[r].attempts + 1
    BY DEF IncrementOtpAttempts, TypeInv, TypeOK, Row
  <2> QED
    BY <2>1, IdleType DEF IncrementOtpAttempts, Finish, TypeInv, TypeOK
<1>3. /\ Worth(r, o) \in Nat
      /\ Worth(r, o) <= req[r].attempts /\ Worth(r, o) <= otp[o].attempts
  BY <1>1 DEF Worth
<1>4. Worth(r, o)' = req[r].attempts + 1
  BY <1>2 DEF Worth
<1>5. Worth(r, o) \in Levels
  BY <1>1, <1>3 DEF Levels
<1>6. ASSUME NEW q \in Requests, NEW w \in Levels
      PROVE  /\ w < Worth(r, o) => (Worth(q, o)' <= w <=> Worth(q, o) <= w)
             /\ w = Worth(r, o) => (Worth(q, o)' <= w => Worth(q, o) <= w)
  <2>0. w \in Nat
    BY LevelsAre
  <2>1. CASE q = r
    BY <1>1, <1>3, <1>4, <2>0, <2>1
  <2>2. CASE q # r
    <3>1. req'[q] = req[q]
      BY <1>2, <2>2
    <3>2. CASE req[q].pc = "count_failure" /\ req[q].otp = o
      <4>1. /\ Worth(q, o) = IF req[q].attempts < otp[o].attempts
                             THEN req[q].attempts ELSE otp[o].attempts
            /\ Worth(q, o)' = IF req[q].attempts < req[r].attempts + 1
                              THEN req[q].attempts ELSE req[r].attempts + 1
        BY <1>2, <3>1, <3>2 DEF Worth
      <4> QED
        BY <1>1, <1>3, <2>0, <4>1
    <3>3. CASE ~(req[q].pc = "count_failure" /\ req[q].otp = o)
      <4>1. Worth(q, o) = otp[o].attempts /\ Worth(q, o)' = req[r].attempts + 1
        BY <1>2, <3>1, <3>3 DEF Worth
      <4> QED
        BY <1>1, <1>3, <2>0, <4>1
    <3> QED
      BY <3>2, <3>3
  <2> QED
    BY <2>1, <2>2
<1> QED
  BY <1>1, <1>3, <1>4, <1>5, <1>6

LEMMA GuessInit == Init => GuessInv
<1> SUFFICES ASSUME Init, NEW o \in OtpIds
             PROVE  fails[o] <= Cardinality(Passed(Profile(o)))
  BY DEF GuessInv
<1>1. fails[o] = 0
  BY DEF Init
<1>2. Profile(o) \in Ladders
  BY TypeInvInit, ProfileType
<1>3. Cardinality(Passed(Profile(o))) \in Nat
  BY <1>2, PassedCounted
<1> QED
  BY <1>1, <1>3

LEMMA GuessStep == TypeInv /\ TypeInv' /\ GuessInv /\ [Next]_vars => GuessInv'
<1> SUFFICES ASSUME TypeInv, TypeInv', GuessInv, [Next]_vars, NEW o \in OtpIds
             PROVE  fails'[o] <= Cardinality(Passed(Profile(o)'))
  BY DEF GuessInv
<1> DEFINE W == [r \in Requests |-> Worth(r, o)]
           V == [r \in Requests |-> Worth(r, o)']
<1>1. /\ Profile(o) = Counts(W) /\ Profile(o)' = Counts(V)
      /\ \A r \in Requests : W[r] = Worth(r, o) /\ V[r] = Worth(r, o)'
  BY DEF Profile
<1>2. \A r \in Requests : Worth(r, o) \in Nat /\ Worth(r, o)' \in Nat
  <2>1. \A r \in Requests : Worth(r, o) \in Nat
    BY WorthType
  <2>2. \A r \in Requests : Worth(r, o)' \in Nat
    BY SettingsOK DEF TypeInv, TypeOK, Row, Slot, Worth
  <2> QED
    BY <2>1, <2>2
<1>3. W \in [Requests -> Nat] /\ V \in [Requests -> Nat]
  BY <1>2
<1> HIDE DEF W, V
<1>4. Counts(W) \in Ladders /\ Counts(V) \in Ladders
  BY <1>3, CountsLadder
<1>5. /\ fails[o] <= Cardinality(Passed(Counts(W)))
      /\ fails[o] \in Nat
      /\ Cardinality(Passed(Counts(W))) \in Nat
      /\ Cardinality(Passed(Counts(V))) \in Nat
  BY <1>1, <1>4, PassedCounted DEF GuessInv, TypeInv, TypeOK
<1>6. CASE \A r \in Requests : ~(IncrementOtpAttempts(r) /\ req[r].otp = o)
  <2>1. otp'[o].attempts = otp[o].attempts /\ fails'[o] = fails[o]
    BY <1>6, AttemptsKept
  <2>2. \A r \in Requests : W[r] <= V[r]
    BY <1>1, <2>1, WorthKept
  <2>3. ASSUME NEW v \in Levels PROVE Counts(V)[v] <= Counts(W)[v]
    <3>1. \A r \in Requests : V[r] <= v => W[r] <= v
      BY <1>3, <2>2, LevelsAre
    <3> QED
      BY <3>1, CountsCompared
  <2>4. Cardinality(Passed(Counts(W))) <= Cardinality(Passed(Counts(V)))
    BY <1>4, <2>3, PassedKept
  <2> QED
    BY <1>1, <1>5, <2>1, <2>4
<1>7. ASSUME NEW r \in Requests, IncrementOtpAttempts(r), req[r].otp = o
      PROVE  fails'[o] <= Cardinality(Passed(Profile(o)'))
  <2> DEFINE x == Worth(r, o)
  <2>1. /\ x \in Levels /\ W[r] <= x /\ ~(V[r] <= x)
        /\ \A q \in Requests, w \in Levels :
             /\ w < x => (V[q] <= w <=> W[q] <= w)
             /\ w = x => (V[q] <= w => W[q] <= w)
    BY <1>1, <1>2, <1>7, WorthCounted
  <2> HIDE DEF x
  <2>2. ASSUME NEW w \in Levels, w < x PROVE Counts(V)[w] = Counts(W)[w]
    <3>1. Counts(V)[w] <= Counts(W)[w] /\ Counts(W)[w] <= Counts(V)[w]
      BY <2>1, <2>2, CountsCompared
    <3>2. Counts(V)[w] \in Nat /\ Counts(W)[w] \in Nat
      BY AtMost
    <3> QED
      BY <3>1, <3>2
  <2>3. Counts(V)[x] < Counts(W)[x]
    BY <2>1, CountsCompared
  <2>4. Below(Counts(V), Counts(W))
    BY <2>1, <2>2, <2>3 DEF Below
  <2>5. Cardinality(Passed(Counts(W))) + 1 <= Cardinality(Passed(Counts(V)))
    BY <1>4, <2>4, PassedGrows
  <2>6. fails'[o] = fails[o] + 1
    BY <1>7 DEF IncrementOtpAttempts, TypeInv, TypeOK
  <2> QED
    BY <1>1, <1>5, <2>5, <2>6
<1> QED
  BY <1>6, <1>7

(***************************************************************************)
(* A row answers fewer wrong codes than there are ways to choose the limit *)
(* out of the limit and the number of slots, however its requests write    *)
(* the counter back over one another.                                      *)
(***************************************************************************)
THEOREM Guesses == Spec => []GuessBudget
<1>1. Spec => []TypeInv
  BY TypeInvInit, TypeInvStep, PTL DEF Spec
<1>2. Spec => []GuessInv
  BY <1>1, GuessInit, GuessStep, PTL DEF Spec
<1>3. TypeInv /\ GuessInv => GuessBudget
  <2> SUFFICES ASSUME TypeInv, GuessInv, NEW o \in OtpIds
               PROVE  fails[o] < Cardinality(Choices)
    BY DEF GuessBudget
  <2>1. Profile(o) \in Ladders /\ fails[o] \in Nat
    BY ProfileType DEF TypeInv, TypeOK
  <2>2. /\ Cardinality(Passed(Profile(o))) \in Nat
        /\ Cardinality(Passed(Profile(o))) < Cardinality(Ladders)
    BY <2>1, PassedCounted
  <2>3. /\ IsFiniteSet(Ladders)
        /\ Cardinality(Ladders) <= Cardinality(Choices)
    BY LaddersCounted
  <2>4. Cardinality(Ladders) \in Nat /\ Cardinality(Choices) \in Nat
    BY <2>3, ChoicesFinite, FS_CardinalityType
  <2>5. fails[o] <= Cardinality(Passed(Profile(o)))
    BY DEF GuessInv
  <2> QED
    BY <2>1, <2>2, <2>3, <2>4, <2>5
<1> QED
  BY <1>1, <1>2, <1>3, PTL

=============================================================================
