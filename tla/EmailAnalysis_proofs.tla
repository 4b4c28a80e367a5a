------------------------ MODULE EmailAnalysis_proofs ------------------------
(***************************************************************************)
(* Theorems about EmailAnalysis, for every message, policy, resolver,      *)
(* model and provider within the assumptions of the modules, and any       *)
(* number of messages.                                                     *)
(*                                                                         *)
(* One invariant carries all of them, DataInv: what a worker holds at a    *)
(* stage was computed, by the operators of the model, from what it held    *)
(* at the stage before and an answer of the world, down to the preserved   *)
(* message; and a stored analysis is the end of such a chain. The          *)
(* properties then follow from lemmas about the operators: what a check,   *)
(* a score, a lookup or a search for leads returns.                        *)
(***************************************************************************)
EXTENDS EmailAnalysis, TLAPS, FiniteSetTheorems
----------------------------------------------------------------------------
(* Sums over finite sets. *)

\* Of the subsets of a finite set that are in F, one contains no other.
LEMMA SmallestSubset ==
  ASSUME NEW S, IsFiniteSet(S), NEW F \in SUBSET SUBSET S, F # {}
  PROVE  \E s \in F : \A t \in F : t \subseteq s => t = s
<1>1. IsWellFoundedOn(StrictSubsetOrdering(S), SUBSET S)
  BY FS_StrictSubsetOrderingWellFounded, FS_FiniteSubsetsOfFinite
<1>2. PICK s \in F : \A t \in F : <<t, s>> \notin StrictSubsetOrdering(S)
  BY <1>1, WFMin, Zenon
<1>3. ASSUME NEW t \in F, t \subseteq s PROVE t = s
  BY <1>2, <1>3 DEF StrictSubsetOrdering
<1> QED
  BY <1>3

\* g sums f over the subsets of S, in the order CHOOSE takes the elements.
First(s) == CHOOSE x \in s : TRUE
Iterates(f, S, g) ==
    g = [s \in SUBSET S |-> IF s = {} THEN 0 ELSE f[First(s)] + g[s \ {First(s)}]]

LEMMA FirstIsMember == ASSUME NEW s, s # {} PROVE First(s) \in s
  BY DEF First

LEMMA IteratesUnfold ==
  ASSUME NEW f, NEW S, NEW g, Iterates(f, S, g), NEW s \in SUBSET S
  PROVE  /\ s = {} => g[s] = 0
         /\ s # {} => g[s] = f[First(s)] + g[s \ {First(s)}]
<1> DEFINE h == [t \in SUBSET S |->
                   IF t = {} THEN 0 ELSE f[First(t)] + g[t \ {First(t)}]]
<1>1. g[s] = h[s]
  <2>1. g = h
    BY Zenon DEF Iterates
  <2> HIDE DEF h
  <2> QED
    BY <2>1
<1>2. h[s] = IF s = {} THEN 0 ELSE f[First(s)] + g[s \ {First(s)}]
  OBVIOUS
<1> HIDE DEF h
<1> QED
  BY <1>1, <1>2

\* Which set is summed does not change the sums of its subsets.
LEMMA IteratesAgree ==
  ASSUME NEW f, NEW S, IsFiniteSet(S), NEW T \in SUBSET S,
         NEW g, Iterates(f, S, g), NEW h, Iterates(f, T, h)
  PROVE  \A s \in SUBSET T : g[s] = h[s]
<1> DEFINE F == {s \in SUBSET T : g[s] # h[s]}
<1>1. SUFFICES ASSUME F # {} PROVE FALSE
  OBVIOUS
<1>2. IsFiniteSet(T)
  BY FS_Subset
<1>3. PICK s \in F : \A t \in F : t \subseteq s => t = s
  <2>1. F \in SUBSET SUBSET T
    OBVIOUS
  <2> HIDE DEF F
  <2> QED
    BY <1>1, <1>2, <2>1, SmallestSubset
<1>4. s \in SUBSET T /\ s \in SUBSET S /\ g[s] # h[s]
  OBVIOUS
<1>5. s # {}
  BY <1>4, IteratesUnfold
<1>6. First(s) \in s
  BY <1>5, FirstIsMember
<1> DEFINE t == s \ {First(s)}
<1>7. t \in SUBSET T /\ t \subseteq s /\ t # s
  BY <1>4, <1>6
<1>8. g[t] = h[t]
  BY <1>3, <1>7
<1>9. g[s] = f[First(s)] + g[t] /\ h[s] = f[First(s)] + h[t]
  BY <1>4, <1>5, IteratesUnfold
<1> QED
  BY <1>4, <1>8, <1>9

\* The recursion has a solution on every finite set.
LEMMA IteratesExists ==
  ASSUME NEW f, NEW S, IsFiniteSet(S)
  PROVE  \E g : Iterates(f, S, g)
<1> DEFINE F == {s \in SUBSET S : ~ \E g : Iterates(f, s, g)}
<1>1. SUFFICES ASSUME F # {} PROVE FALSE
  OBVIOUS
<1>2. PICK T \in F : \A t \in F : t \subseteq T => t = T
  <2>1. F \in SUBSET SUBSET S
    OBVIOUS
  <2> HIDE DEF F
  <2> QED
    BY <1>1, <2>1, SmallestSubset
<1>3. T \in SUBSET S /\ IsFiniteSet(T)
  BY FS_Subset
<1> DEFINE Sums(t) == CHOOSE g : Iterates(f, t, g)
           Sum(t) == Sums(t)[t]
           h == [s \in SUBSET T |->
                   IF s = {} THEN 0 ELSE f[First(s)] + Sum(s \ {First(s)})]
<1>4. ASSUME NEW t \in SUBSET T, t # T
      PROVE  Iterates(f, t, Sums(t))
  <2>1. t \in SUBSET S /\ t \notin F
    BY <1>2, <1>3, <1>4
  <2>2. \E g : Iterates(f, t, g)
    BY <2>1
  <2> QED
    BY <2>2
<1>5. ASSUME NEW t \in SUBSET T, t # T
      PROVE  h[t] = Sum(t)
  <2>1. Iterates(f, t, Sums(t))
    BY <1>4, <1>5
  <2>2. CASE t = {}
    <3>1. Sums(t)[t] = 0
      BY <2>1, <2>2, IteratesUnfold
    <3> QED
      BY <2>2, <3>1
  <2>3. CASE t # {}
    <3> DEFINE u == t \ {First(t)}
    <3>1. First(t) \in t
      BY <2>3, FirstIsMember
    <3>2. u \in SUBSET t /\ u \in SUBSET T /\ u # T
      BY <3>1
    <3>3. Iterates(f, u, Sums(u))
      BY <1>4, <3>2
    <3>4. IsFiniteSet(t)
      BY <1>3, FS_Subset
    <3>5. Sums(t)[u] = Sums(u)[u]
      <4> HIDE DEF Sums, u
      <4> QED
        BY <2>1, <3>2, <3>3, <3>4, IteratesAgree
    <3>6. Sums(t)[t] = f[First(t)] + Sums(t)[u]
      <4> HIDE DEF Sums
      <4> QED
        BY <2>1, <2>3, IteratesUnfold
    <3>7. h[t] = f[First(t)] + Sum(u)
      BY <2>3
    <3> QED
      BY <3>5, <3>6, <3>7
  <2> QED
    BY <2>2, <2>3
<1>6. \A s \in SUBSET T : s # {} => h[s \ {First(s)}] = Sum(s \ {First(s)})
  <2> TAKE s \in SUBSET T
  <2> HAVE s # {}
  <2>1. First(s) \in s
    BY FirstIsMember
  <2>2. s \ {First(s)} \in SUBSET T /\ s \ {First(s)} # T
    BY <2>1
  <2> HIDE DEF h, Sum
  <2> QED
    BY <1>5, <2>2
<1>7. h = [s \in SUBSET T |-> IF s = {} THEN 0 ELSE f[First(s)] + h[s \ {First(s)}]]
  <2>1. h = [s \in SUBSET T |->
               IF s = {} THEN 0 ELSE f[First(s)] + Sum(s \ {First(s)})]
    BY Zenon
  <2> HIDE DEF h, Sum
  <2> QED
    BY <1>6, <2>1
<1> HIDE DEF h
<1>8. Iterates(f, T, h)
  BY <1>7, Zenon DEF Iterates
<1> QED
  BY <1>8

\* The sum of a function over a set, by any solution of the recursion.
LEMMA SumIterates ==
  ASSUME NEW f, NEW S, IsFiniteSet(S), NEW g, Iterates(f, S, g)
  PROVE  SumFunctionOnSet(f, S) = g[S]
<1> DEFINE h == CHOOSE it : Iterates(f, S, it)
<1>1. Iterates(f, S, h)
  OBVIOUS
<1>2. SumFunctionOnSet(f, S) = h[S]
  BY Zenon DEF SumFunctionOnSet, FoldFunctionOnSet, MapThenFoldSet, Iterates, First
<1> HIDE DEF h
<1>3. g[S] = h[S]
  BY <1>1, IteratesAgree
<1> QED
  BY <1>2, <1>3

LEMMA SumOfNothing == ASSUME NEW f PROVE SumFunctionOnSet(f, {}) = 0
<1>1. IsFiniteSet({})
  BY FS_EmptySet
<1>2. PICK g : Iterates(f, {}, g)
  BY <1>1, IteratesExists
<1>3. g[{}] = 0
  BY <1>2, IteratesUnfold
<1> QED
  BY <1>1, <1>2, <1>3, SumIterates

LEMMA SumFirst ==
  ASSUME NEW f, NEW S, IsFiniteSet(S), S # {}
  PROVE  SumFunctionOnSet(f, S)
            = f[First(S)] + SumFunctionOnSet(f, S \ {First(S)})
<1> DEFINE T == S \ {First(S)}
<1>1. PICK g : Iterates(f, S, g)
  BY IteratesExists
<1>2. T \in SUBSET S /\ IsFiniteSet(T)
  BY FS_Subset
<1>3. PICK h : Iterates(f, T, h)
  BY <1>2, IteratesExists
<1>5. g[S] = f[First(S)] + g[T]
  BY <1>1, IteratesUnfold
<1> HIDE DEF T
<1>4. g[T] = h[T]
  BY <1>1, <1>2, <1>3, IteratesAgree
<1>6. SumFunctionOnSet(f, S) = g[S] /\ SumFunctionOnSet(f, T) = h[T]
  BY <1>1, <1>2, <1>3, SumIterates
<1>7. SumFunctionOnSet(f, S) = f[First(S)] + SumFunctionOnSet(f, T)
  BY <1>4, <1>5, <1>6
<1> QED
  BY <1>7 DEF T

LEMMA SumIsNumber ==
  ASSUME NEW f, NEW S, IsFiniteSet(S), \A x \in S : f[x] \in Int
  PROVE  SumFunctionOnSet(f, S) \in Int
<1> DEFINE F == {s \in SUBSET S : SumFunctionOnSet(f, s) \notin Int}
<1>1. SUFFICES ASSUME F # {} PROVE FALSE
  OBVIOUS
<1>2. PICK s \in F : \A t \in F : t \subseteq s => t = s
  <2>1. F \in SUBSET SUBSET S
    OBVIOUS
  <2> HIDE DEF F
  <2> QED
    BY <1>1, <2>1, SmallestSubset
<1>3. s \in SUBSET S /\ IsFiniteSet(s) /\ SumFunctionOnSet(f, s) \notin Int
  BY FS_Subset
<1>4. s # {}
  BY <1>3, SumOfNothing
<1>5. First(s) \in s
  BY <1>4, FirstIsMember
<1>6. SumFunctionOnSet(f, s \ {First(s)}) \in Int
  BY <1>2, <1>3, <1>5
<1>7. SumFunctionOnSet(f, s) = f[First(s)] + SumFunctionOnSet(f, s \ {First(s)})
  BY <1>3, <1>4, SumFirst
<1> QED
  BY <1>3, <1>5, <1>6, <1>7

\* Any member may be taken first.
LEMMA SumTake ==
  ASSUME NEW f, NEW S, IsFiniteSet(S), \A x \in S : f[x] \in Int, NEW x \in S
  PROVE  SumFunctionOnSet(f, S) = f[x] + SumFunctionOnSet(f, S \ {x})
<1> DEFINE Sum(s) == SumFunctionOnSet(f, s)
           F == {s \in SUBSET S : \E y \in s : Sum(s) # f[y] + Sum(s \ {y})}
<1>1. SUFFICES ASSUME F # {} PROVE FALSE
  OBVIOUS
<1>2. PICK s \in F : \A t \in F : t \subseteq s => t = s
  <2>1. F \in SUBSET SUBSET S
    OBVIOUS
  <2> HIDE DEF F
  <2> QED
    BY <1>1, <2>1, SmallestSubset
<1>3. PICK y \in s : Sum(s) # f[y] + Sum(s \ {y})
  OBVIOUS
<1>4. s \in SUBSET S /\ IsFiniteSet(s)
  BY FS_Subset
<1> DEFINE c == First(s)
<1>5. c \in s
  BY FirstIsMember
<1>6. Sum(s) = f[c] + Sum(s \ {c})
  BY <1>4, <1>5, SumFirst
<1>7. c # y
  BY <1>3, <1>6
<1>8. Sum(s \ {c}) = f[y] + Sum((s \ {c}) \ {y})
  <2>1. s \ {c} \in SUBSET S /\ s \ {c} # s /\ s \ {c} \notin F
    BY <1>2, <1>4, <1>5
  <2>2. y \in s \ {c}
    BY <1>7
  <2> QED
    BY <2>1, <2>2
<1>9. Sum(s \ {y}) = f[c] + Sum((s \ {y}) \ {c})
  <2>1. s \ {y} \in SUBSET S /\ s \ {y} # s /\ s \ {y} \notin F
    BY <1>2, <1>4
  <2>2. c \in s \ {y}
    BY <1>5, <1>7
  <2> QED
    BY <2>1, <2>2
<1>10. (s \ {c}) \ {y} = (s \ {y}) \ {c}
  OBVIOUS
<1>11. Sum((s \ {y}) \ {c}) \in Int
  <2>1. IsFiniteSet((s \ {y}) \ {c})
    BY <1>4, FS_Subset
  <2> QED
    BY <1>4, <2>1, SumIsNumber
<1>12. f[y] \in Int /\ f[c] \in Int
  BY <1>4, <1>5
<1> DEFINE rest == Sum((s \ {y}) \ {c})
<1>13. Sum(s \ {c}) = f[y] + rest
  BY <1>8, <1>10, Zenon
<1>14. Sum(s \ {y}) = f[c] + rest
  BY <1>9, Zenon
<1>15. rest \in Int
  BY <1>11, Zenon
<1> HIDE DEF rest
<1>16. Sum(s) = f[y] + Sum(s \ {y})
  <2> HIDE DEF Sum
  <2> QED
    BY <1>6, <1>12, <1>13, <1>14, <1>15
<1> QED
  BY <1>3, <1>16

\* A sum of naturals over more members, or of greater ones, is no smaller.
LEMMA SumGrows ==
  ASSUME NEW f, NEW g, NEW S, IsFiniteSet(S), NEW T \in SUBSET S,
         \A x \in S : f[x] \in Nat,
         \A x \in T : g[x] \in Nat /\ g[x] <= f[x]
  PROVE  /\ SumFunctionOnSet(f, S) \in Nat
         /\ SumFunctionOnSet(g, T) <= SumFunctionOnSet(f, S)
<1> DEFINE Small(s) == SumFunctionOnSet(g, T \cap s)
           Great(s) == SumFunctionOnSet(f, s)
           F == {s \in SUBSET S : ~(Great(s) \in Nat /\ Small(s) \in Int /\ Small(s) <= Great(s))}
<1>1. F = {}
  <2>1. SUFFICES ASSUME F # {} PROVE FALSE
    OBVIOUS
  <2>2. PICK s \in F : \A t \in F : t \subseteq s => t = s
    <3>1. F \in SUBSET SUBSET S
      OBVIOUS
    <3> HIDE DEF F
    <3> QED
      BY <2>1, <3>1, SmallestSubset
  <2>3. s \in SUBSET S /\ IsFiniteSet(s) /\ IsFiniteSet(T \cap s)
    BY FS_Subset
  <2>4. ~(Great(s) \in Nat /\ Small(s) \in Int /\ Small(s) <= Great(s))
    OBVIOUS
  <2>5. s # {}
    <3>1. SUFFICES ASSUME s = {} PROVE FALSE
      OBVIOUS
    <3>2. T \cap s = {}
      BY <3>1
    <3>3. Small(s) = 0
      BY <3>2, SumOfNothing
    <3>4. Great(s) = 0
      BY <3>1, SumOfNothing
    <3> QED
      BY <2>4, <3>3, <3>4
  <2>6. PICK x \in s : TRUE
    BY <2>5
  <2> DEFINE r == s \ {x}
  <2>7. Great(r) \in Nat /\ Small(r) \in Int /\ Small(r) <= Great(r)
    <3>1. r \in SUBSET S /\ r \subseteq s /\ r # s
      BY <2>3, <2>6
    <3> QED
      BY <2>2, <3>1
  <2>8. Great(s) = f[x] + Great(r) /\ f[x] \in Nat
    <3>1. \A z \in s : f[z] \in Int
      BY <2>3
    <3> QED
      BY <2>3, <2>6, <3>1, SumTake
  <2>9. \/ Small(s) = Small(r)
        \/ Small(s) = g[x] + Small(r) /\ g[x] \in Nat /\ g[x] <= f[x]
    <3>1. CASE x \in T
      <4>1. (T \cap s) \ {x} = T \cap r
        OBVIOUS
      <4>2. \A z \in T \cap s : g[z] \in Int
        OBVIOUS
      <4>3. x \in T \cap s
        BY <3>1
      <4>4. SumFunctionOnSet(g, T \cap s) = g[x] + SumFunctionOnSet(g, (T \cap s) \ {x})
        BY <2>3, <4>2, <4>3, SumTake
      <4> QED
        BY <3>1, <4>1, <4>4
    <3>2. CASE x \notin T
      <4>1. T \cap s = T \cap r
        BY <3>2
      <4> QED
        BY <4>1
    <3> QED
      BY <3>1, <3>2
  <2> HIDE DEF Small, Great
  <2> QED
    BY <2>4, <2>7, <2>8, <2>9
<1>2. Great(S) \in Nat /\ Small(S) <= Great(S)
  <2>1. S \notin F
    BY <1>1
  <2> QED
    BY <2>1
<1>3. T \cap S = T
  OBVIOUS
<1> QED
  BY <1>2, <1>3

----------------------------------------------------------------------------
(* Where the data of a stage comes from. *)

Enriched == {"Forensics", "AI Analysis", "Threat Intelligence", "Correlation", "Completed"}
Predicted == Enriched \ {"Forensics"}
LookedUp == Predicted \ {"AI Analysis"}
Correlated == LookedUp \ {"Threat Intelligence"}

\* What the checks make of a message, under a policy.
Worked(m, p, c) ==
    /\ Parses(m) /\ c \in Configs
    /\ \E w \in Worlds : p = EnrichAuthentication(Parse(m), w, c.dns_enabled)

\* What the lookups of a message may leave.
Item(i, r, c) == IF i.value \notin DOMAIN r THEN Unanswered(i)
                 ELSE Lookup(i, r[i.value], c.external)
Answers(p, c, r, chosen) ==
    EnrichMailPath(p, {Item(i, r, c) : i \in chosen}, LocalGeo)
Answered(p, c, n) ==
    \E r \in Reports :
        \E chosen \in SelectIndicators(Eligible(p), p.candidate, IndicatorLimit) :
            n = Answers(p, c, r, chosen)

\* The leads among messages whose stored analyses, of whichever run, were seen.
Associated(p, seen, leads, original) ==
    \E stored : /\ DOMAIN stored = seen
                /\ \A o \in seen : \E c : Worked(original[o], stored[o], c)
                /\ leads = RelatedEmails(p, stored)

AnalysisOf(e, p, c, l, n, r) ==
    [forensics |-> p, related |-> r, risk |-> Risk(p, l, n, c),
     origin |-> OriginConfidence(p, n),
     attribution |-> AssessAttribution(p, l, OriginConfidence(p, n)),
     geolocation |-> GeolocationStatus(p, n), graph |-> Graph(e, p, n)]

Traced(e, m, a) ==
    \E p, c, n, r : \E l \in Predictions :
        Worked(m, p, c) /\ Answered(p, c, n) /\ a = AnalysisOf(e, p, c, l, n, r)

Ready(e) ==
    /\ stage[e] = "Parsing" => Parses(message[e]) /\ parsed[e] = Parse(message[e])
    /\ stage[e] \in Enriched => Worked(message[e], parsed[e], config[e])
    /\ stage[e] \in Predicted => ml[e] \in Predictions
    /\ stage[e] \in LookedUp => Answered(parsed[e], config[e], enrichment[e])
    /\ stage[e] \in Correlated =>
          /\ known[e] \subseteq Emails \ {e}
          /\ Associated(parsed[e], known[e], related[e], message)
    /\ stage[e] = "Completed" =>
          /\ e \in DOMAIN analyses
          /\ analyses[e] = AnalysisOf(e, parsed[e], config[e], ml[e], enrichment[e],
                                      related[e])

Shapes ==
    /\ stage \in [Emails -> Stages] /\ message \in [Emails -> Messages]
    /\ DOMAIN config = Emails /\ DOMAIN parsed = Emails /\ DOMAIN ml = Emails
    /\ DOMAIN enrichment = Emails /\ DOMAIN related = Emails /\ DOMAIN known = Emails
    /\ DOMAIN analyses \subseteq Emails

DataInv ==
    /\ Shapes
    /\ \A e \in Emails : Ready(e)
    /\ \A e \in DOMAIN analyses : Traced(e, message[e], analyses[e])

LEMMA AnalysisIsMade ==
  ASSUME NEW e \in Emails
  PROVE  Analysis(e) = AnalysisOf(e, parsed[e], config[e], ml[e], enrichment[e], related[e])
  BY Zenon DEF Analysis, AnalysisOf

LEMMA DataInit == Init => DataInv
<1> SUFFICES ASSUME Init PROVE DataInv
  OBVIOUS
<1>1. Shapes
  BY DEF Init, Shapes, Stages
<1>2. ASSUME NEW e \in Emails PROVE Ready(e)
  <2>1. stage[e] = "Uploaded"
    BY DEF Init
  <2> QED
    BY <2>1 DEF Ready, Enriched, Predicted, LookedUp, Correlated
<1>3. DOMAIN analyses = {}
  BY DEF Init
<1> QED
  BY <1>1, <1>2, <1>3 DEF DataInv

\* A step of one message's worker leaves the data of the others.
Apart(e) ==
    /\ message' = message
    /\ \A o \in Emails \ {e} :
          /\ stage'[o] = stage[o] /\ config'[o] = config[o] /\ parsed'[o] = parsed[o]
          /\ ml'[o] = ml[o] /\ enrichment'[o] = enrichment[o]
          /\ related'[o] = related[o] /\ known'[o] = known[o]
    /\ \A o \in DOMAIN analyses \ {e} : o \in DOMAIN analyses' /\ analyses'[o] = analyses[o]
    /\ DOMAIN analyses' \subseteq DOMAIN analyses \cup {e}

LEMMA OthersStayReady ==
  ASSUME DataInv, NEW e \in Emails, Apart(e), NEW o \in Emails \ {e}
  PROVE  Ready(o)'
<1>1. Ready(o)
  BY DEF DataInv
<1> QED
  BY <1>1 DEF Ready, Apart

\* What is left to show of a step: that the worker's own data is in order.
LEMMA OneWorks ==
  ASSUME DataInv, NEW e \in Emails, Apart(e), Shapes', Ready(e)',
         e \in DOMAIN analyses' => Traced(e, message[e], analyses'[e])
  PROVE  DataInv'
<1>1. \A o \in Emails : Ready(o)'
  BY OthersStayReady
<1>2. ASSUME NEW o \in DOMAIN analyses'
      PROVE  Traced(o, message'[o], analyses'[o])
  <2>1. CASE o = e
    BY <2>1 DEF Apart
  <2>2. CASE o # e
    <3>1. o \in DOMAIN analyses /\ analyses'[o] = analyses[o] /\ message' = message
      BY <2>2 DEF Apart
    <3>2. Traced(o, message[o], analyses[o])
      BY <3>1 DEF DataInv
    <3> QED
      BY <3>1, <3>2
  <2> QED
    BY <2>1, <2>2
<1> QED
  BY <1>1, <1>2 DEF DataInv

LEMMA DataStep == DataInv /\ [Next]_vars => DataInv'
<1> SUFFICES ASSUME DataInv, [Next]_vars PROVE DataInv'
  OBVIOUS
<1> USE DEF Advance
<1>1. Shapes /\ \A e \in Emails : Ready(e)
  BY DEF DataInv
<1>2. \A e \in DOMAIN analyses : Traced(e, message[e], analyses[e])
  BY DEF DataInv
<1>3. ASSUME NEW e \in Emails, ParseOriginal(e) PROVE DataInv'
  <2>1. Apart(e) /\ Shapes'
    BY <1>1, <1>3 DEF ParseOriginal, Apart, Shapes, Stages
  <2>2. Ready(e)'
    <3>1. \/ stage'[e] = "Failed"
          \/ /\ stage'[e] = "Parsing" /\ Parses(message'[e])
             /\ parsed'[e] = Parse(message'[e])
      BY <1>1, <1>3 DEF ParseOriginal, Shapes
    <3> QED
      BY <3>1 DEF Ready, Enriched, Predicted, LookedUp, Correlated
  <2>3. e \in DOMAIN analyses' => Traced(e, message[e], analyses'[e])
    BY <1>2, <1>3 DEF ParseOriginal
  <2> QED
    BY <2>1, <2>2, <2>3, OneWorks
<1>4. ASSUME NEW e \in Emails, Authenticate(e) PROVE DataInv'
  <2>1. Apart(e) /\ Shapes'
    BY <1>1, <1>4 DEF Authenticate, Apart, Shapes, Stages
  <2>2. Ready(e)'
    <3>1. stage'[e] = "Forensics" /\ stage[e] = "Parsing" /\ message' = message
      BY <1>1, <1>4 DEF Authenticate, Shapes
    <3>2. Parses(message[e]) /\ parsed[e] = Parse(message[e])
      BY <1>1, <3>1 DEF Ready
    <3>3. PICK c \in Configs, w \in Worlds :
            /\ config' = [config EXCEPT ![e] = c]
            /\ parsed' = [parsed EXCEPT
                            ![e] = EnrichAuthentication(parsed[e], w, c.dns_enabled)]
      BY <1>4 DEF Authenticate
    <3>4. /\ config'[e] = c
          /\ parsed'[e] = EnrichAuthentication(Parse(message[e]), w, c.dns_enabled)
      BY <1>1, <3>2, <3>3 DEF Shapes
    <3>5. Worked(message'[e], parsed'[e], config'[e])
      BY <3>1, <3>2, <3>4 DEF Worked
    <3> QED
      BY <3>1, <3>5 DEF Ready, Enriched, Predicted, LookedUp, Correlated
  <2>3. e \in DOMAIN analyses' => Traced(e, message[e], analyses'[e])
    BY <1>2, <1>4 DEF Authenticate
  <2> QED
    BY <2>1, <2>2, <2>3, OneWorks
<1>5. ASSUME NEW e \in Emails, Predict(e) PROVE DataInv'
  <2>1. Apart(e) /\ Shapes'
    BY <1>1, <1>5 DEF Predict, Apart, Shapes, Stages
  <2>2. Ready(e)'
    <3>1. /\ stage'[e] = "AI Analysis" /\ stage[e] = "Forensics"
          /\ UNCHANGED <<message, parsed, config>>
          /\ ml'[e] \in Predictions
      BY <1>1, <1>5 DEF Predict, Shapes
    <3>2. Worked(message[e], parsed[e], config[e])
      BY <1>1, <3>1 DEF Ready, Enriched
    <3> QED
      BY <3>1, <3>2 DEF Ready, Enriched, Predicted, LookedUp, Correlated
  <2>3. e \in DOMAIN analyses' => Traced(e, message[e], analyses'[e])
    BY <1>2, <1>5 DEF Predict
  <2> QED
    BY <2>1, <2>2, <2>3, OneWorks
<1>6. ASSUME NEW e \in Emails, GatherIntelligence(e) PROVE DataInv'
  <2>1. Apart(e) /\ Shapes'
    BY <1>1, <1>6 DEF GatherIntelligence, Apart, Shapes, Stages
  <2>2. Ready(e)'
    <3>1. /\ stage'[e] = "Threat Intelligence" /\ stage[e] = "AI Analysis"
          /\ UNCHANGED <<message, parsed, config, ml>>
      BY <1>1, <1>6 DEF GatherIntelligence, Shapes
    <3>2. Worked(message[e], parsed[e], config[e]) /\ ml[e] \in Predictions
      BY <1>1, <3>1 DEF Ready, Enriched, Predicted
    <3>3. Answered(parsed[e], config[e], enrichment'[e])
      BY <1>1, <1>6 DEF GatherIntelligence, Shapes, Answered, Answers, Item
    <3> QED
      BY <3>1, <3>2, <3>3 DEF Ready, Enriched, Predicted, LookedUp, Correlated
  <2>3. e \in DOMAIN analyses' => Traced(e, message[e], analyses'[e])
    BY <1>2, <1>6 DEF GatherIntelligence
  <2> QED
    BY <2>1, <2>2, <2>3, OneWorks
<1>7. ASSUME NEW e \in Emails, Correlate(e) PROVE DataInv'
  <2>1. Apart(e) /\ Shapes'
    BY <1>1, <1>7 DEF Correlate, Apart, Shapes, Stages
  <2>2. Ready(e)'
    <3>1. /\ stage'[e] = "Correlation" /\ stage[e] = "Threat Intelligence"
          /\ UNCHANGED <<message, parsed, config, ml, enrichment>>
      BY <1>1, <1>7 DEF Correlate, Shapes
    <3>2. /\ Worked(message[e], parsed[e], config[e]) /\ ml[e] \in Predictions
          /\ Answered(parsed[e], config[e], enrichment[e])
      BY <1>1, <3>1 DEF Ready, Enriched, Predicted, LookedUp
    <3> DEFINE others == DOMAIN analyses \ {e}
               stored == [o \in others |-> analyses[o].forensics]
    <3>3. known'[e] = others /\ related'[e] = RelatedEmails(parsed[e], stored)
      BY <1>1, <1>7 DEF Correlate, Shapes
    <3>4. ASSUME NEW o \in others PROVE \E c : Worked(message[o], stored[o], c)
      <4>1. Traced(o, message[o], analyses[o])
        BY <1>2
      <4>2. PICK p, c : Worked(message[o], p, c) /\ analyses[o].forensics = p
        BY <4>1 DEF Traced, AnalysisOf
      <4> QED
        BY <4>2
    <3>5. DOMAIN stored = others
      OBVIOUS
    <3> HIDE DEF stored
    <3>6. Associated(parsed[e], others, related'[e], message)
      BY <3>3, <3>4, <3>5 DEF Associated
    <3>7. others \subseteq Emails \ {e}
      BY <1>1 DEF Shapes
    <3> HIDE DEF others
    <3> QED
      BY <3>1, <3>2, <3>3, <3>6, <3>7 DEF Ready, Enriched, Predicted, LookedUp, Correlated
  <2>3. e \in DOMAIN analyses' => Traced(e, message[e], analyses'[e])
    BY <1>2, <1>7 DEF Correlate
  <2> QED
    BY <2>1, <2>2, <2>3, OneWorks
<1>8. ASSUME NEW e \in Emails, Store(e) PROVE DataInv'
  <2>1. analyses'[e] = AnalysisOf(e, parsed[e], config[e], ml[e], enrichment[e], related[e])
    BY <1>8, AnalysisIsMade DEF Store
  <2>2. Apart(e) /\ Shapes'
    BY <1>1, <1>8 DEF Store, Apart, Shapes, Stages
  <2>3. /\ stage'[e] = "Completed" /\ stage[e] = "Correlation"
        /\ UNCHANGED <<message, parsed, config, ml, enrichment, related, known>>
        /\ e \in DOMAIN analyses'
    BY <1>1, <1>8 DEF Store, Shapes
  <2>4. /\ Worked(message[e], parsed[e], config[e]) /\ ml[e] \in Predictions
        /\ Answered(parsed[e], config[e], enrichment[e])
        /\ known[e] \subseteq Emails \ {e}
        /\ Associated(parsed[e], known[e], related[e], message)
    BY <1>1, <2>3 DEF Ready, Enriched, Predicted, LookedUp, Correlated
  <2>5. Ready(e)'
    BY <2>1, <2>3, <2>4 DEF Ready, Enriched, Predicted, LookedUp, Correlated
  <2>6. Traced(e, message[e], analyses'[e])
    BY <2>1, <2>4 DEF Traced
  <2> QED
    BY <2>2, <2>5, <2>6, OneWorks
<1>9. ASSUME NEW e \in Emails, Reanalyze(e) PROVE DataInv'
  <2>1. Apart(e) /\ Shapes'
    BY <1>1, <1>9 DEF Reanalyze, Apart, Shapes, Stages
  <2>2. Ready(e)'
    <3>1. stage'[e] = "Uploaded"
      BY <1>1, <1>9 DEF Reanalyze, Shapes
    <3> QED
      BY <3>1 DEF Ready, Enriched, Predicted, LookedUp, Correlated
  <2>3. e \in DOMAIN analyses' => Traced(e, message[e], analyses'[e])
    BY <1>2, <1>9 DEF Reanalyze
  <2> QED
    BY <2>1, <2>2, <2>3, OneWorks
<1>10. CASE UNCHANGED vars
  <2>1. UNCHANGED <<stage, message, config, parsed, ml, enrichment, related, known, analyses>>
    BY <1>10 DEF vars
  <2> QED
    BY <1>1, <1>2, <2>1 DEF DataInv, Shapes, Ready
<1> QED
  BY <1>3, <1>4, <1>5, <1>6, <1>7, <1>8, <1>9, <1>10 DEF Next

\* Whatever the world answers and however the workers interleave, the data of
\* each stage is the outcome of the stages before it on the preserved message.
THEOREM DataIsTraced == Spec => []DataInv
  BY DataInit, DataStep, PTL DEF Spec

----------------------------------------------------------------------------
(* What the authentication checks find. *)

SameMail(p, m) ==
    /\ p.sender = Parse(m).sender /\ p.reply_to = Parse(m).reply_to
    /\ p.singleSender = Parse(m).singleSender /\ p.identity = Parse(m).identity
    /\ p.received_chain = Parse(m).received_chain /\ p.anomaly = Parse(m).anomaly
    /\ p.candidate = Parse(m).candidate /\ p.observed = Parse(m).observed
    /\ p.urls = Parse(m).urls /\ p.attachments = m.attachments
    /\ p.iocs = Parse(m).iocs /\ p.text = Parse(m).text
    /\ p.message_id = m.id /\ p.references = m.refs /\ p.in_reply_to = m.inReplyTo

\* The authentication part of a parse result, after the checks.
Checked(p, w, b, auth) ==
    LET dkim == VerifyDkim(p, w.budget, b)
        dmarc == DmarcPolicy(p.sender, w.dmarc, b)
    IN  /\ auth.dkim.local = dkim.status
        /\ auth.dmarc.local = DmarcAssessment(p, dmarc, dkim.signatures)
        /\ auth.dmarc.strict = dmarc.strict

LEMMA ChecksKeepMail ==
  ASSUME NEW m, NEW w, NEW b,
         NEW p, p = EnrichAuthentication(Parse(m), w, b)
  PROVE  SameMail(p, m) /\ Checked(Parse(m), w, b, p.authentication)
<1> DEFINE q == Parse(m)
<1>1. /\ q.message_id = m.id /\ q.references = m.refs /\ q.in_reply_to = m.inReplyTo
      /\ q.attachments = m.attachments
      /\ {"sender", "reply_to", "singleSender", "identity", "received_chain", "anomaly",
          "candidate", "observed", "authentication", "urls", "attachments", "iocs",
          "text", "message_id", "references", "in_reply_to"} \subseteq DOMAIN q
      /\ {"spf", "dkim", "dmarc"} \subseteq DOMAIN q.authentication
      /\ "local" \in DOMAIN q.authentication.dkim
      /\ {"local", "policy", "strict"} \subseteq DOMAIN q.authentication.dmarc
  BY DEF Parse, ReportedAuthentication
<1> HIDE DEF q
<1>2. p = EnrichAuthentication(q, w, b)
  BY DEF q
<1> DEFINE dkim == VerifyDkim(q, w.budget, b)
           dmarc == DmarcPolicy(q.sender, w.dmarc, b)
           assessed == DmarcAssessment(q, dmarc, dkim.signatures)
           spf == [reported |-> q.authentication.spf.reported,
                   domain |-> q.authentication.spf.domain,
                   alignment |-> q.authentication.spf.alignment,
                   dns |-> PolicyRecords(q.authentication.spf.domain, w.spf, b).status,
                   candidate |-> CandidateSpf(q, w.candidate, b)]
<1>3. p = [q EXCEPT !.authentication.dkim.local = dkim.status,
                    !.authentication.dmarc.local = assessed,
                    !.authentication.dmarc.policy = dmarc.policy,
                    !.authentication.dmarc.strict = dmarc.strict,
                    !.authentication.spf = spf]
  BY <1>2, Zenon DEF EnrichAuthentication
<1> HIDE DEF dkim, dmarc, assessed, spf
<1>4. /\ p.sender = q.sender /\ p.reply_to = q.reply_to
      /\ p.singleSender = q.singleSender /\ p.identity = q.identity
      /\ p.received_chain = q.received_chain /\ p.anomaly = q.anomaly
      /\ p.candidate = q.candidate /\ p.observed = q.observed
      /\ p.urls = q.urls /\ p.attachments = q.attachments
      /\ p.iocs = q.iocs /\ p.text = q.text
      /\ p.message_id = q.message_id /\ p.references = q.references
      /\ p.in_reply_to = q.in_reply_to
  BY <1>1, <1>3
<1>5. /\ p.authentication.dkim.local = dkim.status
      /\ p.authentication.dmarc.local = assessed
      /\ p.authentication.dmarc.strict = dmarc.strict
  <2> DEFINE a0 == q.authentication
             a1 == [a0 EXCEPT !.dkim.local = dkim.status]
             a2 == [a1 EXCEPT !.dmarc.local = assessed]
             a3 == [a2 EXCEPT !.dmarc.policy = dmarc.policy]
             a4 == [a3 EXCEPT !.dmarc.strict = dmarc.strict]
             a5 == [a4 EXCEPT !.spf = spf]
  <2>1. p.authentication = a5
    BY <1>1, <1>3
  <2>2. /\ DOMAIN a1 = DOMAIN a0 /\ DOMAIN a1.dkim = DOMAIN a0.dkim
        /\ DOMAIN a1.dmarc = DOMAIN a0.dmarc /\ a1.dkim.local = dkim.status
    BY <1>1
  <2> HIDE DEF a1
  <2>3. /\ DOMAIN a2 = DOMAIN a1 /\ a2.dkim = a1.dkim
        /\ DOMAIN a2.dmarc = DOMAIN a1.dmarc /\ a2.dmarc.local = assessed
    BY <1>1, <2>2
  <2> HIDE DEF a2
  <2>4. /\ DOMAIN a3 = DOMAIN a2 /\ a3.dkim = a2.dkim
        /\ DOMAIN a3.dmarc = DOMAIN a2.dmarc /\ a3.dmarc.local = a2.dmarc.local
    BY <1>1, <2>2, <2>3
  <2> HIDE DEF a3
  <2>5. /\ DOMAIN a4 = DOMAIN a3 /\ a4.dkim = a3.dkim
        /\ a4.dmarc.local = a3.dmarc.local /\ a4.dmarc.strict = dmarc.strict
    BY <1>1, <2>2, <2>3, <2>4
  <2> HIDE DEF a4
  <2>6. a5.dkim = a4.dkim /\ a5.dmarc = a4.dmarc
    BY <1>1, <2>2, <2>3, <2>4, <2>5
  <2> HIDE DEF a5
  <2> QED
    BY <2>1, <2>2, <2>3, <2>4, <2>5, <2>6
<1>6. Checked(q, w, b, p.authentication)
  BY <1>5, Zenon DEF Checked, dkim, dmarc, assessed
<1> QED
  BY <1>1, <1>4, <1>6 DEF SameMail, q

LEMMA LeastNatural ==
  ASSUME NEW T \in SUBSET Nat, T # {}
  PROVE  \E m \in T : \A n \in T : m <= n
<1> DEFINE R == {ss \in Nat \X Nat : ss[1] < ss[2]}
<1>1. IsWellFoundedOn(R, Nat)
  BY NatLessThanWellFounded, Zenon DEF OpToRel
<1> HIDE DEF R
<1>2. PICK m \in T : \A n \in T : <<n, m>> \notin R
  BY <1>1, WFMin, Zenon
<1>3. \A n \in T : ~(n < m)
  BY <1>2 DEF R
<1> QED
  BY <1>3

\* What a table with a last resort returns: a row that holds, after none.
LEMMA FirstMatchIsARow ==
  ASSUME NEW table, NEW n \in Nat, DOMAIN table = 1..n, NEW k \in 1..n, table[k][1]
  PROVE  \E i \in 1..n : /\ table[i][1] /\ \A j \in 1..(i - 1) : ~table[j][1]
                         /\ FirstMatch(table) = table[i][2]
<1> DEFINE T == {i \in 1..n : table[i][1]}
<1>1. PICK i \in T : \A j \in T : i <= j
  <2>1. T \in SUBSET Nat /\ T # {}
    OBVIOUS
  <2> HIDE DEF T
  <2> QED
    BY <2>1, LeastNatural
<1>2. i \in 1..n /\ table[i][1] /\ \A j \in 1..(i - 1) : ~table[j][1]
  BY <1>1
<1> DEFINE Fits(x) == table[x][1] /\ \A j \in 1..(x - 1) : ~table[j][1]
           c == CHOOSE x \in DOMAIN table : Fits(x)
<1>3. c \in 1..n /\ Fits(c)
  <2>1. i \in DOMAIN table /\ Fits(i)
    BY <1>2
  <2> HIDE DEF Fits
  <2> QED
    BY <2>1
<1>4. FirstMatch(table) = table[c][2]
  BY Zenon DEF FirstMatch
<1> HIDE DEF c
<1> QED
  BY <1>3, <1>4

LEMMA StatusTable ==
  ASSUME NEW c1 \in BOOLEAN, NEW c2 \in BOOLEAN, NEW c3 \in BOOLEAN, NEW c4 \in BOOLEAN,
         NEW v, v = FirstMatch(<< <<c1, "Unavailable">>, <<c2, "FAIL">>,
                                  <<c3, "Unavailable">>, <<c4, "PASS">>,
                                  <<TRUE, "FAIL">> >>)
  PROVE  /\ v = "PASS" => ~c1 /\ ~c2 /\ ~c3 /\ c4
         /\ v = "FAIL" => ~c1 /\ (c2 \/ (~c3 /\ ~c4))
<1> DEFINE table == << <<c1, "Unavailable">>, <<c2, "FAIL">>, <<c3, "Unavailable">>,
                       <<c4, "PASS">>, <<TRUE, "FAIL">> >>
<1>1. /\ DOMAIN table = 1..5 /\ table[5][1]
      /\ table[1] = <<c1, "Unavailable">> /\ table[2] = <<c2, "FAIL">>
      /\ table[3] = <<c3, "Unavailable">> /\ table[4] = <<c4, "PASS">>
      /\ table[5] = <<TRUE, "FAIL">>
  <2>1. DOMAIN table = 1..5
    OBVIOUS
  <2>2. table[1] = <<c1, "Unavailable">>
    BY Zenon
  <2>3. table[2] = <<c2, "FAIL">>
    BY Zenon
  <2>4. table[3] = <<c3, "Unavailable">>
    BY Zenon
  <2>5. table[4] = <<c4, "PASS">>
    BY Zenon
  <2>6. table[5] = <<TRUE, "FAIL">>
    BY Zenon
  <2>7. table[5][1]
    BY <2>6, Zenon
  <2> HIDE DEF table
  <2> QED
    BY <2>1, <2>2, <2>3, <2>4, <2>5, <2>6, <2>7, Zenon
<1>2. v = FirstMatch(table)
  OBVIOUS
<1> HIDE DEF table
<1>3. PICK i \in 1..5 : /\ table[i][1] /\ \A j \in 1..(i - 1) : ~table[j][1]
                        /\ FirstMatch(table) = table[i][2]
  <2>1. 5 \in Nat /\ 5 \in 1..5
    OBVIOUS
  <2> QED
    BY <1>1, <2>1, FirstMatchIsARow, Zenon
<1>4. CASE i = 1
  BY <1>1, <1>2, <1>3, <1>4
<1>5. CASE i = 2
  BY <1>1, <1>2, <1>3, <1>5
<1>6. CASE i = 3
  BY <1>1, <1>2, <1>3, <1>6
<1>7. CASE i = 4
  BY <1>1, <1>2, <1>3, <1>7
<1>8. CASE i = 5
  BY <1>1, <1>2, <1>3, <1>8
<1> QED
  BY <1>4, <1>5, <1>6, <1>7, <1>8

\* A pass is a valid signature whose key was there; a failure one that is broken.
LEMMA StatusIsFounded ==
  ASSUME NEW s, NEW n \in Nat, NEW budget,
         s.check \in {"malformed", "error", "invalid", "valid"}
  PROVE  /\ SignatureStatus(s, n, budget) = "PASS" =>
               s.rsa /\ s.key = "published" /\ s.check = "valid"
         /\ SignatureStatus(s, n, budget) = "FAIL" =>
               s.rsa /\ (s.check = "malformed"
                         \/ (s.key = "published" /\ s.check = "invalid"))
<1> DEFINE c1 == ~s.rsa \/ n > budget
           c2 == s.check = "malformed"
           c3 == s.key # "published" \/ s.check = "error"
           c4 == s.check = "valid"
           v == SignatureStatus(s, n, budget)
<1>1. v = FirstMatch(<< <<c1, "Unavailable">>, <<c2, "FAIL">>, <<c3, "Unavailable">>,
                        <<c4, "PASS">>, <<TRUE, "FAIL">> >>)
  BY Zenon DEF SignatureStatus
<1>2. c1 \in BOOLEAN /\ c2 \in BOOLEAN /\ c3 \in BOOLEAN /\ c4 \in BOOLEAN
  OBVIOUS
<1>3. /\ v = "PASS" => ~c1 /\ ~c2 /\ ~c3 /\ c4
      /\ v = "FAIL" => ~c1 /\ (c2 \/ (~c3 /\ ~c4))
  <2> HIDE DEF c1, c2, c3, c4, v
  <2> QED
    BY <1>1, <1>2, StatusTable
<1> HIDE DEF v
<1>4. v = "PASS" => s.rsa /\ s.key = "published" /\ s.check = "valid"
  BY <1>3
<1>5. v = "FAIL" => s.rsa /\ (s.check = "malformed"
                              \/ (s.key = "published" /\ s.check = "invalid"))
  BY <1>3
<1> QED
  BY <1>4, <1>5 DEF v

\* Who is asked: nobody without DNS, and only about signatures there are.
LEMMA CheckedWhen ==
  ASSUME NEW m, NEW w, NEW b, NEW auth, Checked(Parse(m), w, b, auth)
  PROVE  /\ auth.dkim.local = "FAIL" =>
              /\ b /\ m.signatures # <<>>
              /\ OverallStatus(CheckedSignatures(m.signatures, w.budget),
                               Len(m.signatures)) = "FAIL"
         /\ auth.dmarc.local = "PASS" =>
              /\ Parse(m).singleSender
              /\ m.signatures # <<>>
              /\ AlignedSignatures(CheckedSignatures(m.signatures, w.budget),
                                   Parse(m).sender, auth.dmarc.strict) # {}
<1> DEFINE q == Parse(m)
           dkim == VerifyDkim(q, w.budget, b)
           dmarc == DmarcPolicy(q.sender, w.dmarc, b)
           checks == CheckedSignatures(m.signatures, w.budget)
<1>1. q.signatures = m.signatures
  BY DEF Parse
<1>2. \/ m.signatures = <<>> /\ dkim.status = "Not Signed" /\ dkim.signatures = <<>>
      \/ ~b /\ dkim.status = "Not Configured" /\ dkim.signatures = <<>>
      \/ /\ b /\ m.signatures # <<>> /\ dkim.signatures = checks
         /\ dkim.status = OverallStatus(checks, Len(m.signatures))
  <2> HIDE DEF checks
  <2> QED
    BY <1>1 DEF VerifyDkim, checks
<1>3. auth.dkim.local = dkim.status /\ auth.dmarc.strict = dmarc.strict
      /\ auth.dmarc.local = DmarcAssessment(q, dmarc, dkim.signatures)
  BY DEF Checked
<1> HIDE DEF dkim, dmarc, checks
<1>4. ASSUME auth.dmarc.local = "PASS"
      PROVE  q.singleSender /\ AlignedSignatures(dkim.signatures, q.sender, dmarc.strict) # {}
  <2> HIDE DEF q
  <2> QED
    BY <1>3, <1>4 DEF DmarcAssessment
<1>5. ASSUME dkim.signatures = <<>>
      PROVE  AlignedSignatures(dkim.signatures, q.sender, dmarc.strict) = {}
  BY <1>5 DEF AlignedSignatures
<1> HIDE DEF q
<1> QED
  BY <1>2, <1>3, <1>4, <1>5 DEF checks, q

\* The results of the first signatures are about them.
LEMMA ChecksAreOfSignatures ==
  ASSUME NEW m \in Messages, NEW budget
  PROVE  LET checks == CheckedSignatures(m.signatures, budget)
             n == Len(m.signatures) IN
         /\ n \in Nat /\ DOMAIN m.signatures = 1..n
         /\ \A k \in 1..n : m.signatures[k] \in Range(m.signatures)
         /\ \A s \in Range(m.signatures) : \E k \in 1..n : s = m.signatures[k]
         /\ DOMAIN checks = 1..CapAt(n, SignatureLimit)
         /\ \A k \in DOMAIN checks :
               /\ k \in 1..n
               /\ checks[k].domain = m.signatures[k].domain
               /\ checks[k].status = SignatureStatus(m.signatures[k], k, budget)
<1> DEFINE sigs == m.signatures
           n == Len(sigs)
           checks == CheckedSignatures(sigs, budget)
<1>1. sigs \in Seq(Range(sigs))
  BY MessagesAreRead
<1> HIDE DEF sigs
<1>2. n \in Nat /\ DOMAIN sigs = 1..n
  BY <1>1
<1>3. \A k \in 1..n : sigs[k] \in Range(sigs)
  BY <1>2 DEF Range
<1>4. \A s \in Range(sigs) : \E k \in 1..n : s = sigs[k]
  BY <1>2 DEF Range
<1>5. CapAt(n, SignatureLimit) \in Nat /\ CapAt(n, SignatureLimit) <= n
  BY <1>2 DEF CapAt, SignatureLimit
<1>6. checks = [k \in 1..CapAt(n, SignatureLimit) |->
                  [domain |-> sigs[k].domain,
                   status |-> SignatureStatus(sigs[k], k, budget)]]
  BY Zenon DEF CheckedSignatures
<1> HIDE DEF n, checks
<1>7. DOMAIN checks = 1..CapAt(n, SignatureLimit)
  BY <1>6
<1>8. \A k \in DOMAIN checks :
         /\ k \in 1..n
         /\ checks[k].domain = sigs[k].domain
         /\ checks[k].status = SignatureStatus(sigs[k], k, budget)
  BY <1>2, <1>5, <1>6
<1> QED
  BY <1>2, <1>3, <1>4, <1>7, <1>8 DEF n, checks, sigs

LEMMA FailureIsComplete ==
  ASSUME NEW m \in Messages, NEW p, NEW c, Worked(m, p, c),
         p.authentication.dkim.local = "FAIL"
  PROVE  /\ c.dns_enabled
         /\ \A s \in Range(m.signatures) :
               s.rsa /\ (s.check = "malformed"
                         \/ (s.key = "published" /\ s.check = "invalid"))
<1>1. PICK w \in Worlds : p = EnrichAuthentication(Parse(m), w, c.dns_enabled)
  BY DEF Worked
<1>2. Checked(Parse(m), w, c.dns_enabled, p.authentication)
  BY <1>1, ChecksKeepMail
<1> DEFINE sigs == m.signatures
           n == Len(sigs)
           checks == CheckedSignatures(sigs, w.budget)
<1>3. c.dns_enabled /\ OverallStatus(checks, n) = "FAIL"
  BY <1>2, CheckedWhen
<1>4. /\ n \in Nat
      /\ \A s \in Range(sigs) : \E k \in 1..n : s = sigs[k]
      /\ DOMAIN checks = 1..CapAt(n, SignatureLimit)
      /\ \A k \in DOMAIN checks :
            checks[k].status = SignatureStatus(sigs[k], k, w.budget)
  BY ChecksAreOfSignatures
<1>5. \A s \in Range(sigs) : s.check \in {"malformed", "error", "invalid", "valid"}
  BY MessagesAreRead
<1> HIDE DEF sigs, n, checks
<1>6. {x.status : x \in Range(checks)} = {"FAIL"} /\ n <= SignatureLimit
  BY <1>3 DEF OverallStatus
<1>7. DOMAIN checks = 1..n
  BY <1>4, <1>6 DEF CapAt, SignatureLimit
<1>8. ASSUME NEW s \in Range(sigs)
      PROVE  s.rsa /\ (s.check = "malformed"
                       \/ (s.key = "published" /\ s.check = "invalid"))
  <2>1. PICK k \in 1..n : s = sigs[k]
    BY <1>4
  <2>2. checks[k] \in Range(checks)
    BY <1>7 DEF Range
  <2>3. checks[k].status = "FAIL"
    BY <1>6, <2>2
  <2>4. SignatureStatus(s, k, w.budget) = "FAIL"
    BY <1>4, <1>7, <2>1, <2>3
  <2>5. k \in Nat
    BY <1>4
  <2> QED
    BY <1>5, <2>4, <2>5, StatusIsFounded
<1> QED
  BY <1>3, <1>8 DEF sigs

LEMMA PassIsAligned ==
  ASSUME NEW m \in Messages, NEW p, NEW c, Worked(m, p, c),
         p.authentication.dmarc.local = "PASS"
  PROVE  /\ m.fromHeaders = 1 /\ Len(m.from) = 1
         /\ \E s \in Range(m.signatures) :
               /\ s.rsa /\ s.key = "published" /\ s.check = "valid"
               /\ Registrable[s.domain] = Registrable[m.from[1]]
         /\ p.authentication.dmarc.strict =>
               \E s \in Range(m.signatures) :
                  s.check = "valid" /\ s.domain = m.from[1]
<1>1. PICK w \in Worlds : p = EnrichAuthentication(Parse(m), w, c.dns_enabled)
  BY DEF Worked
<1>2. Checked(Parse(m), w, c.dns_enabled, p.authentication)
  BY <1>1, ChecksKeepMail
<1> DEFINE sigs == m.signatures
           strict == p.authentication.dmarc.strict
           checks == CheckedSignatures(sigs, w.budget)
<1>3. Parse(m).singleSender /\ AlignedSignatures(checks, Parse(m).sender, strict) # {}
  BY <1>2, CheckedWhen
<1>4. m.fromHeaders = 1 /\ Len(m.from) = 1
  BY <1>3 DEF Parse
<1>5. Parse(m).sender = m.from[1]
  <2>1. m.from # <<>>
    <3>1. Len(<<>>) = 0
      OBVIOUS
    <3>2. m.from = <<>> => Len(m.from) = 0
      BY <3>1, Zenon
    <3> QED
      BY <1>4, <3>2
  <2>2. Parse(m).sender = FirstOrNone(m.from)
    BY DEF Parse
  <2> QED
    BY <2>1, <2>2 DEF FirstOrNone
<1>6. /\ DOMAIN checks \subseteq Nat
      /\ \A k \in DOMAIN checks :
            /\ sigs[k] \in Range(sigs)
            /\ checks[k].domain = sigs[k].domain
            /\ checks[k].status = SignatureStatus(sigs[k], k, w.budget)
  <2> DEFINE n == Len(sigs)
  <2>1. /\ n \in Nat
        /\ \A k \in 1..n : sigs[k] \in Range(sigs)
        /\ \A k \in DOMAIN checks :
              /\ k \in 1..n
              /\ checks[k].domain = sigs[k].domain
              /\ checks[k].status = SignatureStatus(sigs[k], k, w.budget)
    BY ChecksAreOfSignatures
  <2> HIDE DEF n, sigs, checks
  <2> QED
    BY <2>1
<1>7. \A s \in Range(sigs) : s.check \in {"malformed", "error", "invalid", "valid"}
  BY MessagesAreRead
<1> HIDE DEF sigs, strict, checks
<1>8. PICK k \in DOMAIN checks :
         /\ checks[k].status = "PASS"
         /\ IF strict THEN checks[k].domain = m.from[1]
            ELSE Registrable[checks[k].domain] = Registrable[m.from[1]]
  BY <1>3, <1>5 DEF AlignedSignatures
<1>9. sigs[k].rsa /\ sigs[k].key = "published" /\ sigs[k].check = "valid"
  BY <1>6, <1>7, <1>8, StatusIsFounded
<1> QED
  BY <1>4, <1>6, <1>8, <1>9 DEF sigs, strict

LEMMA FinishedData ==
  ASSUME DataInv, NEW e \in Finished
  PROVE  /\ e \in Emails /\ e \in DOMAIN analyses
         /\ message[e] \in Messages
         /\ Worked(message[e], parsed[e], config[e])
         /\ ml[e] \in Predictions
         /\ Answered(parsed[e], config[e], enrichment[e])
         /\ known[e] \subseteq Emails \ {e}
         /\ Associated(parsed[e], known[e], related[e], message)
         /\ analyses[e] = AnalysisOf(e, parsed[e], config[e], ml[e], enrichment[e],
                                     related[e])
<1>1. e \in Emails /\ stage[e] = "Completed" /\ Ready(e) /\ message[e] \in Messages
  BY DEF Finished, DataInv, Shapes
<1> QED
  BY <1>1 DEF Ready, Enriched, Predicted, LookedUp, Correlated

LEMMA AnalysisFields ==
  ASSUME NEW e, NEW p, NEW c, NEW l, NEW n, NEW r, NEW a, a = AnalysisOf(e, p, c, l, n, r)
  PROVE  /\ a.forensics = p /\ a.related = r /\ a.risk = Risk(p, l, n, c)
         /\ a.origin = OriginConfidence(p, n)
  BY DEF AnalysisOf

\* A DKIM failure counted as verified stands on a failure of every signature,
\* for every message, policy and answer of the resolver.
THEOREM VerifiedFailures == Spec => []VerifiedFailureIsComplete
<1>1. ASSUME DataInv PROVE VerifiedFailureIsComplete
  <2>1. ASSUME NEW e \in Finished, analyses[e].forensics.authentication.dkim.local = "FAIL"
        PROVE  /\ config[e].dns_enabled
               /\ \A s \in Range(message[e].signatures) :
                     s.rsa /\ (s.check = "malformed"
                               \/ (s.key = "published" /\ s.check = "invalid"))
    <3>1. /\ message[e] \in Messages /\ Worked(message[e], parsed[e], config[e])
          /\ analyses[e].forensics = parsed[e]
      BY <1>1, FinishedData, AnalysisFields
    <3> QED
      BY <2>1, <3>1, FailureIsComplete
  <2> QED
    BY <2>1 DEF VerifiedFailureIsComplete
<1> QED
  BY <1>1, DataIsTraced, PTL

\* A local DMARC pass is the sender's own organization's signature, whatever
\* else signed the message.
THEOREM DmarcPasses == Spec => []DmarcPassIsAligned
<1>1. ASSUME DataInv PROVE DmarcPassIsAligned
  <2>1. ASSUME NEW e \in Finished, analyses[e].forensics.authentication.dmarc.local = "PASS"
        PROVE  /\ message[e].fromHeaders = 1 /\ Len(message[e].from) = 1
               /\ \E s \in Range(message[e].signatures) :
                     /\ s.rsa /\ s.key = "published" /\ s.check = "valid"
                     /\ Registrable[s.domain] = Registrable[message[e].from[1]]
               /\ analyses[e].forensics.authentication.dmarc.strict =>
                     \E s \in Range(message[e].signatures) :
                        s.check = "valid" /\ s.domain = message[e].from[1]
    <3>1. /\ message[e] \in Messages /\ Worked(message[e], parsed[e], config[e])
          /\ analyses[e].forensics = parsed[e]
      BY <1>1, FinishedData, AnalysisFields
    <3> QED
      BY <2>1, <3>1, PassIsAligned
  <2> QED
    BY <2>1 DEF DmarcPassIsAligned
<1> QED
  BY <1>1, DataIsTraced, PTL

----------------------------------------------------------------------------
(* Where a message may have come from. *)

\* An address of the chain is one of a Received header, on the side it is read.
LEMMA ChainIsReceived ==
  ASSUME NEW m \in Messages, NEW n \in DOMAIN ReceivedChain(m),
         NEW k \in DOMAIN ReceivedChain(m)[n].ips
  PROVE  \E h \in Range(m.received) : \E i \in Range(h.ips) :
            /\ ReceivedChain(m)[n].ips[k].ip = i.ip
            /\ ReceivedChain(m)[n].ips[k].role = RoleOf(h, i)
<1> DEFINE hops == Reverse(m.received)
           row(x) == [hop |-> x, source_server |-> hops[x].from,
                      destination_server |-> hops[x].by, stamp |-> hops[x].stamp,
                      ips |-> [j \in DOMAIN hops[x].ips |->
                                 [ip |-> hops[x].ips[j].ip,
                                  role |-> RoleOf(hops[x], hops[x].ips[j])]]]
           chain == [x \in DOMAIN hops |-> row(x)]
<1>1. ReceivedChain(m) = chain
  BY Zenon DEF ReceivedChain
<1>2. n \in DOMAIN hops /\ ReceivedChain(m)[n] = row(n)
  <2>1. DOMAIN chain = DOMAIN hops
    BY Zenon
  <2>2. n \in DOMAIN hops
    BY <1>1, <2>1, Zenon
  <2>3. chain[n] = row(n)
    BY <2>2, Zenon
  <2> QED
    BY <1>1, <2>2, <2>3, Zenon
<1>3. hops[n] \in Range(m.received)
  <2>1. m.received \in Seq(Range(m.received))
    BY MessagesAreRead
  <2>2. DOMAIN hops = 1..Len(m.received)
    BY DEF Reverse
  <2>3. hops[n] = m.received[(Len(m.received) - n) + 1]
    BY <1>2, <2>2 DEF Reverse
  <2>4. n \in 1..Len(m.received) /\ Len(m.received) \in Nat
        /\ DOMAIN m.received = 1..Len(m.received)
    BY <1>2, <2>1, <2>2
  <2>5. (Len(m.received) - n) + 1 \in DOMAIN m.received
    BY <2>4
  <2> QED
    BY <2>3, <2>5 DEF Range
<1> DEFINE h == hops[n]
<1>4. row(n).ips = [j \in DOMAIN h.ips |-> [ip |-> h.ips[j].ip, role |-> RoleOf(h, h.ips[j])]]
  OBVIOUS
<1> HIDE DEF row, hops
<1>5. k \in DOMAIN h.ips
  BY <1>2, <1>4
<1>6. h.ips[k] \in Range(h.ips)
  BY <1>5 DEF Range
<1>7. /\ ReceivedChain(m)[n].ips[k].ip = h.ips[k].ip
      /\ ReceivedChain(m)[n].ips[k].role = RoleOf(h, h.ips[k])
  BY <1>2, <1>4, <1>5
<1> QED
  BY <1>3, <1>6, <1>7

\* What is read as the source side lies before "by" and not before "from".
LEMMA SourcesPrecedeBy ==
  ASSUME NEW h, NEW i, h.fromAt \in Nat, h.byAt \in Nat, i.offset \in Nat,
         RoleOf(h, i) = "source"
  PROVE  /\ h.byAt > 0 => i.offset < h.byAt
         /\ h.fromAt > 0 /\ h.fromAt <= i.offset
  BY DEF RoleOf

LEMMA CandidateIsSource ==
  ASSUME NEW p, Candidate(p) # None
  PROVE  /\ Candidate(p) = p.candidate
         /\ \E n \in DOMAIN p.received_chain :
               \E k \in PublicSources(p.received_chain[n].ips) :
                  p.received_chain[n].ips[k].ip = p.candidate
<1> DEFINE chain == p.received_chain
           sources == UNION {{chain[n].ips[k].ip : k \in PublicSources(chain[n].ips)} :
                               n \in DOMAIN chain}
<1>1. Candidate(p) = IF p.candidate \in sources THEN p.candidate ELSE None
  BY Zenon DEF Candidate
<1>2. p.candidate \in sources /\ Candidate(p) = p.candidate
  <2> HIDE DEF sources
  <2> QED
    BY <1>1
<1> QED
  BY <1>2

LEMMA OriginIsSource ==
  ASSUME NEW m \in Messages, NEW p, NEW c, Worked(m, p, c), Candidate(p) # None
  PROVE  \E h \in Range(m.received) : \E i \in Range(h.ips) :
            /\ i.ip = Candidate(p) /\ Public(i.ip)
            /\ h.byAt > 0 => i.offset < h.byAt
            /\ h.fromAt > 0 /\ h.fromAt <= i.offset
<1>1. p.received_chain = ReceivedChain(m)
  BY ChecksKeepMail DEF Worked, SameMail, Parse
<1> DEFINE chain == ReceivedChain(m)
<1>2. PICK n \in DOMAIN chain : \E k \in PublicSources(chain[n].ips) :
              chain[n].ips[k].ip = Candidate(p)
  BY <1>1, CandidateIsSource
<1>3. PICK k \in PublicSources(chain[n].ips) : chain[n].ips[k].ip = Candidate(p)
  BY <1>2
<1>4. /\ k \in DOMAIN chain[n].ips /\ chain[n].ips[k].role = "source"
      /\ Public(chain[n].ips[k].ip)
  BY DEF PublicSources
<1>5. PICK h \in Range(m.received) : \E i \in Range(h.ips) :
         chain[n].ips[k].ip = i.ip /\ chain[n].ips[k].role = RoleOf(h, i)
  BY <1>4, ChainIsReceived
<1>6. PICK i \in Range(h.ips) :
         chain[n].ips[k].ip = i.ip /\ chain[n].ips[k].role = RoleOf(h, i)
  BY <1>5
<1>7. h.fromAt \in Nat /\ h.byAt \in Nat /\ i.offset \in Nat
  BY MessagesAreRead
<1>8. /\ h.byAt > 0 => i.offset < h.byAt
      /\ h.fromAt > 0 /\ h.fromAt <= i.offset
  BY <1>4, <1>6, <1>7, SourcesPrecedeBy
<1> HIDE DEF chain
<1>9. i.ip = Candidate(p) /\ Public(i.ip)
  BY <1>3, <1>4, <1>6
<1> QED
  BY <1>8, <1>9

\* The candidate an analysis shows is a public address on the sending side of
\* one of the message's own Received headers, in every stored analysis.
THEOREM OriginsOnSendingSide == Spec => []OriginOnSendingSide
<1>1. ASSUME DataInv PROVE OriginOnSendingSide
  <2>1. ASSUME NEW e \in DOMAIN analyses, analyses[e].origin.candidate # None
        PROVE  \E h \in Range(message[e].received) : \E i \in Range(h.ips) :
                  /\ i.ip = analyses[e].origin.candidate /\ Public(i.ip)
                  /\ h.byAt > 0 => i.offset < h.byAt
                  /\ h.fromAt > 0 /\ h.fromAt <= i.offset
    <3>1. message[e] \in Messages /\ Traced(e, message[e], analyses[e])
      BY <1>1 DEF DataInv, Shapes
    <3>2. PICK p, c, n, r : \E l \in Predictions :
              Worked(message[e], p, c) /\ Answered(p, c, n)
              /\ analyses[e] = AnalysisOf(e, p, c, l, n, r)
      BY <3>1 DEF Traced
    <3>3. Worked(message[e], p, c) /\ analyses[e].origin = OriginConfidence(p, n)
      BY <3>2, AnalysisFields
    <3>4. OriginConfidence(p, n).candidate = Candidate(p)
      BY DEF OriginConfidence
    <3> QED
      BY <2>1, <3>1, <3>3, <3>4, OriginIsSource
  <2> QED
    BY <2>1 DEF OriginOnSendingSide
<1> QED
  BY <1>1, DataIsTraced, PTL

----------------------------------------------------------------------------
(* Leads. *)

\* What a search for leads reads of a stored analysis.
SameTraces(p, q) ==
    /\ p.iocs = q.iocs /\ p.sender = q.sender /\ p.reply_to = q.reply_to
    /\ p.message_id = q.message_id /\ p.in_reply_to = q.in_reply_to
    /\ p.references = q.references

Leads(p, q) == Queried(p, q) /\ EnoughEvidence(p, q)

LEMMA TracesDecide ==
  ASSUME NEW p, NEW q, NEW r, SameTraces(q, r)
  PROVE  /\ Leads(p, q) <=> Leads(p, r)
         /\ AssociationScore(p, q) = AssociationScore(p, r)
<1>1. /\ Indicators(q) = Indicators(r) /\ MessageIds(q) = MessageIds(r)
      /\ q.iocs = r.iocs /\ q.sender = r.sender /\ q.reply_to = r.reply_to
      /\ q.message_id = r.message_id /\ q.in_reply_to = r.in_reply_to
  BY DEF SameTraces, Indicators, MessageIds
<1>2. /\ Shared(p, q) = Shared(p, r) /\ Threads(p, q) = Threads(p, r)
      /\ SameIdentity(p, q) <=> SameIdentity(p, r)
  BY <1>1 DEF Shared, Threads, SameIdentity
<1>3. Queried(p, q) <=> Queried(p, r)
  BY <1>1 DEF Queried
<1>4. EnoughEvidence(p, q) <=> EnoughEvidence(p, r)
  <2>1. Strong(Shared(p, q)) = Strong(Shared(p, r))
    BY <1>2
  <2> QED
    BY <1>2, <2>1, Zenon DEF EnoughEvidence
<1>5. AssociationScore(p, q) = AssociationScore(p, r)
  <2>1. CASE SameIdentity(p, q)
    BY <1>2, <2>1 DEF AssociationScore, PointsIf
  <2>2. CASE ~SameIdentity(p, q)
    BY <1>2, <2>2 DEF AssociationScore, PointsIf
  <2> QED
    BY <2>1, <2>2
<1> QED
  BY <1>3, <1>4, <1>5 DEF Leads

\* The leads of a finished analysis, in terms of the messages as parsed now.
LEMMA LeadsAreOfMail ==
  ASSUME DataInv, NEW e \in Finished, NEW f \in Finished
  PROVE  /\ f \in known[e] /\ Leads(parsed[e], parsed[f]) =>
               [email |-> f, score |-> AssociationScore(parsed[e], parsed[f])] \in related[e]
         /\ \A s : [email |-> f, score |-> s] \in related[e] =>
               /\ f \in known[e] /\ Leads(parsed[e], parsed[f])
               /\ s = AssociationScore(parsed[e], parsed[f])
<1> DEFINE p == parsed[e]  q == parsed[f]
<1>1. PICK stored : /\ DOMAIN stored = known[e]
                    /\ \A o \in known[e] : \E c : Worked(message[o], stored[o], c)
                    /\ related[e] = RelatedEmails(p, stored)
  BY FinishedData DEF Associated
<1>2. ASSUME f \in known[e]
      PROVE  /\ Leads(p, stored[f]) <=> Leads(p, q)
             /\ AssociationScore(p, stored[f]) = AssociationScore(p, q)
  <2>1. SameMail(q, message[f])
    BY FinishedData, ChecksKeepMail DEF Worked
  <2>2. SameMail(stored[f], message[f])
    BY <1>1, <1>2, ChecksKeepMail DEF Worked
  <2>3. SameTraces(stored[f], q)
    BY <2>1, <2>2 DEF SameMail, SameTraces
  <2> HIDE DEF p, q
  <2> QED
    BY <2>3, TracesDecide
<1> HIDE DEF p, q
<1>3. related[e] = {[email |-> o, score |-> AssociationScore(p, stored[o])] :
                       o \in {x \in known[e] : Leads(p, stored[x])}}
  BY <1>1, Zenon DEF RelatedEmails, Leads
<1>4. /\ f \in known[e] /\ Leads(p, q) =>
           [email |-> f, score |-> AssociationScore(p, q)] \in related[e]
      /\ \A s : [email |-> f, score |-> s] \in related[e] =>
           f \in known[e] /\ Leads(p, q) /\ s = AssociationScore(p, q)
  <2>1. ASSUME f \in known[e], Leads(p, q)
        PROVE  [email |-> f, score |-> AssociationScore(p, q)] \in related[e]
    BY <1>2, <1>3, <2>1
  <2>2. ASSUME NEW s, [email |-> f, score |-> s] \in related[e]
        PROVE  f \in known[e] /\ Leads(p, q) /\ s = AssociationScore(p, q)
    <3>1. PICK o \in known[e] : /\ Leads(p, stored[o])
                                /\ [email |-> f, score |-> s]
                                     = [email |-> o, score |-> AssociationScore(p, stored[o])]
      BY <1>3, <2>2
    <3>2. f = o /\ s = AssociationScore(p, stored[o])
      BY <3>1
    <3> QED
      BY <1>2, <3>1, <3>2
  <2> QED
    BY <2>1, <2>2
<1> QED
  BY <1>4 DEF p, q

\* Sharing is symmetric.
LEMMA SharingIsMutual ==
  ASSUME NEW p, NEW q
  PROVE  /\ Shared(p, q) = Shared(q, p) /\ Threads(p, q) = Threads(q, p)
         /\ SameIdentity(p, q) <=> SameIdentity(q, p)
         /\ EnoughEvidence(p, q) <=> EnoughEvidence(q, p)
         /\ AssociationScore(p, q) = AssociationScore(q, p)
<1>1. /\ Shared(p, q) = Shared(q, p) /\ Threads(p, q) = Threads(q, p)
      /\ SameIdentity(p, q) <=> SameIdentity(q, p)
  BY DEF Shared, Threads, SameIdentity
<1>2. EnoughEvidence(p, q) <=> EnoughEvidence(q, p)
  <2>1. Strong(Shared(p, q)) = Strong(Shared(q, p))
    BY <1>1
  <2> QED
    BY <1>1, <2>1, Zenon DEF EnoughEvidence
<1>3. AssociationScore(p, q) = AssociationScore(q, p)
  <2>1. CASE SameIdentity(p, q)
    BY <1>1, <2>1 DEF AssociationScore, PointsIf
  <2>2. CASE ~SameIdentity(p, q)
    BY <1>1, <2>2 DEF AssociationScore, PointsIf
  <2> QED
    BY <2>1, <2>2
<1> QED
  BY <1>1, <1>2, <1>3

\* An indicator of a message is a kind and a value.
LEMMA IndicatorsAreRows ==
  ASSUME NEW m, NEW i \in Parse(m).iocs
  PROVE  i = [type |-> i.type, value |-> i.value]
         /\ i.type \in {"domain", "ip", "url", "hash"}
<1>1. \E ch, id, d : i \in Iocs(m, ch, id, d)
  BY DEF Parse
<1> QED
  BY <1>1 DEF Iocs

LEMMA MutualLeads ==
  ASSUME NEW m \in Messages, NEW o \in Messages, NEW p, NEW q,
         SameMail(p, m), SameMail(q, o),
         Threads(p, q) = {}, ~SpelledAlike(p, q), Leads(p, q)
  PROVE  Leads(q, p)
<1>1. EnoughEvidence(q, p)
  BY SharingIsMutual DEF Leads
<1>2. CASE Strong(Shared(p, q)) # {}
  <2>1. PICK i \in Strong(Shared(p, q)) : TRUE
    BY <1>2
  <2>2. i \in Indicators(q) /\ i.type \in {"url", "hash"} /\ i \in p.iocs
    BY DEF Strong, Shared, Indicators
  <2>3. Queried(q, p)
    BY <2>2 DEF Queried
  <2> QED
    BY <1>1, <2>3 DEF Leads
<1>3. CASE Strong(Shared(p, q)) = {}
  <2>1. {"domain", "ip"} \subseteq Kinds(Shared(p, q))
    <3>1. Cardinality(Strong(Shared(p, q))) = 0
      BY <1>3, FS_EmptySet
    <3>2. "hash" \notin Kinds(Strong(Shared(p, q)))
      BY <1>3 DEF Kinds
    <3> QED
      BY <1>3, <3>1, <3>2 DEF Leads, EnoughEvidence
  <2>2. p.sender # None /\ p.sender = q.sender
    <3>1. {q.message_id, q.in_reply_to} \cap MessageIds(p) = {}
      <4>1. None \notin p.references
        BY MessagesAreRead DEF SameMail
      <4> QED
        BY <4>1 DEF Threads, MessageIds
    <3>2. ASSUME NEW i \in Indicators(p), i.type \in {"url", "hash"},
                 NEW j \in q.iocs, i.value = j.value
          PROVE  FALSE
      <4>1. i \in p.iocs /\ i.value # EmptyHash
        BY DEF Indicators
      <4>2. i.type = j.type
        <5>1. i \in Strong({i, j})
          BY <3>2 DEF Strong
        <5> QED
          BY <3>2, <4>1, <5>1 DEF SpelledAlike
      <4>3. i = j
        <5>1. i = [type |-> i.type, value |-> i.value] /\ j = [type |-> j.type, value |-> j.value]
          BY <4>1, IndicatorsAreRows DEF SameMail
        <5> QED
          BY <3>2, <4>2, <5>1
      <4>4. i \in Strong(Shared(p, q))
        BY <3>2, <4>1, <4>3 DEF Strong, Shared, Indicators
      <4> QED
        BY <1>3, <4>4
    <3> QED
      BY <3>1, <3>2 DEF Leads, Queried
  <2>3. PICK i \in Shared(p, q) : i.type = "ip"
    BY <2>1 DEF Kinds
  <2>4. i \in Indicators(q) /\ i \in p.iocs
    BY DEF Shared, Indicators
  <2>5. Queried(q, p)
    BY <2>2, <2>3, <2>4 DEF Queried
  <2> QED
    BY <1>1, <2>5 DEF Leads
<1> QED
  BY <1>2, <1>3

\* Two analyses that saw each other report the same lead with the same strength.
THEOREM LeadsAreShared == Spec => []LeadsAreMutual
<1>1. ASSUME DataInv PROVE LeadsAreMutual
  <2>1. ASSUME NEW e \in Finished, NEW f \in Finished, e \in known[f], f \in known[e],
               Threads(parsed[e], parsed[f]) = {}, ~SpelledAlike(parsed[e], parsed[f]),
               NEW s \in 0..100
        PROVE  ([email |-> f, score |-> s] \in analyses[e].related)
                 <=> ([email |-> e, score |-> s] \in analyses[f].related)
    <3> DEFINE p == parsed[e]  q == parsed[f]
    <3>1. analyses[e].related = related[e] /\ analyses[f].related = related[f]
      BY <1>1, FinishedData, AnalysisFields
    <3>2. /\ message[e] \in Messages /\ SameMail(p, message[e])
          /\ message[f] \in Messages /\ SameMail(q, message[f])
      BY <1>1, FinishedData, ChecksKeepMail DEF Worked
    <3>3. Leads(p, q) <=> Leads(q, p)
      <4>1. ASSUME Leads(p, q) PROVE Leads(q, p)
        BY <2>1, <3>2, <4>1, MutualLeads
      <4>2. ASSUME Leads(q, p) PROVE Leads(p, q)
        <5>1. Threads(q, p) = {} /\ ~SpelledAlike(q, p)
          <6>1. \A i, j : Strong({i, j}) = Strong({j, i})
            BY DEF Strong
          <6> QED
            BY <2>1, <6>1, SharingIsMutual DEF SpelledAlike
        <5> QED
          BY <3>2, <4>2, <5>1, MutualLeads
      <4> QED
        BY <4>1, <4>2
    <3>4. AssociationScore(p, q) = AssociationScore(q, p)
      BY SharingIsMutual
    <3>5. ([email |-> f, score |-> s] \in related[e])
            <=> (Leads(p, q) /\ s = AssociationScore(p, q))
      BY <1>1, <2>1, LeadsAreOfMail
    <3>6. ([email |-> e, score |-> s] \in related[f])
            <=> (Leads(q, p) /\ s = AssociationScore(q, p))
      BY <1>1, <2>1, LeadsAreOfMail
    <3> QED
      BY <3>1, <3>3, <3>4, <3>5, <3>6
  <2> QED
    BY <2>1 DEF LeadsAreMutual
<1> QED
  BY <1>1, DataIsTraced, PTL

\* Two messages with the same attachment are linked from one side at least,
\* unless neither saw the other's analysis.
THEOREM SharedFilesAreLeads == Spec => []SharedFileIsALead
<1>1. ASSUME DataInv PROVE SharedFileIsALead
  <2>1. ASSUME NEW e \in Finished, NEW f \in Finished, f \in known[e],
               NEW i \in Shared(parsed[e], parsed[f]), i.type = "hash"
        PROVE  \E l \in analyses[e].related : l.email = f
    <3> DEFINE p == parsed[e]  q == parsed[f]
               lead == [email |-> f, score |-> AssociationScore(p, q)]
    <3>1. Queried(p, q)
      BY <2>1 DEF Queried, Shared, Indicators
    <3>2. EnoughEvidence(p, q)
      <4>1. i \in Strong(Shared(p, q))
        BY <2>1 DEF Strong
      <4>2. "hash" \in Kinds(Strong(Shared(p, q)))
        BY <2>1, <4>1 DEF Kinds
      <4> QED
        BY <4>2 DEF EnoughEvidence
    <3>3. lead \in related[e]
      BY <1>1, <2>1, <3>1, <3>2, LeadsAreOfMail DEF Leads
    <3>4. analyses[e].related = related[e]
      BY <1>1, FinishedData, AnalysisFields
    <3> QED
      BY <3>3, <3>4
  <2>2. ASSUME NEW e \in Finished, NEW f \in Finished, NEW i \in Shared(parsed[e], parsed[f]),
               i.type = "hash", ~(e \notin known[f] /\ f \notin known[e])
        PROVE  \/ \E l \in analyses[e].related : l.email = f
               \/ \E l \in analyses[f].related : l.email = e
    <3>1. i \in Shared(parsed[f], parsed[e])
      BY SharingIsMutual
    <3> QED
      BY <2>1, <2>2, <3>1
  <2> QED
    BY <2>2 DEF SharedFileIsALead
<1> QED
  BY <1>1, DataIsTraced, PTL

----------------------------------------------------------------------------
(* Arithmetic of the score. *)

LEMMA Caps ==
  ASSUME NEW x \in Int, NEW y \in Int
  PROVE  /\ CapAt(x, y) \in Int /\ CapAt(x, y) <= x /\ CapAt(x, y) <= y
         /\ CapAt(x, y) = x \/ CapAt(x, y) = y
         /\ AtLeast(x, y) \in Int /\ AtLeast(x, y) >= x /\ AtLeast(x, y) >= y
         /\ AtLeast(x, y) = x \/ AtLeast(x, y) = y
  BY DEF CapAt, AtLeast

\* Rounding moves a score by half a point, keeps whole scores and keeps order.
LEMMA Rounding ==
  ASSUME NEW h \in Nat
  PROVE  /\ RoundHalfEven(h) \in Nat
         /\ 100 * RoundHalfEven(h) - h \in -50..50
         /\ \A k \in Nat : 100 * k <= h => k <= RoundHalfEven(h)
         /\ \A k \in Nat : h <= 100 * k => RoundHalfEven(h) <= k
<1> DEFINE whole == h \div 100
           rest == h % 100
<1>1. whole \in Nat /\ rest \in 0..99 /\ h = 100 * whole + rest
  OBVIOUS
<1>2. whole % 2 = 1 \/ whole % 2 # 1
  OBVIOUS
<1>3. \/ RoundHalfEven(h) = whole + 1 /\ rest >= 50
      \/ RoundHalfEven(h) = whole /\ rest <= 50
  <2>1. RoundHalfEven(h) = IF rest > 50 \/ (rest = 50 /\ whole % 2 = 1)
                           THEN whole + 1 ELSE whole
    BY Zenon DEF RoundHalfEven
  <2> HIDE DEF whole, rest
  <2> QED
    BY <1>1, <2>1
<1> HIDE DEF whole, rest
<1> QED
  BY <1>1, <1>3

LEMMA RoundingKeepsOrder ==
  ASSUME NEW g \in Nat, NEW h \in Nat, g <= h
  PROVE  RoundHalfEven(g) <= RoundHalfEven(h)
<1> DEFINE a == g \div 100  b == h \div 100  r == g % 100  s == h % 100
<1>1. /\ a \in Nat /\ r \in 0..99 /\ g = 100 * a + r
      /\ b \in Nat /\ s \in 0..99 /\ h = 100 * b + s
  OBVIOUS
<1>2. RoundHalfEven(g) = IF r > 50 \/ (r = 50 /\ a % 2 = 1) THEN a + 1 ELSE a
  BY Zenon DEF RoundHalfEven
<1>3. RoundHalfEven(h) = IF s > 50 \/ (s = 50 /\ b % 2 = 1) THEN b + 1 ELSE b
  BY Zenon DEF RoundHalfEven
<1> HIDE DEF a, b, r, s
<1>4. CASE a = b
  BY <1>1, <1>2, <1>3, <1>4
<1>5. CASE a # b
  BY <1>1, <1>2, <1>3, <1>5
<1> QED
  BY <1>4, <1>5

\* A contribution is within its weight and grows with the strength.
LEMMA PointsWithinWeight ==
  ASSUME NEW w \in 0..100, NEW s \in 0..One
  PROVE  /\ Points(w, s) \in Nat /\ Points(w, s) <= 100 * w
         /\ \A t \in 0..s : Points(w, t) <= Points(w, s)
<1>1. w * s \in Nat /\ w * s <= w * 10000
  BY DEF One
<1> DEFINE x == w * s
<1>2. Points(w, s) = (x + 50) \div 100
  BY DEF Points
<1> HIDE DEF x
<1>3. x \in Nat /\ x <= 10000 * w
  BY <1>1 DEF x
<1>4. Points(w, s) \in Nat /\ Points(w, s) <= 100 * w
  BY <1>2, <1>3
<1>5. ASSUME NEW t \in 0..s PROVE Points(w, t) <= Points(w, s)
  <2> DEFINE y == w * t
  <2>1. y \in Nat /\ y <= x
    BY DEF One, x
  <2>2. Points(w, t) = (y + 50) \div 100
    BY DEF Points
  <2> HIDE DEF y
  <2> QED
    BY <1>2, <1>3, <2>1, <2>2
<1> QED
  BY <1>4, <1>5

\* A bounded set of naturals has the greatest element that Greatest() takes.
LEMMA GreatestOfBounded ==
  ASSUME NEW S \in SUBSET Nat, NEW b \in Nat, \A x \in S : x <= b
  PROVE  /\ Greatest(S) \in Nat /\ Greatest(S) <= b
         /\ \A x \in S : x <= Greatest(S)
         /\ S # {} => Greatest(S) \in S
<1>1. CASE S = {}
  BY <1>1 DEF Greatest
<1>2. CASE S # {}
  <2> DEFINE T == {b - x : x \in S}
  <2>1. T \in SUBSET Nat /\ T # {}
    <3>1. \A x \in S : b - x \in Nat
      OBVIOUS
    <3> QED
      BY <1>2, <3>1
  <2>2. PICK y \in T : \A z \in T : y <= z
    <3> HIDE DEF T
    <3> QED
      BY <2>1, LeastNatural
  <2>3. PICK g \in S : y = b - g
    OBVIOUS
  <2>4. \A x \in S : x <= g
    <3> TAKE x \in S
    <3>1. b - x \in T
      OBVIOUS
    <3>2. b - g <= b - x
      BY <2>2, <2>3, <3>1
    <3>3. g \in Nat /\ x \in Nat
      OBVIOUS
    <3> QED
      BY <3>2, <3>3
  <2>5. Greatest(S) \in S /\ \A x \in S : x <= Greatest(S)
    BY <1>2, <2>4 DEF Greatest
  <2> QED
    BY <2>5
<1> QED
  BY <1>1, <1>2

\* Sums over the seven categories, and finite sets written out.
LEMMA PairIsFinite == ASSUME NEW a, NEW b PROVE IsFiniteSet({a, b})
<1>1. IsFiniteSet({a}) /\ {a, b} = {a} \cup {b}
  BY FS_Singleton
<1>2. IsFiniteSet({a} \cup {b})
  BY <1>1, FS_AddElement
<1> QED
  BY <1>1, <1>2

LEMMA SevenAreFinite ==
  ASSUME NEW a, NEW b, NEW c, NEW d, NEW e, NEW f, NEW g
  PROVE  IsFiniteSet({a, b, c, d, e, f, g})
<1>1. IsFiniteSet({a, b})
  BY PairIsFinite
<1>2. IsFiniteSet({c, d})
  BY PairIsFinite
<1>3. IsFiniteSet({e, f})
  BY PairIsFinite
<1>4. IsFiniteSet({a, b} \cup {c, d})
  BY <1>1, <1>2, FS_Union, Zenon
<1>5. IsFiniteSet({e, f} \cup {g})
  BY <1>3, FS_Singleton, FS_Union, Zenon
<1>6. IsFiniteSet(({a, b} \cup {c, d}) \cup ({e, f} \cup {g}))
  BY <1>4, <1>5, FS_Union, Zenon
<1>7. ({a, b} \cup {c, d}) \cup ({e, f} \cup {g}) = {a, b, c, d, e, f, g}
  OBVIOUS
<1> QED
  BY <1>6, <1>7, Zenon

LEMMA SumOfCategories ==
  ASSUME NEW w, DOMAIN w = Categories, \A k \in Categories : w[k] \in Int
  PROVE  SumFunction(w) = Total(w)
<1> DEFINE Sum(S) == SumFunctionOnSet(w, S)
<1>1. IsFiniteSet(Categories)
  BY SevenAreFinite DEF Categories
<1>2. \A S \in SUBSET Categories : IsFiniteSet(S) /\ \A x \in S : w[x] \in Int
  BY <1>1, FS_Subset
<1>3. ASSUME NEW S \in SUBSET Categories, NEW x \in S
      PROVE  Sum(S) = w[x] + Sum(S \ {x})
  BY <1>2, SumTake
<1>4. Sum({}) = 0
  BY SumOfNothing
<1>5. SumFunction(w) = Sum(Categories)
  BY Zenon DEF SumFunction
<1> HIDE DEF Sum
<1> DEFINE C1 == {"authentication"}  C2 == C1 \cup {"sender_identity"}
           C3 == C2 \cup {"url"}  C4 == C3 \cup {"attachment"}
           C5 == C4 \cup {"headers"}  C6 == C5 \cup {"intelligence"}
           C7 == C6 \cup {"ai"}
<1>6. /\ C7 = Categories /\ C7 \ {"ai"} = C6 /\ C6 \ {"intelligence"} = C5
      /\ C5 \ {"headers"} = C4 /\ C4 \ {"attachment"} = C3 /\ C3 \ {"url"} = C2
      /\ C2 \ {"sender_identity"} = C1 /\ C1 \ {"authentication"} = {}
  BY DEF Categories
<1>7. /\ {C1, C2, C3, C4, C5, C6, C7} \subseteq SUBSET Categories
      /\ "authentication" \in C1 /\ "sender_identity" \in C2 /\ "url" \in C3
      /\ "attachment" \in C4 /\ "headers" \in C5 /\ "intelligence" \in C6 /\ "ai" \in C7
  BY DEF Categories
<1> HIDE DEF C1, C2, C3, C4, C5, C6, C7
<1>8. /\ Sum(C7) = w["ai"] + Sum(C6) /\ Sum(C6) = w["intelligence"] + Sum(C5)
      /\ Sum(C5) = w["headers"] + Sum(C4) /\ Sum(C4) = w["attachment"] + Sum(C3)
      /\ Sum(C3) = w["url"] + Sum(C2) /\ Sum(C2) = w["sender_identity"] + Sum(C1)
      /\ Sum(C1) = w["authentication"] + 0
  <2>1. Sum(C7) = w["ai"] + Sum(C6)
    BY <1>3, <1>6, <1>7
  <2>2. Sum(C6) = w["intelligence"] + Sum(C5)
    BY <1>3, <1>6, <1>7
  <2>3. Sum(C5) = w["headers"] + Sum(C4)
    BY <1>3, <1>6, <1>7
  <2>4. Sum(C4) = w["attachment"] + Sum(C3)
    BY <1>3, <1>6, <1>7
  <2>5. Sum(C3) = w["url"] + Sum(C2)
    BY <1>3, <1>6, <1>7
  <2>6. Sum(C2) = w["sender_identity"] + Sum(C1)
    BY <1>3, <1>6, <1>7
  <2>7. Sum(C1) = w["authentication"] + 0
    BY <1>3, <1>4, <1>6, <1>7
  <2> QED
    BY <2>1, <2>2, <2>3, <2>4, <2>5, <2>6, <2>7
<1>9. \A k \in {"authentication", "sender_identity", "url", "attachment", "headers",
                "intelligence", "ai"} : w[k] \in Int
  BY DEF Categories
<1> QED
  BY <1>5, <1>6, <1>8, <1>9 DEF Total

\* What the contributions add up to, for strengths within bounds.
Within(strengths) == \A k \in Categories : strengths[k] \in 0..One

LEMMA WeightedIsTotal ==
  ASSUME NEW c \in Configs, NEW strengths, Within(strengths)
  PROVE  /\ \A k \in Categories : /\ c.weights[k] \in 0..100
                                  /\ Contributions(strengths, c)[k]
                                        = Points(c.weights[k], strengths[k])
                                  /\ Contributions(strengths, c)[k] \in Nat
         /\ Total(Contributions(strengths, c)) \in 0..Full
         /\ Weighted(strengths, c) = Total(Contributions(strengths, c))
<1>1. /\ c.weights \in [Categories -> 0..100] /\ SumFunction(c.weights) = 100
  BY PoliciesAreAccepted DEF AcceptedPolicy
<1> DEFINE w == c.weights
           points == Contributions(strengths, c)
<1>2. Total(w) = 100
  <2>1. DOMAIN w = Categories /\ \A k \in Categories : w[k] \in Int
    BY <1>1
  <2> QED
    BY <1>1, <2>1, SumOfCategories
<1>3. ASSUME NEW k \in Categories
      PROVE  /\ w[k] \in 0..100 /\ points[k] = Points(w[k], strengths[k])
             /\ points[k] \in Nat /\ points[k] <= 100 * w[k]
  <2>1. w[k] \in 0..100 /\ strengths[k] \in 0..One
    BY <1>1 DEF Within
  <2>2. points[k] = Points(w[k], strengths[k])
    BY DEF Contributions
  <2> QED
    BY <2>1, <2>2, PointsWithinWeight
<1>4. Total(points) \in 0..Full
  <2> DEFINE Fits(k) == w[k] \in 0..100 /\ points[k] \in Nat /\ points[k] <= 100 * w[k]
  <2>1. \A k \in Categories : Fits(k)
    BY <1>3
  <2> HIDE DEF w, points
  <2>2. /\ Fits("authentication") /\ Fits("sender_identity") /\ Fits("url")
        /\ Fits("attachment") /\ Fits("headers") /\ Fits("intelligence") /\ Fits("ai")
    <3> HIDE DEF Fits
    <3> QED
      BY <2>1 DEF Categories
  <2> DEFINE t == Total(points)
  <2>3. t = points["authentication"] + points["sender_identity"] + points["url"]
            + points["attachment"] + points["headers"] + points["intelligence"]
            + points["ai"]
    BY DEF Total
  <2>4. 100 = w["authentication"] + w["sender_identity"] + w["url"]
              + w["attachment"] + w["headers"] + w["intelligence"] + w["ai"]
    BY <1>2 DEF Total
  <2> HIDE DEF t
  <2> DEFINE a == w["authentication"]  p == points["authentication"]
             b == w["sender_identity"]  q == points["sender_identity"]
             d == w["url"]  r == points["url"]
             e == w["attachment"]  s == points["attachment"]
             f == w["headers"]  u == points["headers"]
             g == w["intelligence"]  v == points["intelligence"]
             h == w["ai"]  x == points["ai"]
  <2>5. /\ a \in 0..100 /\ p \in Nat /\ p <= 100 * a
        /\ b \in 0..100 /\ q \in Nat /\ q <= 100 * b
        /\ d \in 0..100 /\ r \in Nat /\ r <= 100 * d
        /\ e \in 0..100 /\ s \in Nat /\ s <= 100 * e
        /\ f \in 0..100 /\ u \in Nat /\ u <= 100 * f
        /\ g \in 0..100 /\ v \in Nat /\ v <= 100 * g
        /\ h \in 0..100 /\ x \in Nat /\ x <= 100 * h
    BY <2>2
  <2>6. t = p + q + r + s + u + v + x /\ a + b + d + e + f + g + h = 100
    BY <2>3, <2>4
  <2> HIDE DEF a, b, d, e, f, g, h, p, q, r, s, u, v, x
  <2>7. t \in 0..10000
    BY <2>5, <2>6
  <2> QED
    BY <2>7 DEF t, Full
<1>5. Weighted(strengths, c) = Total(points)
  <2>1. Weighted(strengths, c) = CapAt(Total(points), Full)
    BY Zenon DEF Weighted
  <2> DEFINE t == Total(points)
  <2>2. t \in 0..10000 /\ Weighted(strengths, c) = CapAt(t, 10000)
    BY <1>4, <2>1 DEF Full
  <2> HIDE DEF t
  <2>3. CapAt(t, 10000) = t
    BY <2>2 DEF CapAt
  <2> QED
    BY <2>2, <2>3 DEF t
<1> QED
  BY <1>3, <1>4, <1>5

----------------------------------------------------------------------------
(* What the providers claim. *)

\* The answers of an enrichment count in numbers.
Sound(n) ==
    \A a \in Available(AnswersIn(n)) : a.provider = "virustotal" =>
        a.result.malicious \in Nat /\ a.result.total \in Nat

Claimants == {"virustotal", "abuseipdb", "greynoise"}

LEMMA ClaimsAreBounded ==
  ASSUME NEW a, ClaimStrength(a) > 0,
         a.provider = "virustotal" => a.result.malicious \in Nat /\ a.result.total \in Nat
  PROVE  a.provider \in Claimants /\ ClaimStrength(a) \in 1..3500
<1>1. CASE a.provider = "virustotal"
  <2> DEFINE m == a.result.malicious
             total == IF a.result.total < 1 THEN 1 ELSE a.result.total
             x == 400 * m + (1500 * m) \div total
  <2>1. m \in Nat /\ total \in Nat \ {0}
    BY <1>1
  <2>2. ClaimStrength(a) = IF x < 3500 THEN x ELSE 3500
    BY <1>1 DEF ClaimStrength
  <2>3. x \in Int
    <3> HIDE DEF m, total
    <3> QED
      BY <2>1
  <2>4. (IF x < 3500 THEN x ELSE 3500) > 0
    BY <2>2
  <2>5. (IF x < 3500 THEN x ELSE 3500) \in 1..3500
    <3> HIDE DEF x
    <3> QED
      BY <2>3, <2>4
  <2>6. a.provider \in Claimants
    BY <1>1 DEF Claimants
  <2> HIDE DEF x
  <2> QED
    BY <2>2, <2>5, <2>6
<1>2. CASE a.provider = "abuseipdb"
  BY <1>2 DEF ClaimStrength, Claimants
<1>3. CASE a.provider = "greynoise"
  BY <1>3 DEF ClaimStrength, Claimants
<1>4. CASE a.provider \notin Claimants
  <2>1. a.provider # "virustotal" /\ a.provider # "abuseipdb" /\ a.provider # "greynoise"
    BY <1>4 DEF Claimants
  <2>2. ClaimStrength(a) = 0
    BY <2>1, Zenon DEF ClaimStrength
  <2> QED
    BY <2>2
<1> QED
  BY <1>1, <1>2, <1>3, <1>4 DEF Claimants

Accusers(n) == {b.provider : b \in MaliciousSignals(n)}
Claims(n, p) == {s.strength : s \in {b \in MaliciousSignals(n) : b.provider = p}}

LEMMA SignalsAreBounded ==
  ASSUME NEW n, Sound(n)
  PROVE  /\ Accusers(n) \subseteq Claimants
         /\ \A p : Claims(n, p) \subseteq 1..3500
<1>1. ASSUME NEW b \in MaliciousSignals(n)
      PROVE  b.provider \in Claimants /\ b.strength \in 1..3500
  <2>1. PICK a \in Available(AnswersIn(n)) :
            ClaimStrength(a) > 0 /\ b = [provider |-> a.provider, strength |-> ClaimStrength(a)]
    BY <1>1 DEF MaliciousSignals
  <2>2. a.provider = "virustotal" => a.result.malicious \in Nat /\ a.result.total \in Nat
    BY DEF Sound
  <2>3. a.provider \in Claimants /\ ClaimStrength(a) \in 1..3500
    BY <2>1, <2>2, ClaimsAreBounded
  <2> QED
    BY <2>1, <2>3
<1> QED
  BY <1>1 DEF Accusers, Claims

\* Without some of the answers the providers weigh no more.
LEMMA IntelligenceGrows ==
  ASSUME NEW n, NEW k, Sound(n),
         Available(AnswersIn(k)) \subseteq Available(AnswersIn(n))
  PROVE  /\ IntelligenceStrength(n) \in Nat /\ IntelligenceStrength(k) \in Nat
         /\ IntelligenceStrength(k) <= IntelligenceStrength(n)
<1>1. Sound(k)
  BY DEF Sound
<1> DEFINE F(e) == [p \in Accusers(e) |-> ProviderStrength(Claims(e, p))]
<1>2. \A e : /\ IntelligenceStrength(e) = SumFunctionOnSet(F(e), DOMAIN F(e))
             /\ DOMAIN F(e) = Accusers(e)
  BY Zenon DEF IntelligenceStrength, Accusers, Claims, SumFunction
<1>3. \A e : \A p \in Accusers(e) : F(e)[p] = ProviderStrength(Claims(e, p))
  OBVIOUS
<1> HIDE DEF F
<1>4. MaliciousSignals(k) \subseteq MaliciousSignals(n)
  BY DEF MaliciousSignals
<1>5. Accusers(k) \in SUBSET Accusers(n) /\ \A p : Claims(k, p) \subseteq Claims(n, p)
  BY <1>4 DEF Accusers, Claims
<1>6. IsFiniteSet(Accusers(n)) /\ IsFiniteSet(Accusers(k))
  <2>1. IsFiniteSet({"virustotal", "abuseipdb"} \cup {"greynoise"})
    BY PairIsFinite, FS_AddElement
  <2>2. Accusers(n) \in SUBSET ({"virustotal", "abuseipdb"} \cup {"greynoise"})
    BY SignalsAreBounded DEF Claimants
  <2>3. IsFiniteSet(Accusers(n))
    BY <2>1, <2>2, FS_Subset
  <2> QED
    BY <1>5, <2>3, FS_Subset
<1>7. ASSUME NEW p
      PROVE  /\ Greatest(Claims(n, p)) \in Nat /\ Greatest(Claims(k, p)) \in Nat
             /\ Greatest(Claims(k, p)) <= Greatest(Claims(n, p))
  <2>1. /\ Claims(n, p) \in SUBSET Nat /\ Claims(k, p) \in SUBSET Nat /\ 3500 \in Nat
        /\ \A x \in Claims(n, p) : x <= 3500
        /\ \A x \in Claims(k, p) : x <= 3500
    <3>1. ASSUME NEW x \in Claims(n, p) PROVE x \in Nat /\ x <= 3500
      <4>1. x \in 1..3500
        BY SignalsAreBounded
      <4> QED
        BY <4>1
    <3>2. Claims(k, p) \subseteq Claims(n, p)
      BY <1>5
    <3> QED
      BY <3>1, <3>2
  <2>2. Greatest(Claims(n, p)) \in Nat /\ \A x \in Claims(n, p) : x <= Greatest(Claims(n, p))
    BY <2>1, GreatestOfBounded
  <2>3. /\ Greatest(Claims(k, p)) \in Nat
        /\ Claims(k, p) # {} => Greatest(Claims(k, p)) \in Claims(k, p)
    BY <2>1, GreatestOfBounded
  <2>4. Claims(k, p) = {} => Greatest(Claims(k, p)) = 0
    BY DEF Greatest
  <2> QED
    BY <1>5, <2>2, <2>3, <2>4
<1>8. /\ \A p \in Accusers(n) : F(n)[p] \in Nat
      /\ \A p \in Accusers(k) : F(k)[p] \in Nat /\ F(k)[p] <= F(n)[p]
  BY <1>3, <1>5, <1>7 DEF ProviderStrength
<1>9. /\ SumFunctionOnSet(F(n), Accusers(n)) \in Nat
      /\ SumFunctionOnSet(F(k), Accusers(k)) <= SumFunctionOnSet(F(n), Accusers(n))
  BY <1>5, <1>6, <1>8, SumGrows
<1>10. SumFunctionOnSet(F(k), Accusers(k)) \in Nat
  BY <1>6, <1>8, SumGrows
<1> QED
  BY <1>2, <1>9, <1>10

----------------------------------------------------------------------------
(* Strengths. *)

LEMMA SignalsAreFinite == IsFiniteSet(UrlSignals)
<1> DEFINE A == {"unencrypted_http", "ip_hostname", "shortener", "review_tld",
                 "subdomains", "long_url", "url_userinfo"}
           B == {"encoding", "internationalized_domain", "credential_keywords",
                 "redirect_parameter", "display_href_mismatch",
                 "sender_link_domain_mismatch", "lookalike_domain"}
<1>1. IsFiniteSet(A \cup B)
  BY SevenAreFinite, FS_Union, Zenon
<1>2. UrlSignals = A \cup B
  BY DEF UrlSignals, SignalStrength
<1> QED
  BY <1>1, <1>2, Zenon

LEMMA UrlsAreBounded ==
  ASSUME NEW m \in Messages, NEW u \in Parse(m).urls
  PROVE  UrlStrength(u) \in 0..One
<1>1. PICK x \in m.urls : u = AnalyzeUrl(x, FirstOrNone(m.from))
  BY DEF Parse
<1>2. u.signals \subseteq UrlSignals /\ u.flags = Cardinality(u.signals)
  <2>1. x.traits \subseteq UrlSignals
    BY MessagesAreRead
  <2>2. {"ip_hostname", "display_href_mismatch", "sender_link_domain_mismatch",
         "lookalike_domain"} \subseteq UrlSignals
    BY DEF UrlSignals, SignalStrength
  <2> QED
    BY <1>1, <2>1, <2>2 DEF AnalyzeUrl
<1>3. IsFiniteSet(u.signals)
  BY <1>2, SignalsAreFinite, FS_Subset
<1>4. SumOfSignals(u) \in Nat
  <2>1. \A s \in UrlSignals : SignalStrength[s] \in Nat
    BY DEF UrlSignals, SignalStrength
  <2>2. \A s \in u.signals : SignalStrength[s] \in Nat /\ SignalStrength[s] <= SignalStrength[s]
    BY <1>2, <2>1
  <2>3. SumFunctionOnSet(SignalStrength, u.signals) \in Nat
    BY <1>3, <2>2, SumGrows
  <2> QED
    BY <2>3 DEF SumOfSignals
<1>5. u.signals = {} => u.flags = 0
  BY <1>2, FS_EmptySet
<1> DEFINE y == IF u.signals # {} THEN SumOfSignals(u) ELSE 2000 * u.flags
<1>6. y \in Nat
  BY <1>4, <1>5
<1>7. UrlStrength(u) = CapAt(y, One)
  BY DEF UrlStrength
<1> HIDE DEF y
<1> QED
  BY <1>6, <1>7 DEF CapAt, One

LEMMA AttachmentsAreCounted ==
  ASSUME NEW m \in Messages, NEW p, p.attachments = m.attachments
  PROVE  AttachmentScore(p) \in Nat
<1> DEFINE f == [i \in DOMAIN p.attachments |-> AttachmentPoints(p.attachments[i].flags)]
<1>1. AttachmentScore(p) = SumFunctionOnSet(f, DOMAIN f)
  BY Zenon DEF AttachmentScore, SumFunction
<1>2. IsFiniteSet(DOMAIN f)
  <2>1. m.attachments \in Seq(Range(m.attachments))
    BY MessagesAreRead
  <2>2. DOMAIN m.attachments = 1..Len(m.attachments) /\ Len(m.attachments) \in Nat
    BY <2>1
  <2>3. IsFiniteSet(1..Len(m.attachments))
    BY <2>2, FS_Interval
  <2> QED
    BY <2>2, <2>3
<1>3. \A i \in DOMAIN f : f[i] \in Nat /\ f[i] <= f[i]
  <2>1. \A flags : AttachmentPoints(flags) \in Nat
    BY DEF AttachmentPoints, IocPoints, PointsIf
  <2> QED
    BY <2>1
<1> HIDE DEF f
<1> QED
  BY <1>1, <1>2, <1>3, SumGrows

LEMMA StrengthsAreWithin ==
  ASSUME NEW m \in Messages, NEW p, SameMail(p, m), NEW l \in Predictions,
         NEW n, Sound(n)
  PROVE  Within(Strengths(p, l, n))
<1> DEFINE s == Strengths(p, l, n)
<1>1. AuthenticationScore(p) \in Nat
  BY DEF AuthenticationScore, SpfPoints, PointsIf, AuthPoints
<1>2. HeaderScore(p) \in Nat
  <2>1. \A c, x : x \in Nat => PointsIf(c, x) \in Nat
    BY DEF PointsIf
  <2>2. \A x \in Nat, y \in Nat : CapAt(x, y) \in Nat
    BY DEF CapAt
  <2> DEFINE a == PointsIf(p.identity.display_name_mismatch, HeaderPoints.DISPLAY_NAME)
             b == PointsIf(SenderLookalike(p), HeaderPoints.LOOKALIKE_SENDER)
             c == PointsIf(p.identity.reply_to_mismatch, HeaderPoints.REPLY_TO_MISMATCH)
             d == PointsIf(p.anomaly, HeaderPoints.RELAY_ANOMALY)
  <2>3. HeaderScore(p) = CapAt(a + b + c, IdentityCap) + CapAt(d, RoutingCap)
    BY Zenon DEF HeaderScore
  <2>4. a \in Nat /\ b \in Nat /\ c \in Nat /\ d \in Nat
    BY <2>1 DEF HeaderPoints
  <2> HIDE DEF a, b, c, d
  <2>5. CapAt(a + b + c, IdentityCap) \in Nat /\ CapAt(d, RoutingCap) \in Nat
    <3>1. a + b + c \in Nat /\ IdentityCap \in Nat /\ RoutingCap \in Nat
      BY <2>4 DEF IdentityCap, RoutingCap
    <3> QED
      BY <2>2, <2>4, <3>1, Zenon
  <2> QED
    BY <2>3, <2>5
<1>3. AttachmentScore(p) \in Nat
  BY AttachmentsAreCounted DEF SameMail
<1>4. IntelligenceStrength(n) \in Nat
  BY IntelligenceGrows
<1>5. StrongestUrl(p) \in 0..One
  <2> DEFINE S == {UrlStrength(u) : u \in p.urls}
  <2>1. S \in SUBSET Nat /\ One \in Nat /\ \A x \in S : x <= One
    <3>1. \A u \in p.urls : UrlStrength(u) \in 0..One
      BY UrlsAreBounded DEF SameMail
    <3>2. 0..One \subseteq Nat /\ One \in Nat /\ \A x \in 0..One : x <= One
      BY DEF One
    <3> QED
      BY <3>1, <3>2
  <2>2. StrongestUrl(p) = Greatest(S)
    BY DEF StrongestUrl
  <2> HIDE DEF S
  <2> QED
    BY <2>1, <2>2, GreatestOfBounded
<1>6. Threat(l) \in 0..One
  <2>1. CASE l.status = "Available"
    <3>1. l.prob.PHISHING \in 0..100 /\ l.prob.BEC \in 0..100 /\ l.prob.SPAM \in 0..100
      BY <2>1, PredictionsArePercent
    <3> DEFINE x == 100 * (l.prob.PHISHING + l.prob.BEC) + 40 * l.prob.SPAM
    <3>2. x \in Nat
      <4> DEFINE a == l.prob.PHISHING  b == l.prob.BEC  c == l.prob.SPAM
      <4>1. a \in 0..100 /\ b \in 0..100 /\ c \in 0..100
        BY <3>1
      <4>2. x = 100 * (a + b) + 40 * c
        OBVIOUS
      <4> HIDE DEF a, b, c, x
      <4> QED
        BY <4>1, <4>2
    <3>3. Threat(l) = CapAt(x, One)
      BY <2>1 DEF Threat
    <3> HIDE DEF x
    <3> QED
      BY <3>2, <3>3 DEF CapAt, One
  <2>2. CASE l.status # "Available"
    BY <2>2 DEF Threat, One
  <2> QED
    BY <2>1, <2>2
<1>7. \A x \in Nat : CapAt(100 * x, One) \in 0..One /\ CapAt(x, One) \in 0..One
  BY DEF CapAt, One
<1>8. 0 \in 0..One
  BY DEF One
<1>9. /\ s["authentication"] \in 0..One /\ s["sender_identity"] \in 0..One
      /\ s["url"] \in 0..One /\ s["attachment"] \in 0..One /\ s["headers"] \in 0..One
      /\ s["intelligence"] \in 0..One /\ s["ai"] \in 0..One
  BY <1>1, <1>2, <1>3, <1>4, <1>5, <1>6, <1>7, <1>8 DEF Strengths
<1> HIDE DEF s
<1>10. \A k \in Categories : s[k] \in 0..One
  BY <1>9 DEF Categories
<1> QED
  BY <1>10 DEF Within, s

----------------------------------------------------------------------------
(* What the lookups leave. *)

\* The row of an address beyond the limit.
Answer(enr, ip) == IF Located(enr, LookupIp(ip)) # {}
                   THEN CHOOSE a \in Located(enr, LookupIp(ip)) : TRUE
                   ELSE LocalGeo[LookupIp(ip)]
Row(enr, ip) == [type |-> "ip", query |-> ip, dns |-> {}, providers |-> {Answer(enr, ip)},
                 rdap |-> [status |-> "Disabled"]]
Beyond(p, enr) ==
    LET queries == {i.query : i \in {x \in enr : x.type = "ip"}} IN
    {ip \in PathIps(p) : IsIp(ip) /\ Public(ip) /\ ip \notin queries}

LEMMA PathIsEnriched ==
  ASSUME NEW p, NEW enr
  PROVE  EnrichMailPath(p, enr, LocalGeo) = enr \cup {Row(enr, ip) : ip \in Beyond(p, enr)}
  BY Zenon DEF EnrichMailPath, Row, Beyond, Answer

\* Who is asked about an indicator, and what each of them answers.
Asked(i, report, external, q) ==
    IF external \/ q = "geoip" THEN report[q]
    ELSE [provider |-> q, status |-> "Not Requested"]

LEMMA LookupAnswers ==
  ASSUME NEW i, NEW report, NEW external
  PROVE  LET answers == [q \in Reputation \cup Geographic |-> Asked(i, report, external, q)]
             item == Lookup(i, report, external) IN
         /\ item.type = i.type
         /\ item.query = IF i.type = "domain" THEN Canonical[i.value] ELSE i.value
         /\ item.providers = {answers[q] : q \in Reputation}
              \cup (IF i.type = "ip" THEN GeographicAnswers(answers) ELSE {})
  BY DEF Lookup, Asked

\* Each answer of a lookup is one provider's own.
LEMMA AnswersAreOwn ==
  ASSUME NEW r \in Reports, NEW i, i.value \in DOMAIN r, NEW external
  PROVE  LET item == Lookup(i, r[i.value], external)
             asked(q) == Asked(i, r[i.value], external, q) IN
         /\ \A q \in Reputation \cup Geographic : asked(q).provider = q
         /\ \A a \in item.providers : \E q \in Reputation \cup Geographic : a = asked(q)
         /\ \A q \in Reputation : asked(q) \in item.providers
         /\ i.type = "ip" => asked("ipinfo") \in item.providers
         /\ \A a \in item.providers :
               a.status = "Available" /\ a.provider = "virustotal" =>
                  a.result.malicious \in Nat /\ a.result.total \in Nat
<1> DEFINE asked(q) == Asked(i, r[i.value], external, q)
           answers == [q \in Reputation \cup Geographic |-> asked(q)]
           item == Lookup(i, r[i.value], external)
<1>1. \A q \in Reputation \cup Geographic : asked(q).provider = q /\ answers[q] = asked(q)
  <2> TAKE q \in Reputation \cup Geographic
  <2>1. r[i.value][q].provider = q
    BY AnswersAreSigned
  <2> QED
    BY <2>1 DEF Asked
<1>2. item.providers = {answers[q] : q \in Reputation}
        \cup (IF i.type = "ip" THEN GeographicAnswers(answers) ELSE {})
  BY LookupAnswers
<1>3. /\ GeographicAnswers(answers) \subseteq {asked("ipinfo"), asked("geoip")}
      /\ asked("ipinfo") \in GeographicAnswers(answers)
  <2>1. answers["ipinfo"] = asked("ipinfo") /\ answers["geoip"] = asked("geoip")
    BY <1>1 DEF Geographic
  <2> HIDE DEF answers, asked
  <2> QED
    BY <2>1 DEF GeographicAnswers
<1> HIDE DEF asked, answers, item
<1>4. \A a \in item.providers : \E q \in Reputation \cup Geographic : a = asked(q)
  BY <1>1, <1>2, <1>3 DEF Geographic
<1>5. /\ \A q \in Reputation : asked(q) \in item.providers
      /\ i.type = "ip" => asked("ipinfo") \in item.providers
  BY <1>1, <1>2, <1>3
<1>6. ASSUME NEW a \in item.providers, a.status = "Available", a.provider = "virustotal"
      PROVE  a.result.malicious \in Nat /\ a.result.total \in Nat
  <2>1. a = asked("virustotal")
    BY <1>1, <1>4, <1>6
  <2>2. a = r[i.value]["virustotal"]
    BY <1>6, <2>1 DEF asked, Asked
  <2> QED
    BY <1>6, <2>2, AnswersAreSigned
<1> QED
  BY <1>1, <1>4, <1>5, <1>6 DEF asked, item

\* The answer kept of an address's row is one of the geographic providers'.
LEMMA KeptIsGeographic ==
  ASSUME NEW c, NEW r \in Reports, NEW i, Item(i, r, c).type = "ip",
         GeoAnswers(Item(i, r, c)) # {}
  PROVE  KeptAnswer(Item(i, r, c)).provider \in Geographic
<1> DEFINE item == Item(i, r, c)
           rows == GeoAnswers(item)
           last == IF \E a \in rows : a.provider = "geoip" THEN "geoip" ELSE "ipinfo"
           chosen == IF Available(rows) # {} THEN Available(rows)
                     ELSE {a \in rows : a.provider = last}
           asked(q) == Asked(i, r[i.value], c.external, q)
           Fits(a) == a.provider = "ipinfo" \/ Cardinality(chosen) = 1
           answer == CHOOSE a \in chosen : Fits(a)
<1>1. i.value \in DOMAIN r
  <2>1. SUFFICES ASSUME i.value \notin DOMAIN r PROVE FALSE
    OBVIOUS
  <2>2. item.providers = {}
    BY <2>1 DEF Item, Unanswered
  <2> QED
    BY <2>2 DEF GeoAnswers
<1>2. item = Lookup(i, r[i.value], c.external)
  BY <1>1 DEF Item
<1>3. rows \subseteq {asked("ipinfo"), asked("geoip")} /\ asked("ipinfo").provider = "ipinfo"
      /\ asked("geoip").provider = "geoip"
  <2>1. /\ \A q \in Reputation \cup Geographic : asked(q).provider = q
        /\ \A a \in item.providers : \E q \in Reputation \cup Geographic : a = asked(q)
    <3>1. /\ \A q \in Reputation \cup Geographic : asked(q).provider = q
          /\ \A a \in Lookup(i, r[i.value], c.external).providers :
                \E q \in Reputation \cup Geographic : a = asked(q)
      <4> DEFINE external == c.external
      <4>1. /\ \A q \in Reputation \cup Geographic : Asked(i, r[i.value], external, q).provider = q
            /\ \A a \in Lookup(i, r[i.value], external).providers :
                  \E q \in Reputation \cup Geographic : a = Asked(i, r[i.value], external, q)
        <5> HIDE DEF external
        <5> QED
          BY <1>1, AnswersAreOwn
      <4> QED
        BY <4>1
    <3> HIDE DEF asked, item
    <3> QED
      BY <1>2, <3>1
  <2> HIDE DEF asked, item
  <2> QED
    BY <2>1 DEF GeoAnswers, Reputation, Geographic
<1>4. rows # {}
  OBVIOUS
<1>5. chosen \subseteq rows /\ chosen # {}
  <2> HIDE DEF rows, asked
  <2> QED
    BY <1>3, <1>4 DEF Available
<1>6. \E a \in chosen : Fits(a)
  <2>1. CASE \E a \in chosen : a.provider = "ipinfo"
    BY <2>1
  <2>2. CASE ~\E a \in chosen : a.provider = "ipinfo"
    <3>1. chosen = {asked("geoip")}
      <4> HIDE DEF chosen, rows, asked
      <4> QED
        BY <1>3, <1>5, <2>2
    <3>2. Cardinality(chosen) = 1
      <4> HIDE DEF chosen, asked
      <4> QED
        BY <3>1, FS_Singleton
    <3> QED
      BY <1>5, <3>2
  <2> QED
    BY <2>1, <2>2
<1>7. answer \in chosen
  <2> HIDE DEF Fits, chosen
  <2> QED
    BY <1>6
<1>8. KeptAnswer(item).provider = answer.provider
  BY DEF KeptAnswer
<1> HIDE DEF answer, chosen
<1>9. answer.provider \in Geographic
  BY <1>5, <1>7 DEF GeoAnswers
<1> QED
  BY <1>8, <1>9

LEMMA AnswerIsGeographic ==
  ASSUME NEW c, NEW r \in Reports, NEW chosen, NEW ip, IsIp(ip)
  PROVE  Answer({Item(i, r, c) : i \in chosen}, ip).provider \in Geographic
<1> DEFINE enr == {Item(i, r, c) : i \in chosen}
           located == Located(enr, LookupIp(ip))
<1>1. CASE located = {}
  <2>1. Answer(enr, ip) = LocalGeo[LookupIp(ip)]
    BY <1>1 DEF Answer
  <2>2. ip \in DOMAIN Traits
    BY DEF IsIp
  <2> QED
    BY <2>1, <2>2, AnswersAreSigned DEF Geographic
<1>2. CASE located # {}
  <2>1. Answer(enr, ip) \in located
    BY <1>2 DEF Answer
  <2>2. PICK x \in enr : /\ x.type = "ip" /\ GeoAnswers(x) # {}
                         /\ Answer(enr, ip) = KeptAnswer(x)
    BY <2>1 DEF Located
  <2>3. PICK i \in chosen : x = Item(i, r, c)
    OBVIOUS
  <2> QED
    BY <2>2, <2>3, KeptIsGeographic
<1> QED
  BY <1>1, <1>2

LEMMA AnswersAreSound ==
  ASSUME NEW p, NEW c, NEW n, Answered(p, c, n)
  PROVE  Sound(n)
<1>1. PICK r \in Reports : \E s \in SelectIndicators(Eligible(p), p.candidate, IndicatorLimit) :
            n = Answers(p, c, r, s)
  BY DEF Answered
<1>2. PICK s \in SelectIndicators(Eligible(p), p.candidate, IndicatorLimit) :
            n = Answers(p, c, r, s)
  BY <1>1
<1> DEFINE enr == {Item(i, r, c) : i \in s}
<1>3. n = enr \cup {Row(enr, ip) : ip \in Beyond(p, enr)}
  <2> HIDE DEF enr
  <2>1. Answers(p, c, r, s) = EnrichMailPath(p, enr, LocalGeo)
    BY Zenon DEF Answers, enr
  <2> QED
    BY <1>2, <2>1, PathIsEnriched
<1>4. ASSUME NEW a \in Available(AnswersIn(n)), a.provider = "virustotal"
      PROVE  a.result.malicious \in Nat /\ a.result.total \in Nat
  <2>1. PICK x \in n : a \in x.providers
    BY DEF Available, AnswersIn
  <2>2. a.status = "Available"
    BY DEF Available
  <2>3. CASE x \in enr
    <3>1. PICK i \in s : x = Item(i, r, c)
      BY <2>3
    <3>2. i.value \in DOMAIN r /\ x = Lookup(i, r[i.value], c.external)
      BY <2>1, <3>1 DEF Item, Unanswered
    <3> QED
      BY <1>4, <2>1, <2>2, <3>2, AnswersAreOwn
  <2>4. CASE x \notin enr
    <3>1. PICK ip \in Beyond(p, enr) : x = Row(enr, ip)
      BY <1>3, <2>4
    <3>2. a = Answer(enr, ip) /\ IsIp(ip)
      BY <2>1, <3>1 DEF Row, Beyond
    <3>3. a.provider \in Geographic
      BY <3>2, AnswerIsGeographic
    <3> QED
      BY <1>4, <3>3 DEF Geographic
  <2> QED
    BY <2>3, <2>4
<1> QED
  BY <1>4 DEF Sound

----------------------------------------------------------------------------
(* The score. *)

Correlation(p, l, n, c) ==
    AfterCorrelation(Weighted(Strengths(p, l, n), c), StrongestRule(p, c).minimum)
Reviewed(p, l, n, c) == AfterReview(Correlation(p, l, n, c), ReviewMinimum(l, c))

LEMMA RiskFields ==
  ASSUME NEW p, NEW l, NEW n, NEW c
  PROVE  LET risk == Risk(p, l, n, c) IN
         /\ risk.risk_score = CapAt(RoundHalfEven(Reviewed(p, l, n, c)), 100)
         /\ risk.severity = Severity(risk.risk_score, c)
         /\ risk.contributions = Contributions(Strengths(p, l, n), c)
         /\ risk.correlation = Correlation(p, l, n, c) - Weighted(Strengths(p, l, n), c)
         /\ risk.model_review = Reviewed(p, l, n, c) - Correlation(p, l, n, c)
<1> DEFINE strengths == Strengths(p, l, n)
           weighted == Weighted(strengths, c)
           rule == StrongestRule(p, c)
           correlated == AfterCorrelation(weighted, rule.minimum)
           review == ReviewMinimum(l, c)
           score == Score(weighted, rule.minimum, review)
           verdict == IF rule # NoRule THEN rule.verdict
                      ELSE IF l.status = "Available" THEN l.label ELSE "Unknown"
           category == IF rule # NoRule THEN rule.category ELSE ThreatCategory(p, l)
           confident == l.status = "Available" /\ verdict = l.label
           components == ComponentScores(p, l, n)
           risk == [risk_score |-> score, severity |-> Severity(score, c),
                    contributions |-> Contributions(strengths, c),
                    correlation |-> correlated - weighted,
                    model_review |-> AfterReview(correlated, review) - correlated,
                    verdict |-> verdict, category |-> category,
                    confident |-> confident, components |-> components]
<1>1. Risk(p, l, n, c) = risk
  BY Zenon DEF Risk
<1>2. score = CapAt(RoundHalfEven(Reviewed(p, l, n, c)), 100)
  BY Zenon DEF Score, Reviewed, Correlation
<1>3. correlated = Correlation(p, l, n, c) /\ AfterReview(correlated, review) = Reviewed(p, l, n, c)
  BY Zenon DEF Reviewed, Correlation
<1> HIDE DEF strengths, weighted, rule, correlated, review, score, category, verdict,
             confident, components
<1>4. /\ risk.risk_score = score /\ risk.severity = Severity(score, c)
      /\ risk.contributions = Contributions(strengths, c)
      /\ risk.correlation = correlated - weighted
      /\ risk.model_review = AfterReview(correlated, review) - correlated
  OBVIOUS
<1> HIDE DEF risk
<1> QED
  BY <1>1, <1>2, <1>3, <1>4 DEF strengths, weighted

\* The score is within 0..100, no cap hides points, and what is shown of it is
\* what was added up.
LEMMA ScoreAddsUp ==
  ASSUME NEW m \in Messages, NEW p, SameMail(p, m), NEW l \in Predictions,
         NEW n, Sound(n), NEW c \in Configs
  PROVE  LET risk == Risk(p, l, n, c)
             points == Reviewed(p, l, n, c) IN
         /\ Total(risk.contributions) \in 0..Full
         /\ Correlation(p, l, n, c) \in 0..Full
         /\ points \in 0..Full
         /\ Total(risk.contributions) + risk.correlation + risk.model_review = points
         /\ points >= 100 * ReviewMinimum(l, c)
         /\ risk.risk_score = RoundHalfEven(points)
         /\ risk.risk_score \in 0..100
<1> DEFINE risk == Risk(p, l, n, c)
           points == Reviewed(p, l, n, c)
           weighted == Weighted(Strengths(p, l, n), c)
           correlated == Correlation(p, l, n, c)
           minimum == StrongestRule(p, c).minimum
           review == ReviewMinimum(l, c)
           total == Total(risk.contributions)
<1>1. total = weighted /\ weighted \in 0..10000
  <2>1. Within(Strengths(p, l, n))
    BY StrengthsAreWithin
  <2>2. risk.contributions = Contributions(Strengths(p, l, n), c)
    BY RiskFields
  <2> HIDE DEF risk
  <2> QED
    BY <2>1, <2>2, WeightedIsTotal DEF Full
<1>2. minimum \in {0, 60, 75}
  BY DEF StrongestRule, NoRule
<1>3. review \in 0..100
  <2>1. c.low \in 1..100 /\ c.high \in 1..100
    BY PoliciesAreAccepted DEF AcceptedPolicy
  <2> QED
    BY <2>1 DEF ReviewMinimum
<1>4. correlated = AtLeast(weighted, 100 * minimum)
  BY Zenon DEF Correlation, AfterCorrelation
<1>5. points = AtLeast(correlated, 100 * review)
  BY Zenon DEF Reviewed, AfterReview
<1>6. /\ risk.correlation = correlated - weighted
      /\ risk.model_review = points - correlated
      /\ risk.risk_score = CapAt(RoundHalfEven(points), 100)
  BY RiskFields
<1> HIDE DEF risk, points, weighted, correlated, minimum, review, total
<1>7. correlated \in 0..10000
  BY <1>1, <1>2, <1>4 DEF AtLeast
<1>8. points \in 0..10000 /\ points >= 100 * review
  BY <1>3, <1>5, <1>7 DEF AtLeast
<1>9. total + risk.correlation + risk.model_review = points
  BY <1>1, <1>6, <1>7, <1>8
<1>10. RoundHalfEven(points) \in Nat /\ RoundHalfEven(points) <= 100
  <2>1. points \in Nat /\ 100 \in Nat /\ points <= 100 * 100
    BY <1>8
  <2> QED
    BY <2>1, Rounding
<1>11. risk.risk_score = RoundHalfEven(points) /\ risk.risk_score \in 0..100
  BY <1>6, <1>10 DEF CapAt
<1>12. total \in 0..Full /\ correlated \in 0..Full /\ points \in 0..Full
  BY <1>1, <1>7, <1>8 DEF Full
<1> QED
  BY <1>8, <1>9, <1>11, <1>12 DEF risk, points, correlated, total, review

\* Where the values of a stored analysis come from.
LEMMA StoredData ==
  ASSUME DataInv, NEW e \in DOMAIN analyses
  PROVE  \E p, c, n : \E l \in Predictions :
            /\ message[e] \in Messages /\ SameMail(p, message[e])
            /\ c \in Configs /\ Sound(n)
            /\ analyses[e].risk = Risk(p, l, n, c)
            /\ analyses[e].origin = OriginConfidence(p, n)
<1>1. message[e] \in Messages /\ Traced(e, message[e], analyses[e])
  BY DEF DataInv, Shapes
<1>2. PICK p, c, n, r : \E l \in Predictions :
        /\ Worked(message[e], p, c) /\ Answered(p, c, n)
        /\ analyses[e] = AnalysisOf(e, p, c, l, n, r)
  BY <1>1 DEF Traced
<1>3. PICK l \in Predictions : analyses[e] = AnalysisOf(e, p, c, l, n, r)
  BY <1>2
<1>4. SameMail(p, message[e]) /\ c \in Configs
  BY <1>2, ChecksKeepMail DEF Worked
<1>5. Sound(n)
  BY <1>2, AnswersAreSound
<1>6. analyses[e].risk = Risk(p, l, n, c) /\ analyses[e].origin = OriginConfidence(p, n)
  BY <1>3, AnalysisFields
<1> QED
  BY <1>1, <1>4, <1>5, <1>6

\* The breakdown an analyst sees adds up to the score, for every policy the
\* settings accept: rounding is the only difference.
THEOREM ScoresAreExplained == Spec => []ScoreExplained
<1>1. ASSUME DataInv PROVE ScoreExplained
  <2>1. ASSUME NEW e \in DOMAIN analyses
        PROVE  100 * analyses[e].risk.risk_score
                 - (Total(analyses[e].risk.contributions) + analyses[e].risk.correlation
                      + analyses[e].risk.model_review) \in -53..53
    <3>1. PICK p, c, n : \E l \in Predictions :
            /\ message[e] \in Messages /\ SameMail(p, message[e])
            /\ c \in Configs /\ Sound(n)
            /\ analyses[e].risk = Risk(p, l, n, c)
      BY <1>1, StoredData
    <3>2. PICK l \in Predictions : analyses[e].risk = Risk(p, l, n, c)
      BY <3>1
    <3> DEFINE points == Reviewed(p, l, n, c)
               risk == analyses[e].risk
    <3>3. /\ points \in 0..Full
          /\ Total(risk.contributions) + risk.correlation + risk.model_review = points
          /\ risk.risk_score = RoundHalfEven(points)
      <4> DEFINE m == message[e]
                 found == Risk(p, l, n, c)
      <4>1. m \in Messages /\ SameMail(p, m) /\ c \in Configs /\ Sound(n)
        BY <3>1
      <4>2. /\ points \in 0..Full
            /\ Total(found.contributions) + found.correlation + found.model_review = points
            /\ found.risk_score = RoundHalfEven(points)
        <5> HIDE DEF m
        <5> QED
          BY <4>1, ScoreAddsUp
      <4> HIDE DEF points, found, risk
      <4>3. risk = found
        BY <3>2 DEF found, risk
      <4> QED
        BY <4>2, <4>3
    <3> HIDE DEF points, risk
    <3>4. points \in Nat
      <4>1. points \in 0..Full
        BY <3>3
      <4> QED
        BY <4>1 DEF Full
    <3>5. 100 * RoundHalfEven(points) - points \in -50..50
      BY <3>4, Rounding
    <3>6. 100 * RoundHalfEven(points) - points \in -53..53
      BY <3>4, <3>5, Rounding
    <3>7. /\ Total(risk.contributions) + risk.correlation + risk.model_review = points
          /\ risk.risk_score = RoundHalfEven(points)
      BY <3>3
    <3>8. 100 * risk.risk_score
            - (Total(risk.contributions) + risk.correlation + risk.model_review) \in -53..53
      BY <3>6, <3>7
    <3> QED
      BY <3>8 DEF risk
  <2> QED
    BY <2>1 DEF ScoreExplained
<1> QED
  BY <1>1, DataIsTraced, PTL

\* No answer of a model that is at least 70 percent sure of phishing or of a
\* business email compromise leaves an analysis below HIGH.
THEOREM ThreatLabelsReviewed == Spec => []ThreatLabelReviewed
<1>1. ASSUME DataInv PROVE ThreatLabelReviewed
  <2>1. ASSUME NEW e \in Finished, ml[e].status = "Available",
               ml[e].label \in {"PHISHING", "BEC"}, config[e].weights.ai > 0
        PROVE  IF ml[e].prob[ml[e].label] >= 70
               THEN analyses[e].risk.severity \in {"HIGH", "CRITICAL"}
               ELSE analyses[e].risk.severity # "LOW"
    <3> DEFINE p == parsed[e]  l == ml[e]  n == enrichment[e]  c == config[e]
               points == Reviewed(p, l, n, c)
               risk == analyses[e].risk
               review == ReviewMinimum(l, c)
    <3>1. /\ message[e] \in Messages /\ Worked(message[e], p, c) /\ l \in Predictions
          /\ Answered(p, c, n) /\ risk = Risk(p, l, n, c)
      BY <1>1, FinishedData, AnalysisFields
    <3>2. SameMail(p, message[e]) /\ c \in Configs /\ Sound(n)
      BY <3>1, ChecksKeepMail, AnswersAreSound DEF Worked
    <3>3. /\ points \in 0..Full /\ points >= 100 * review
          /\ risk.risk_score = RoundHalfEven(points)
      BY <3>1, <3>2, ScoreAddsUp
    <3>4. /\ c.low \in 1..100 /\ c.high \in 1..100 /\ c.critical \in 1..100
          /\ c.low < c.high /\ c.high < c.critical
      BY <3>2, PoliciesAreAccepted DEF AcceptedPolicy
    <3>5. review = IF l.prob[l.label] >= 70 THEN c.high ELSE c.low
      BY <2>1 DEF ReviewMinimum
    <3>6. risk.severity = Severity(risk.risk_score, c)
      BY <3>1, RiskFields
    <3> HIDE DEF p, l, n, c, points, risk, review
    <3>7. points \in Nat /\ review \in Nat
      BY <3>3, <3>4, <3>5 DEF Full
    <3>8. risk.risk_score >= review /\ risk.risk_score \in Nat
      BY <3>3, <3>7, Rounding
    <3>9. CASE l.prob[l.label] >= 70
      <4>1. risk.risk_score >= c.high
        BY <3>5, <3>8, <3>9
      <4>2. risk.severity \in {"HIGH", "CRITICAL"}
        BY <3>6, <4>1 DEF Severity
      <4> QED
        BY <3>9, <4>2 DEF l, risk
    <3>10. CASE ~(l.prob[l.label] >= 70)
      <4>1. risk.risk_score >= c.low
        BY <3>5, <3>8, <3>10
      <4>2. risk.severity # "LOW"
        BY <3>6, <4>1 DEF Severity
      <4> QED
        BY <3>10, <4>2 DEF l, risk
    <3> QED
      BY <3>9, <3>10
  <2> QED
    BY <2>1 DEF ThreatLabelReviewed
<1> QED
  BY <1>1, DataIsTraced, PTL

----------------------------------------------------------------------------
(* The shape of a stored analysis. *)

LEMMA OriginIsBounded ==
  ASSUME NEW p, NEW n
  PROVE  OriginConfidence(p, n).score \in 0..OriginCap
<1> DEFINE candidate == Candidate(p)
           supporting == SupportingPoints(p, n, candidate)
           penalties == Penalties(p, n, candidate)
           score == IF candidate = None THEN 0 ELSE OriginScore(supporting, penalties)
<1>1. OriginConfidence(p, n).score = score
  <2> HIDE DEF candidate
  <2> QED
    BY DEF OriginConfidence, candidate
<1>2. \A condition, k : k \in Nat => PointsIf(condition, k) \in Nat
  BY DEF PointsIf
<1>3. supporting \in Nat
  <2> HIDE DEF candidate
  <2> DEFINE items == ItemsOf(n, candidate)
             item == CHOOSE i \in items : TRUE
             found == items # {}
             geo == NetworkGeo(item)
             rdap == found /\ item.rdap.status = "Available"
             a == PointsIf(ChainConsistent(p), 10)
             b == PointsIf(found /\ geo.country, 10)
             c == PointsIf(found /\ \E x \in Available(item.providers) : x.provider = "ipinfo", 5)
             d == PointsIf(found /\ geo.asn # 0, 10)
             e == PointsIf(\E x \in n : x.type = "domain" /\ candidate \in x.dns, 10)
             f == PointsIf(rdap /\ CrossCheck(item, Registration(item)) = "Consistent", 5)
  <2>1. supporting = 25 + 15 + a + b + c + d + e + f
    BY Zenon DEF SupportingPoints
  <2>2. a \in Nat /\ b \in Nat /\ c \in Nat /\ d \in Nat /\ e \in Nat /\ f \in Nat
    BY <1>2
  <2> HIDE DEF supporting, a, b, c, d, e, f
  <2> QED
    BY <2>1, <2>2
<1>4. penalties \in Nat
  <2> HIDE DEF candidate
  <2> DEFINE items == ItemsOf(n, candidate)
             item == CHOOSE i \in items : TRUE
             found == items # {}
             geo == NetworkGeo(item)
             rdap == found /\ item.rdap.status = "Available"
             kinds == InfrastructureIndicators(n, candidate)
             provider ==
                IF ~found THEN None
                ELSE IF MailCloudProvider(geo.organization) # None
                THEN MailCloudProvider(geo.organization)
                ELSE MailCloudProvider(Registration(item).organization)
             a == PointsIf(rdap /\ CrossCheck(item, Registration(item)) = "Mismatch", 10)
             b == PointsIf(p.anomaly, 20)
             c == PointsIf(\E k \in Anonymizing : [kind |-> k, basis |-> "REPORTED"] \in kinds, 15)
             d == PointsIf(\/ provider # None
                           \/ \E k \in kinds : k.kind = "HOSTING"
                           \/ found /\ geo.type = "hosting", 15)
             e == PointsIf(provider \in {"google", "microsoft"}, 10)
  <2>1. penalties = a + b + c + d + e
    BY Zenon DEF Penalties
  <2>2. a \in Nat /\ b \in Nat /\ c \in Nat /\ d \in Nat /\ e \in Nat
    BY <1>2
  <2> HIDE DEF penalties, a, b, c, d, e
  <2> QED
    BY <2>1, <2>2
<1> HIDE DEF supporting, penalties
<1>5. OriginScore(supporting, penalties) \in 0..OriginCap
  <2> DEFINE kept == CapAt(supporting, OriginCap)
             left == AtLeast(kept - penalties, 0)
  <2>1. OriginScore(supporting, penalties) = CapAt(left, OriginCap)
    BY Zenon DEF OriginScore
  <2>2. kept \in Int
    BY <1>3 DEF CapAt, OriginCap
  <2> HIDE DEF kept
  <2>3. left \in Nat
    BY <1>4, <2>2 DEF AtLeast
  <2> HIDE DEF left
  <2> QED
    BY <2>1, <2>3 DEF CapAt, OriginCap
<1> HIDE DEF candidate
<1> QED
  BY <1>1, <1>5 DEF OriginCap

\* Stages, scores and levels are ones that exist, for every message and world.
THEOREM AnalysisTypes == Spec => []TypeOK
<1>1. ASSUME DataInv PROVE TypeOK
  <2>1. ASSUME NEW e \in DOMAIN analyses
        PROVE  /\ analyses[e].risk.risk_score \in 0..100
               /\ analyses[e].risk.severity \in {"LOW", "MEDIUM", "HIGH", "CRITICAL"}
               /\ analyses[e].origin.score \in 0..OriginCap
    <3>1. PICK p, c, n : \E l \in Predictions :
            /\ message[e] \in Messages /\ SameMail(p, message[e])
            /\ c \in Configs /\ Sound(n)
            /\ analyses[e].risk = Risk(p, l, n, c)
            /\ analyses[e].origin = OriginConfidence(p, n)
      BY <1>1, StoredData
    <3>2. PICK l \in Predictions : analyses[e].risk = Risk(p, l, n, c)
      BY <3>1
    <3> DEFINE m == message[e]
               risk == Risk(p, l, n, c)
    <3>3. risk.risk_score \in 0..100
      <4>1. m \in Messages /\ SameMail(p, m) /\ c \in Configs /\ Sound(n)
        BY <3>1
      <4> HIDE DEF m
      <4> QED
        BY <4>1, ScoreAddsUp
    <3>4. risk.severity = Severity(risk.risk_score, c)
      BY RiskFields
    <3>5. \A x : Severity(x, c) \in {"LOW", "MEDIUM", "HIGH", "CRITICAL"}
      BY DEF Severity
    <3>6. OriginConfidence(p, n).score \in 0..OriginCap
      BY OriginIsBounded
    <3> HIDE DEF risk
    <3> QED
      BY <3>1, <3>2, <3>3, <3>4, <3>5, <3>6 DEF risk
  <2> QED
    BY <1>1, <2>1 DEF TypeOK, DataInv, Shapes
<1> QED
  BY <1>1, DataIsTraced, PTL

----------------------------------------------------------------------------
(* What evidence may do to the score. *)

\* Stronger evidence under the same policy finding scores no less.
LEMMA ScoreGrows ==
  ASSUME NEW c \in Configs, NEW l \in Predictions, NEW p, NEW q, NEW n, NEW k,
         Within(Strengths(p, l, n)), Within(Strengths(q, l, k)),
         \A g \in Categories : Strengths(q, l, k)[g] <= Strengths(p, l, n)[g],
         StrongestRule(q, c) = StrongestRule(p, c)
  PROVE  Risk(q, l, k, c).risk_score <= Risk(p, l, n, c).risk_score
<1> DEFINE s == Strengths(p, l, n)  t == Strengths(q, l, k)
           v == Weighted(t, c)  w == Weighted(s, c)
           minimum == StrongestRule(p, c).minimum
           review == ReviewMinimum(l, c)
           x == Reviewed(q, l, k, c)  y == Reviewed(p, l, n, c)
<1>1. ASSUME NEW g \in Categories
      PROVE  /\ Contributions(t, c)[g] \in Nat /\ Contributions(s, c)[g] \in Nat
             /\ Contributions(t, c)[g] <= Contributions(s, c)[g]
  <2>1. /\ c.weights[g] \in 0..100
        /\ Contributions(t, c)[g] = Points(c.weights[g], t[g]) /\ Contributions(t, c)[g] \in Nat
        /\ Contributions(s, c)[g] = Points(c.weights[g], s[g]) /\ Contributions(s, c)[g] \in Nat
    <3> HIDE DEF s, t
    <3> QED
      BY WeightedIsTotal DEF s, t
  <2>2. s[g] \in 0..One /\ t[g] \in 0..s[g]
    <3> DEFINE a == s[g]  b == t[g]
    <3>1. a \in 0..One /\ b \in 0..One /\ b <= a
      <4>1. Within(s) /\ Within(t) /\ \A h \in Categories : t[h] <= s[h]
        OBVIOUS
      <4> HIDE DEF s, t
      <4> QED
        BY <4>1 DEF Within
    <3> HIDE DEF a, b
    <3>2. One \in Nat
      BY DEF One
    <3>3. b \in 0..a
      BY <3>1, <3>2
    <3> QED
      BY <3>1, <3>3 DEF a, b
  <2> HIDE DEF s, t
  <2>3. Points(c.weights[g], t[g]) <= Points(c.weights[g], s[g])
    BY <2>1, <2>2, PointsWithinWeight
  <2> QED
    BY <2>1, <2>3
<1>2. v \in 0..Full /\ w \in 0..Full /\ v <= w
  <2>1. /\ v = Total(Contributions(t, c)) /\ Total(Contributions(t, c)) \in 0..Full
        /\ w = Total(Contributions(s, c)) /\ Total(Contributions(s, c)) \in 0..Full
    BY WeightedIsTotal
  <2> DEFINE f == Contributions(t, c)  h == Contributions(s, c)
             Fits(g) == f[g] \in Nat /\ h[g] \in Nat /\ f[g] <= h[g]
  <2>2. \A g \in Categories : Fits(g)
    BY <1>1
  <2> HIDE DEF f, h
  <2>3. /\ Fits("authentication") /\ Fits("sender_identity") /\ Fits("url")
        /\ Fits("attachment") /\ Fits("headers") /\ Fits("intelligence") /\ Fits("ai")
    <3> HIDE DEF Fits
    <3> QED
      BY <2>2 DEF Categories
  <2>4. Total(f) <= Total(h)
    <3> DEFINE a1 == f["authentication"]  b1 == h["authentication"]
               a2 == f["sender_identity"]  b2 == h["sender_identity"]
               a3 == f["url"]  b3 == h["url"]
               a4 == f["attachment"]  b4 == h["attachment"]
               a5 == f["headers"]  b5 == h["headers"]
               a6 == f["intelligence"]  b6 == h["intelligence"]
               a7 == f["ai"]  b7 == h["ai"]
    <3>1. /\ a1 \in Nat /\ b1 \in Nat /\ a1 <= b1 /\ a2 \in Nat /\ b2 \in Nat /\ a2 <= b2
          /\ a3 \in Nat /\ b3 \in Nat /\ a3 <= b3 /\ a4 \in Nat /\ b4 \in Nat /\ a4 <= b4
          /\ a5 \in Nat /\ b5 \in Nat /\ a5 <= b5 /\ a6 \in Nat /\ b6 \in Nat /\ a6 <= b6
          /\ a7 \in Nat /\ b7 \in Nat /\ a7 <= b7
      BY <2>3
    <3>2. /\ Total(f) = a1 + a2 + a3 + a4 + a5 + a6 + a7
          /\ Total(h) = b1 + b2 + b3 + b4 + b5 + b6 + b7
      BY DEF Total
    <3> HIDE DEF a1, a2, a3, a4, a5, a6, a7, b1, b2, b3, b4, b5, b6, b7
    <3> QED
      BY <3>1, <3>2
  <2> HIDE DEF v, w, s, t
  <2> QED
    BY <2>1, <2>4 DEF f, h
<1>3. minimum \in {0, 60, 75}
  BY DEF StrongestRule, NoRule
<1>4. review \in 0..100
  <2>1. c.low \in 1..100 /\ c.high \in 1..100
    BY PoliciesAreAccepted DEF AcceptedPolicy
  <2> QED
    BY <2>1 DEF ReviewMinimum
<1>5. /\ x = AtLeast(AtLeast(v, 100 * minimum), 100 * review)
      /\ y = AtLeast(AtLeast(w, 100 * minimum), 100 * review)
  <2>1. StrongestRule(q, c).minimum = minimum
    OBVIOUS
  <2>2. /\ x = AtLeast(AtLeast(v, 100 * StrongestRule(q, c).minimum), 100 * review)
        /\ y = AtLeast(AtLeast(w, 100 * minimum), 100 * review)
    BY Zenon DEF Reviewed, Correlation, AfterCorrelation, AfterReview
  <2> HIDE DEF x, y, v, w, minimum, review
  <2> QED
    BY <2>1, <2>2
<1>6. /\ Risk(q, l, k, c).risk_score = CapAt(RoundHalfEven(x), 100)
      /\ Risk(p, l, n, c).risk_score = CapAt(RoundHalfEven(y), 100)
  BY RiskFields
<1> HIDE DEF s, t, v, w, minimum, review, x, y
<1>7. x \in Nat /\ y \in Nat /\ x <= y
  <2>1. v \in Nat /\ w \in Nat /\ v <= w /\ 100 * minimum \in Nat /\ 100 * review \in Nat
    BY <1>2, <1>3, <1>4 DEF Full
  <2> DEFINE a == 100 * minimum  b == 100 * review
  <2>2. a \in Nat /\ b \in Nat /\ x = AtLeast(AtLeast(v, a), b) /\ y = AtLeast(AtLeast(w, a), b)
    BY <1>5, <2>1
  <2> HIDE DEF a, b
  <2> QED
    BY <2>1, <2>2 DEF AtLeast
<1> DEFINE i == RoundHalfEven(x)  j == RoundHalfEven(y)
<1>8. i \in Nat /\ j \in Nat /\ i <= j
  BY <1>7, Rounding, RoundingKeepsOrder
<1>9. CapAt(i, 100) <= CapAt(j, 100)
  <2> HIDE DEF i, j
  <2> QED
    BY <1>8 DEF CapAt
<1> QED
  BY <1>6, <1>9

\* Strengths that agree but for the providers'.
LEMMA StrengthsDiffer ==
  ASSUME NEW l, NEW p, NEW q, NEW n, NEW k,
         AuthenticationScore(q) = AuthenticationScore(p),
         q.urls = p.urls, q.attachments = p.attachments,
         q.identity = p.identity, q.anomaly = p.anomaly
  PROVE  \A g \in Categories \ {"intelligence"} :
            Strengths(q, l, k)[g] = Strengths(p, l, n)[g]
<1>1. StrongestUrl(q) = StrongestUrl(p)
  BY DEF StrongestUrl
<1>2. AttachmentScore(q) = AttachmentScore(p)
  <2> DEFINE a == p.attachments
             Worth(b) == SumFunction([i \in DOMAIN b |-> AttachmentPoints(b[i].flags)])
  <2>1. AttachmentScore(q) = Worth(q.attachments) /\ AttachmentScore(p) = Worth(p.attachments)
    BY Zenon DEF AttachmentScore
  <2> HIDE DEF Worth
  <2> QED
    BY <2>1
<1>3. HeaderScore(q) = HeaderScore(p)
  <2>1. SenderLookalike(q) <=> SenderLookalike(p)
    BY DEF SenderLookalike
  <2> DEFINE Worth(id, alike, anomaly) ==
               CapAt(  PointsIf(id.display_name_mismatch, HeaderPoints.DISPLAY_NAME)
                     + PointsIf(alike, HeaderPoints.LOOKALIKE_SENDER)
                     + PointsIf(id.reply_to_mismatch, HeaderPoints.REPLY_TO_MISMATCH),
                     IdentityCap)
               + CapAt(PointsIf(anomaly, HeaderPoints.RELAY_ANOMALY), RoutingCap)
  <2>2. /\ HeaderScore(q) = Worth(q.identity, SenderLookalike(q), q.anomaly)
        /\ HeaderScore(p) = Worth(p.identity, SenderLookalike(p), p.anomaly)
    BY Zenon DEF HeaderScore
  <2>3. SenderLookalike(q) = SenderLookalike(p)
    BY <2>1 DEF SenderLookalike
  <2> HIDE DEF Worth
  <2> QED
    BY <2>2, <2>3
<1>4. ASSUME NEW g \in Categories \ {"intelligence"}
      PROVE  Strengths(q, l, k)[g] = Strengths(p, l, n)[g]
  BY <1>1, <1>2, <1>3 DEF Strengths, Categories
<1> QED
  BY <1>4

LEMMA IntelligenceStrengths ==
  ASSUME NEW l, NEW p, NEW q, NEW n, NEW k, Sound(n),
         Available(AnswersIn(k)) \subseteq Available(AnswersIn(n))
  PROVE  Strengths(q, l, k)["intelligence"] <= Strengths(p, l, n)["intelligence"]
<1> DEFINE a == IntelligenceStrength(k)  b == IntelligenceStrength(n)
<1>1. a \in Nat /\ b \in Nat /\ a <= b
  BY IntelligenceGrows
<1>2. /\ Strengths(q, l, k)["intelligence"] = CapAt(a, One)
      /\ Strengths(p, l, n)["intelligence"] = CapAt(b, One)
  BY DEF Strengths
<1> HIDE DEF a, b
<1>3. CapAt(a, One) <= CapAt(b, One)
  BY <1>1 DEF CapAt, One
<1> QED
  BY <1>2, <1>3

\* Evidence that says no more scores no more.
LEMMA LessEvidence ==
  ASSUME NEW m \in Messages, NEW p, SameMail(p, m), NEW q, SameMail(q, m),
         NEW c \in Configs, NEW l \in Predictions, NEW n, NEW k, Sound(n), 
         Available(AnswersIn(k)) \subseteq Available(AnswersIn(n)),
         AuthenticationScore(q) = AuthenticationScore(p)
  PROVE  Risk(q, l, k, c).risk_score <= Risk(p, l, n, c).risk_score
<1>1. Sound(k)
  BY DEF Sound
<1>2. Within(Strengths(p, l, n)) /\ Within(Strengths(q, l, k))
  BY <1>1, StrengthsAreWithin
<1>3. ASSUME NEW g \in Categories
      PROVE  Strengths(q, l, k)[g] <= Strengths(p, l, n)[g]
  <2>1. CASE g = "intelligence"
    BY <2>1, IntelligenceStrengths
  <2>2. CASE g # "intelligence"
    <3>1. /\ q.urls = p.urls /\ q.attachments = p.attachments
          /\ q.identity = p.identity /\ q.anomaly = p.anomaly
      BY DEF SameMail
    <3>2. Strengths(q, l, k)[g] = Strengths(p, l, n)[g]
      BY <2>2, <3>1, StrengthsDiffer
    <3>3. Strengths(p, l, n)[g] \in 0..One
      BY <1>2 DEF Within
    <3> DEFINE x == Strengths(q, l, k)[g]  y == Strengths(p, l, n)[g]
    <3>4. x = y /\ y \in 0..One
      BY <3>2, <3>3
    <3> HIDE DEF x, y
    <3>5. x <= y
      BY <3>4 DEF One
    <3> QED
      BY <3>5 DEF x, y
  <2> QED
    BY <2>1, <2>2
<1>4. StrongestRule(q, c) = StrongestRule(p, c)
  <2>1. q.identity = p.identity /\ q.urls = p.urls /\ q.text = p.text
    BY DEF SameMail
  <2>2. SenderLookalike(q) <=> SenderLookalike(p)
    BY <2>1 DEF SenderLookalike
  <2>3. IdentityEvidence(q) <=> IdentityEvidence(p)
    BY <2>1, <2>2 DEF IdentityEvidence
  <2>4. \A words : Says(q, words) <=> Says(p, words)
    BY <2>1 DEF Says
  <2>5. CredentialLure(q, c) <=> CredentialLure(p, c)
    BY <2>1, <2>3, <2>4, Zenon DEF CredentialLure
  <2>6. PaymentRedirection(q, c) <=> PaymentRedirection(p, c)
    BY <2>4, Zenon DEF PaymentRedirection
  <2> QED
    BY <2>3, <2>5, <2>6 DEF StrongestRule
<1> QED
  BY <1>2, <1>3, <1>4, ScoreGrows

\* Each row of an enrichment has its answers.
LEMMA ItemsHaveAnswers ==
  ASSUME NEW p, NEW c, NEW n, Answered(p, c, n), NEW i \in n
  PROVE  "providers" \in DOMAIN i
<1>1. PICK r \in Reports : \E s \in SelectIndicators(Eligible(p), p.candidate, IndicatorLimit) :
            n = Answers(p, c, r, s)
  BY DEF Answered
<1>2. PICK s \in SelectIndicators(Eligible(p), p.candidate, IndicatorLimit) :
            n = Answers(p, c, r, s)
  BY <1>1
<1> DEFINE enr == {Item(x, r, c) : x \in s}
<1>3. n = enr \cup {Row(enr, ip) : ip \in Beyond(p, enr)}
  <2> HIDE DEF enr
  <2>1. Answers(p, c, r, s) = EnrichMailPath(p, enr, LocalGeo)
    BY Zenon DEF Answers, enr
  <2> QED
    BY <1>2, <2>1, PathIsEnriched
<1>4. CASE i \in enr
  <2>1. PICK x \in s : i = Item(x, r, c)
    BY <1>4
  <2> QED
    BY <2>1 DEF Item, Unanswered, Lookup
<1>5. CASE i \notin enr
  <2>1. PICK ip \in Beyond(p, enr) : i = Row(enr, ip)
    BY <1>3, <1>5
  <2> QED
    BY <2>1 DEF Row
<1> QED
  BY <1>4, <1>5

\* No answer of a provider lowers the score, whatever it says.
THEOREM EvidenceRaises == Spec => []EvidenceOnlyRaises
<1>1. ASSUME DataInv PROVE EvidenceOnlyRaises
  <2>1. ASSUME NEW e \in Finished, NEW i \in enrichment[e], NEW a \in i.providers
        PROVE  Risk(parsed[e], ml[e],
                    (enrichment[e] \ {i}) \cup {[i EXCEPT !.providers = @ \ {a}]},
                    config[e]).risk_score
                 <= analyses[e].risk.risk_score
    <3> DEFINE p == parsed[e]  l == ml[e]  n == enrichment[e]  c == config[e]
               j == [i EXCEPT !.providers = @ \ {a}]
               k == (n \ {i}) \cup {j}
    <3>1. /\ message[e] \in Messages /\ Worked(message[e], p, c) /\ l \in Predictions
          /\ Answered(p, c, n) /\ analyses[e].risk = Risk(p, l, n, c)
      BY <1>1, FinishedData, AnalysisFields
    <3>2. SameMail(p, message[e]) /\ c \in Configs /\ Sound(n)
      BY <3>1, ChecksKeepMail, AnswersAreSound DEF Worked
    <3>3. "providers" \in DOMAIN i
      BY <3>1, ItemsHaveAnswers
    <3>4. j.providers = i.providers \ {a}
      BY <3>3
    <3>5. Available(AnswersIn(k)) \subseteq Available(AnswersIn(n))
      <4> HIDE DEF j, n
      <4>1. i \in n
        BY DEF n
      <4> QED
        BY <3>4, <4>1 DEF AnswersIn, Available
    <3> DEFINE m == message[e]
    <3>6. m \in Messages /\ SameMail(p, m)
      BY <3>1, <3>2
    <3> HIDE DEF p, l, n, c, k, m
    <3>7. Risk(p, l, k, c).risk_score <= Risk(p, l, n, c).risk_score
      BY <3>1, <3>2, <3>5, <3>6, LessEvidence
    <3> QED
      BY <3>1, <3>7 DEF p, l, n, c, k
  <2> QED
    BY <2>1 DEF EvidenceOnlyRaises
<1> QED
  BY <1>1, DataIsTraced, PTL

----------------------------------------------------------------------------
(* What silence may do to the score. *)

MailFields ==
    {"sender", "reply_to", "singleSender", "identity", "received_chain", "anomaly",
     "candidate", "observed", "urls", "attachments", "iocs", "text", "message_id",
     "references", "in_reply_to"}

\* A parse result and its authentication part have the fields they should.
Shaped(p) ==
    /\ MailFields \cup {"authentication"} \subseteq DOMAIN p
    /\ {"spf", "dkim", "dmarc"} \subseteq DOMAIN p.authentication
    /\ "reported" \in DOMAIN p.authentication.spf
    /\ {"reported", "local"} \subseteq DOMAIN p.authentication.dkim
    /\ {"reported", "local", "policy", "strict"} \subseteq DOMAIN p.authentication.dmarc

LEMMA ChecksKeepShape ==
  ASSUME NEW m, NEW w, NEW b, NEW p, p = EnrichAuthentication(Parse(m), w, b)
  PROVE  Shaped(p)
<1> DEFINE q == Parse(m)
<1>1. Shaped(q)
  BY DEF Parse, ReportedAuthentication, Shaped, MailFields
<1> HIDE DEF q
<1>2. p = EnrichAuthentication(q, w, b)
  BY DEF q
<1> DEFINE dkim == VerifyDkim(q, w.budget, b)
           dmarc == DmarcPolicy(q.sender, w.dmarc, b)
           assessed == DmarcAssessment(q, dmarc, dkim.signatures)
           status == PolicyRecords(q.authentication.spf.domain, w.spf, b).status
           found == CandidateSpf(q, w.candidate, b)
           spf == [reported |-> q.authentication.spf.reported,
                   domain |-> q.authentication.spf.domain,
                   alignment |-> q.authentication.spf.alignment,
                   dns |-> status, candidate |-> found]
<1>3. p = [q EXCEPT !.authentication.dkim.local = dkim.status,
                    !.authentication.dmarc.local = assessed,
                    !.authentication.dmarc.policy = dmarc.policy,
                    !.authentication.dmarc.strict = dmarc.strict,
                    !.authentication.spf = spf]
  BY <1>2, Zenon DEF EnrichAuthentication
<1>4. "reported" \in DOMAIN spf
  OBVIOUS
<1> HIDE DEF dkim, dmarc, assessed, spf
<1> DEFINE a0 == q.authentication
           a1 == [a0 EXCEPT !.dkim.local = dkim.status]
           a2 == [a1 EXCEPT !.dmarc.local = assessed]
           a3 == [a2 EXCEPT !.dmarc.policy = dmarc.policy]
           a4 == [a3 EXCEPT !.dmarc.strict = dmarc.strict]
           a5 == [a4 EXCEPT !.spf = spf]
<1>5. DOMAIN p = DOMAIN q /\ p.authentication = a5
  <2>1. "authentication" \in DOMAIN q
    BY <1>1 DEF Shaped, MailFields
  <2>2. p = [q EXCEPT !.authentication = a5]
    BY <1>3
  <2> HIDE DEF a5
  <2> QED
    BY <2>1, <2>2
<1>6. /\ DOMAIN a1 = DOMAIN a0 /\ DOMAIN a1.dkim = DOMAIN a0.dkim
      /\ DOMAIN a1.dmarc = DOMAIN a0.dmarc
  BY <1>1 DEF Shaped
<1> HIDE DEF a1
<1>7. /\ DOMAIN a2 = DOMAIN a1 /\ a2.dkim = a1.dkim /\ DOMAIN a2.dmarc = DOMAIN a1.dmarc
  BY <1>1, <1>6 DEF Shaped
<1> HIDE DEF a2
<1>8. /\ DOMAIN a3 = DOMAIN a2 /\ a3.dkim = a2.dkim /\ DOMAIN a3.dmarc = DOMAIN a2.dmarc
  BY <1>1, <1>6, <1>7 DEF Shaped
<1> HIDE DEF a3
<1>9. /\ DOMAIN a4 = DOMAIN a3 /\ a4.dkim = a3.dkim /\ DOMAIN a4.dmarc = DOMAIN a3.dmarc
  BY <1>1, <1>6, <1>7, <1>8 DEF Shaped
<1> HIDE DEF a4
<1>10. /\ DOMAIN a5 = DOMAIN a4 /\ a5.dkim = a4.dkim /\ a5.dmarc = a4.dmarc /\ a5.spf = spf
  BY <1>1, <1>6, <1>7, <1>8, <1>9 DEF Shaped
<1> HIDE DEF a5
<1> QED
  BY <1>1, <1>4, <1>5, <1>6, <1>7, <1>8, <1>9, <1>10 DEF Shaped

\* Silence left out, the message stays the same and what counts of its
\* authentication too.
LEMMA SilenceIsNeutral ==
  ASSUME NEW m, NEW p, SameMail(p, m), Shaped(p)
  PROVE  /\ SameMail(WithoutSilence(p), m)
         /\ AuthenticationScore(WithoutSilence(p)) = AuthenticationScore(p)
<1> DEFINE heard(r) == IF r \in {"FAIL", "SOFTFAIL"} THEN r ELSE "Unknown"
           verdict(r) == IF r \in {"PASS", "FAIL"} THEN r ELSE "Not Configured"
           q == WithoutSilence(p)
           a0 == p.authentication
           a1 == [a0 EXCEPT !.spf.reported = heard(@)]
           a2 == [a1 EXCEPT !.dkim.reported = heard(@)]
           a3 == [a2 EXCEPT !.dmarc.reported = heard(@)]
           a4 == [a3 EXCEPT !.dkim.local = verdict(@)]
<1>1. q = [p EXCEPT !.authentication.spf.reported = heard(@),
                    !.authentication.dkim.reported = heard(@),
                    !.authentication.dmarc.reported = heard(@),
                    !.authentication.dkim.local = verdict(@)]
  BY Zenon DEF WithoutSilence
<1> HIDE DEF heard, verdict, q
<1>2. /\ q.authentication = a4
      /\ \A field \in MailFields : q[field] = p[field]
  BY <1>1 DEF Shaped, MailFields
<1>3. /\ DOMAIN a1 = DOMAIN a0 /\ a1.dkim = a0.dkim /\ a1.dmarc = a0.dmarc
      /\ a1.spf.reported = heard(a0.spf.reported)
  BY DEF Shaped
<1> HIDE DEF a1
<1>4. /\ DOMAIN a2 = DOMAIN a0 /\ a2.spf = a1.spf /\ a2.dmarc = a0.dmarc
      /\ DOMAIN a2.dkim = DOMAIN a0.dkim /\ a2.dkim.local = a0.dkim.local
      /\ a2.dkim.reported = heard(a0.dkim.reported)
  BY <1>3 DEF Shaped
<1> HIDE DEF a2
<1>5. /\ DOMAIN a3 = DOMAIN a0 /\ a3.spf = a1.spf /\ a3.dkim = a2.dkim
      /\ a3.dmarc.reported = heard(a0.dmarc.reported)
  BY <1>4 DEF Shaped
<1> HIDE DEF a3
<1>6. /\ a4.spf = a1.spf /\ a4.dmarc = a3.dmarc
      /\ a4.dkim.reported = a2.dkim.reported /\ a4.dkim.local = verdict(a0.dkim.local)
  BY <1>4, <1>5 DEF Shaped
<1> HIDE DEF a4
<1>7. SameMail(q, m)
  <2>1. /\ q.sender = p.sender /\ q.reply_to = p.reply_to
        /\ q.singleSender = p.singleSender /\ q.identity = p.identity
        /\ q.received_chain = p.received_chain /\ q.anomaly = p.anomaly
        /\ q.candidate = p.candidate /\ q.observed = p.observed
        /\ q.urls = p.urls /\ q.attachments = p.attachments
        /\ q.iocs = p.iocs /\ q.text = p.text
        /\ q.message_id = p.message_id /\ q.references = p.references
        /\ q.in_reply_to = p.in_reply_to
    BY <1>2 DEF MailFields
  <2> QED
    BY <2>1 DEF SameMail
<1>8. AuthenticationScore(q) = AuthenticationScore(p)
  <2> DEFINE Worth(s, d, l, r, i) ==
                 SpfPoints(s) + PointsIf(l = "FAIL", AuthPoints.DKIM_FAIL_VERIFIED)
               + PointsIf(l \notin {"PASS", "FAIL"} /\ d = "FAIL", AuthPoints.DKIM_FAIL_REPORTED)
               + PointsIf(r = "FAIL", AuthPoints.DMARC_FAIL)
               + PointsIf(i, AuthPoints.REPLY_TO_MISMATCH)
  <2>1. \A x : AuthenticationScore(x) =
                 Worth(x.authentication.spf.reported, x.authentication.dkim.reported,
                       x.authentication.dkim.local, x.authentication.dmarc.reported,
                       x.identity.reply_to_mismatch)
    BY Zenon DEF AuthenticationScore
  <2>2. \A s, d, l, r, i :
           Worth(heard(s), heard(d), verdict(l), heard(r), i) = Worth(s, d, l, r, i)
    <3> TAKE s, d, l, r, i
    <3>1. SpfPoints(heard(s)) = SpfPoints(s)
      BY DEF SpfPoints, heard
    <3>2. (heard(d) = "FAIL") = (d = "FAIL") /\ (heard(r) = "FAIL") = (r = "FAIL")
      BY DEF heard
    <3>3. /\ (verdict(l) = "FAIL") = (l = "FAIL")
          /\ (verdict(l) \notin {"PASS", "FAIL"}) = (l \notin {"PASS", "FAIL"})
      BY DEF verdict
    <3> QED
      BY <3>1, <3>2, <3>3, Zenon
  <2>3. /\ q.authentication.spf.reported = heard(p.authentication.spf.reported)
        /\ q.authentication.dkim.reported = heard(p.authentication.dkim.reported)
        /\ q.authentication.dkim.local = verdict(p.authentication.dkim.local)
        /\ q.authentication.dmarc.reported = heard(p.authentication.dmarc.reported)
        /\ q.identity = p.identity
    BY <1>2, <1>3, <1>4, <1>5, <1>6 DEF MailFields
  <2> HIDE DEF Worth
  <2> QED
    BY <2>1, <2>2, <2>3
<1> QED
  BY <1>7, <1>8 DEF q

\* Unknown, neutral and unavailable evidence leaves the score as it is.
THEOREM SilenceScoresNothing == Spec => []MissingEvidenceIsNeutral
<1>1. ASSUME DataInv PROVE MissingEvidenceIsNeutral
  <2>1. ASSUME NEW e \in Finished
        PROVE  Risk(WithoutSilence(parsed[e]), ml[e],
                    {[i EXCEPT !.providers = Available(@)] : i \in enrichment[e]},
                    config[e]).risk_score
                 = analyses[e].risk.risk_score
    <3> DEFINE m == message[e]  p == parsed[e]  l == ml[e]  n == enrichment[e]
               c == config[e]
               q == WithoutSilence(p)
               k == {[i EXCEPT !.providers = Available(@)] : i \in n}
    <3>1. /\ m \in Messages /\ Worked(m, p, c) /\ l \in Predictions
          /\ Answered(p, c, n) /\ analyses[e].risk = Risk(p, l, n, c)
      BY <1>1, FinishedData, AnalysisFields
    <3> HIDE DEF m, p, l, n, c
    <3>2. SameMail(p, m) /\ Shaped(p) /\ c \in Configs /\ Sound(n)
      BY <3>1, ChecksKeepMail, ChecksKeepShape, AnswersAreSound DEF Worked
    <3>3. SameMail(q, m) /\ AuthenticationScore(q) = AuthenticationScore(p)
      BY <3>2, SilenceIsNeutral
    <3>4. Available(AnswersIn(k)) = Available(AnswersIn(n))
      <4>1. \A i \in n : [i EXCEPT !.providers = Available(@)].providers = Available(i.providers)
        BY <3>1, ItemsHaveAnswers
      <4>2. AnswersIn(k) = UNION {Available(i.providers) : i \in n}
        BY <4>1 DEF AnswersIn
      <4> HIDE DEF k
      <4> QED
        BY <4>2 DEF AnswersIn, Available
    <3>5. Sound(k)
      BY <3>2, <3>4 DEF Sound
    <3> HIDE DEF q, k
    <3>6. Risk(q, l, k, c).risk_score <= Risk(p, l, n, c).risk_score
      BY <3>1, <3>2, <3>3, <3>4, LessEvidence
    <3>7. Risk(p, l, n, c).risk_score <= Risk(q, l, k, c).risk_score
      BY <3>1, <3>2, <3>3, <3>4, <3>5, LessEvidence
    <3>8. /\ Risk(p, l, n, c).risk_score \in 0..100
          /\ Risk(q, l, k, c).risk_score \in 0..100
      BY <3>1, <3>2, <3>3, <3>5, ScoreAddsUp
    <3> DEFINE x == Risk(p, l, n, c).risk_score  y == Risk(q, l, k, c).risk_score
    <3>9. x \in 0..100 /\ y \in 0..100 /\ x <= y /\ y <= x
      BY <3>6, <3>7, <3>8
    <3> HIDE DEF x, y
    <3>10. x = y
      BY <3>9
    <3> QED
      BY <3>1, <3>10 DEF x, y, m, p, l, n, c, q, k
  <2> QED
    BY <2>1 DEF MissingEvidenceIsNeutral
<1> QED
  BY <1>1, DataIsTraced, PTL

----------------------------------------------------------------------------
(* Which indicators are looked up. *)

LEMMA ImageIsFinite ==
  ASSUME NEW f, IsFiniteSet(DOMAIN f)
  PROVE  IsFiniteSet({f[x] : x \in DOMAIN f})
<1> DEFINE T == {f[x] : x \in DOMAIN f}
           g == [x \in DOMAIN f |-> f[x]]
<1>1. g \in [DOMAIN f -> T] /\ \A y \in T : \E x \in DOMAIN f : g[x] = y
  OBVIOUS
<1>2. g \in Surjection(DOMAIN f, T)
  <2> HIDE DEF g, T
  <2> QED
    BY <1>1 DEF Surjection
<1> HIDE DEF g, T
<1>3. IsFiniteSet(T)
  BY <1>2, FS_Surjection
<1> QED
  BY <1>3 DEF T

LEMMA RangeIsFinite ==
  ASSUME NEW s, s \in Seq(Range(s))
  PROVE  IsFiniteSet(Range(s)) /\ IsFiniteSet(DOMAIN s)
<1>1. DOMAIN s = 1..Len(s) /\ Len(s) \in Nat
  OBVIOUS
<1>2. IsFiniteSet(DOMAIN s)
  BY <1>1, FS_Interval
<1>3. IsFiniteSet({s[x] : x \in DOMAIN s})
  BY <1>2, ImageIsFinite
<1> QED
  BY <1>2, <1>3 DEF Range

\* A row of the chain is one of the hops.
LEMMA ChainIsOfHops ==
  ASSUME NEW m \in Messages
  PROVE  /\ DOMAIN ReceivedChain(m) = 1..Len(m.received) /\ Len(m.received) \in Nat
         /\ \A n \in DOMAIN ReceivedChain(m) : \E h \in Range(m.received) :
               ReceivedChain(m)[n].ips
                 = [j \in DOMAIN h.ips |-> [ip |-> h.ips[j].ip, role |-> RoleOf(h, h.ips[j])]]
<1> DEFINE hops == Reverse(m.received)
           row(x) == [hop |-> x, source_server |-> hops[x].from,
                      destination_server |-> hops[x].by, stamp |-> hops[x].stamp,
                      ips |-> [j \in DOMAIN hops[x].ips |->
                                 [ip |-> hops[x].ips[j].ip,
                                  role |-> RoleOf(hops[x], hops[x].ips[j])]]]
           chain == [x \in DOMAIN hops |-> row(x)]
<1>1. ReceivedChain(m) = chain
  BY Zenon DEF ReceivedChain
<1>2. m.received \in Seq(Range(m.received)) /\ DOMAIN hops = 1..Len(m.received)
  BY MessagesAreRead DEF Reverse
<1>3. DOMAIN ReceivedChain(m) = 1..Len(m.received) /\ Len(m.received) \in Nat
  <2>1. DOMAIN chain = DOMAIN hops
    BY Zenon
  <2> HIDE DEF chain, hops
  <2> QED
    BY <1>1, <1>2, <2>1
<1>4. ASSUME NEW n \in DOMAIN ReceivedChain(m)
      PROVE  \E h \in Range(m.received) : ReceivedChain(m)[n].ips
                 = [j \in DOMAIN h.ips |-> [ip |-> h.ips[j].ip, role |-> RoleOf(h, h.ips[j])]]
  <2>1. n \in 1..Len(m.received)
    BY <1>3
  <2>2. hops[n] = m.received[(Len(m.received) - n) + 1]
    BY <1>2, <2>1 DEF Reverse
  <2>3. hops[n] \in Range(m.received)
    <3>1. DOMAIN m.received = 1..Len(m.received) /\ Len(m.received) \in Nat
      BY <1>2
    <3>2. (Len(m.received) - n) + 1 \in DOMAIN m.received
      BY <2>1, <3>1
    <3> QED
      BY <2>2, <3>2 DEF Range
  <2>4. n \in DOMAIN hops
    BY <1>2, <2>1
  <2>5. chain[n] = row(n)
    BY <2>4, Zenon
  <2> DEFINE h == hops[n]
  <2>6. row(n).ips = [j \in DOMAIN h.ips |-> [ip |-> h.ips[j].ip, role |-> RoleOf(h, h.ips[j])]]
    OBVIOUS
  <2> HIDE DEF row, hops, chain
  <2> QED
    BY <1>1, <2>3, <2>5, <2>6 DEF h
<1> QED
  BY <1>3, <1>4

LEMMA ObservedAreFinite ==
  ASSUME NEW m \in Messages
  PROVE  IsFiniteSet(ObservedIps(m, ReceivedChain(m)))
<1> DEFINE chain == ReceivedChain(m)
           ips(n) == {i.ip : i \in Range(chain[n].ips)}
           f == [n \in DOMAIN chain |-> ips(n)]
<1>1. ASSUME NEW n \in DOMAIN chain PROVE IsFiniteSet(ips(n))
  <2>1. PICK h \in Range(m.received) : chain[n].ips
           = [j \in DOMAIN h.ips |-> [ip |-> h.ips[j].ip, role |-> RoleOf(h, h.ips[j])]]
    BY ChainIsOfHops
  <2>2. h.ips \in Seq(Range(h.ips))
    BY MessagesAreRead
  <2>3. IsFiniteSet(DOMAIN h.ips)
    BY <2>2, RangeIsFinite
  <2> DEFINE g == [j \in DOMAIN h.ips |-> h.ips[j].ip]
  <2>4. ips(n) = {g[j] : j \in DOMAIN g}
    <3> DEFINE z == chain[n].ips
    <3>1. DOMAIN z = DOMAIN h.ips /\ \A j \in DOMAIN h.ips : z[j].ip = h.ips[j].ip
      BY <2>1
    <3>2. ips(n) = {i.ip : i \in Range(z)}
      OBVIOUS
    <3> HIDE DEF z
    <3>3. {i.ip : i \in Range(z)} = {z[j].ip : j \in DOMAIN z}
      BY DEF Range
    <3>4. {z[j].ip : j \in DOMAIN z} = {g[j] : j \in DOMAIN g}
      BY <3>1
    <3> QED
      BY <3>2, <3>3, <3>4
  <2>5. IsFiniteSet({g[j] : j \in DOMAIN g})
    <3>1. DOMAIN g = DOMAIN h.ips
      OBVIOUS
    <3> HIDE DEF g
    <3> QED
      BY <2>3, <3>1, ImageIsFinite
  <2> QED
    BY <2>4, <2>5
<1>2. IsFiniteSet({f[n] : n \in DOMAIN f})
  <2>1. DOMAIN f = 1..Len(m.received) /\ Len(m.received) \in Nat
    BY ChainIsOfHops
  <2>2. IsFiniteSet(DOMAIN f)
    BY <2>1, FS_Interval
  <2> HIDE DEF f
  <2> QED
    BY <2>2, ImageIsFinite
<1>3. {f[n] : n \in DOMAIN f} = {ips(n) : n \in DOMAIN chain}
  <2> HIDE DEF chain, ips
  <2> QED
    OBVIOUS
<1>4. \A T \in {ips(n) : n \in DOMAIN chain} : IsFiniteSet(T)
  <2> HIDE DEF ips, chain
  <2> QED
    BY <1>1
<1> DEFINE all == UNION {ips(n) : n \in DOMAIN chain}
<1>5. IsFiniteSet(all)
  <2> HIDE DEF ips, chain, f
  <2> QED
    BY <1>2, <1>3, <1>4, FS_UNION
<1>6. IsFiniteSet(m.clientIps)
  BY MessagesAreRead
<1>7. ObservedIps(m, chain) = all \cup m.clientIps
  <2>1. ObservedIps(m, chain) = (UNION {ips(n) : n \in DOMAIN chain}) \cup m.clientIps
    <3> HIDE DEF chain
    <3> QED
      BY Zenon DEF ObservedIps
  <2> HIDE DEF ips, chain, f
  <2> QED
    BY <2>1
<1> HIDE DEF all
<1> QED
  BY <1>5, <1>6, <1>7, FS_Union

\* A message has finitely many indicators.
LEMMA IndicatorsAreFinite ==
  ASSUME NEW m \in Messages
  PROVE  IsFiniteSet(Parse(m).iocs)
<1> DEFINE sender == FirstOrNone(m.from)
           chain == ReceivedChain(m)
           id == SenderIdentity(m, sender)
           spf == ReportedAuthentication(m, sender).spf.domain
           hosts == {u.host : u \in m.urls}
           signers == {s.domain : s \in Range(m.signatures)}
           domains == ({id.sender_domain, id.reply_to_domain, spf} \cup signers \cup hosts)
                        \ {None}
           ips == {i \in ObservedIps(m, chain) \cup hosts : IsIp(i)}
           row(type, value) == [type |-> type, value |-> value]
<1>1. Parse(m).iocs = {row("domain", d) : d \in domains} \cup {row("ip", i) : i \in ips}
                        \cup {row("url", u.url) : u \in m.urls}
                        \cup {row("hash", a.sha) : a \in Range(m.attachments)}
  <2>1. Parse(m).iocs = Iocs(m, chain, id, spf)
    BY DEF Parse
  <2> HIDE DEF chain, id, spf
  <2> QED
    BY <2>1, Zenon DEF Iocs
<1>2. IsFiniteSet(m.urls) /\ IsFiniteSet(Range(m.signatures)) /\ IsFiniteSet(Range(m.attachments))
  <2>1. IsFiniteSet(m.urls) /\ m.signatures \in Seq(Range(m.signatures))
        /\ m.attachments \in Seq(Range(m.attachments))
    BY MessagesAreRead
  <2> QED
    BY <2>1, RangeIsFinite
<1>3. IsFiniteSet(hosts)
  <2> DEFINE f == [u \in m.urls |-> u.host]
  <2>1. DOMAIN f = m.urls /\ hosts = {f[u] : u \in DOMAIN f}
    OBVIOUS
  <2> HIDE DEF f, hosts
  <2> QED
    BY <1>2, <2>1, ImageIsFinite
<1>4. IsFiniteSet(signers)
  <2> DEFINE f == [s \in Range(m.signatures) |-> s.domain]
  <2>1. DOMAIN f = Range(m.signatures) /\ signers = {f[s] : s \in DOMAIN f}
    OBVIOUS
  <2> HIDE DEF f, signers
  <2> QED
    BY <1>2, <2>1, ImageIsFinite
<1>5. IsFiniteSet(domains)
  <2> HIDE DEF id, spf, hosts, signers
  <2>1. IsFiniteSet({id.sender_domain, id.reply_to_domain} \cup {spf})
    BY PairIsFinite, FS_AddElement
  <2>2. {id.sender_domain, id.reply_to_domain, spf}
           = {id.sender_domain, id.reply_to_domain} \cup {spf}
    OBVIOUS
  <2> QED
    BY <1>3, <1>4, <2>1, <2>2, FS_Union, FS_RemoveElement
<1>6. IsFiniteSet(ips)
  <2>1. IsFiniteSet(ObservedIps(m, chain) \cup hosts)
    BY <1>3, ObservedAreFinite, FS_Union
  <2>2. ips \in SUBSET (ObservedIps(m, chain) \cup hosts)
    OBVIOUS
  <2> HIDE DEF ips, hosts, chain
  <2> QED
    BY <2>1, <2>2, FS_Subset
<1> HIDE DEF domains, ips
<1>7. IsFiniteSet({row("domain", d) : d \in domains})
  <2> DEFINE f == [d \in domains |-> row("domain", d)]
  <2>1. DOMAIN f = domains /\ {row("domain", d) : d \in domains} = {f[d] : d \in DOMAIN f}
    OBVIOUS
  <2> HIDE DEF f, row
  <2> QED
    BY <1>5, <2>1, ImageIsFinite
<1>8. IsFiniteSet({row("ip", i) : i \in ips})
  <2> DEFINE f == [i \in ips |-> row("ip", i)]
  <2>1. DOMAIN f = ips /\ {row("ip", i) : i \in ips} = {f[i] : i \in DOMAIN f}
    OBVIOUS
  <2> HIDE DEF f, row
  <2> QED
    BY <1>6, <2>1, ImageIsFinite
<1>9. IsFiniteSet({row("url", u.url) : u \in m.urls})
  <2> DEFINE f == [u \in m.urls |-> row("url", u.url)]
  <2>1. DOMAIN f = m.urls /\ {row("url", u.url) : u \in m.urls} = {f[u] : u \in DOMAIN f}
    OBVIOUS
  <2> HIDE DEF f, row
  <2> QED
    BY <1>2, <2>1, ImageIsFinite
<1>10. IsFiniteSet({row("hash", a.sha) : a \in Range(m.attachments)})
  <2> DEFINE S == Range(m.attachments)
             f == [a \in S |-> row("hash", a.sha)]
  <2>1. DOMAIN f = S /\ {row("hash", a.sha) : a \in S} = {f[a] : a \in DOMAIN f}
    OBVIOUS
  <2> HIDE DEF f, row
  <2> QED
    BY <1>2, <2>1, ImageIsFinite
<1> DEFINE A == {row("domain", d) : d \in domains}
           B == {row("ip", i) : i \in ips}
           C == {row("url", u.url) : u \in m.urls}
           D == {row("hash", a.sha) : a \in Range(m.attachments)}
<1>11. Parse(m).iocs = A \cup B \cup C \cup D
  BY <1>1
<1>12. IsFiniteSet(A) /\ IsFiniteSet(B) /\ IsFiniteSet(C) /\ IsFiniteSet(D)
  BY <1>7, <1>8, <1>9, <1>10
<1> HIDE DEF A, B, C, D
<1>13. IsFiniteSet(A \cup B)
  BY <1>12, FS_Union
<1>14. IsFiniteSet(A \cup B \cup C)
  BY <1>12, <1>13, FS_Union
<1> QED
  BY <1>11, <1>12, <1>14, FS_Union

----------------------------------------------------------------------------
(* The candidate is one of the addresses. *)

LEMMA FirstRowWins ==
  ASSUME NEW table, NEW n \in Nat, DOMAIN table = 1..n, 1 \in 1..n, table[1][1]
  PROVE  FirstMatch(table) = table[1][2]
<1>1. PICK i \in 1..n : /\ \A j \in 1..(i - 1) : ~table[j][1]
                        /\ FirstMatch(table) = table[i][2]
  BY FirstMatchIsARow
<1>2. i = 1
  BY <1>1
<1> QED
  BY <1>1, <1>2

LEMMA PublicIsAnAddress ==
  ASSUME NEW ip \in DOMAIN Traits, Public(ip)
  PROVE  IsIp(ip)
<1>1. "invalid" \notin Traits[LookupIp(ip)]
  <2> SUFFICES ASSUME "invalid" \in Traits[LookupIp(ip)] PROVE FALSE
    OBVIOUS
  <2> DEFINE traits == Traits[LookupIp(ip)]
             table == << <<"invalid" \in traits, "Invalid">>,
                         <<"loopback" \in traits, "Loopback">>,
                         <<"link_local" \in traits, "Link-local">>,
                         <<"multicast" \in traits, "Multicast">>,
                         <<"private" \in traits, "Private">>,
                         <<"global" \notin traits, "Reserved">>,
                         <<TRUE, "Public">> >>
  <2>1. FirstMatch(table) = "Public"
    BY Zenon DEF Public, Classification
  <2>2. table[1] = <<"invalid" \in traits, "Invalid">>
    BY Zenon
  <2>3. table[1][1] /\ table[1][2] = "Invalid"
    BY <2>2, Zenon
  <2>4. DOMAIN table = 1..7
    OBVIOUS
  <2> HIDE DEF table
  <2>5. 7 \in Nat /\ 1 \in 1..7
    OBVIOUS
  <2>6. FirstMatch(table) = table[1][2]
    BY <2>3, <2>4, <2>5, FirstRowWins
  <2> QED
    BY <2>1, <2>3, <2>6
<1> QED
  BY <1>1, MappedAreLiterals DEF LookupIp, IsIp

LEMMA CandidateIsObserved ==
  ASSUME NEW m \in Messages, CandidateIp(ReceivedChain(m)) # None
  PROVE  LET ip == CandidateIp(ReceivedChain(m)) IN
         /\ ip \in ObservedIps(m, ReceivedChain(m))
         /\ Public(ip) /\ IsIp(ip)
<1> DEFINE chain == ReceivedChain(m)
           usable == {n \in DOMAIN chain : PublicSources(chain[n].ips) # {}}
           first == CHOOSE n \in usable : \A o \in usable : n <= o
           ips == chain[first].ips
           position == CHOOSE k \in PublicSources(ips) : \A o \in PublicSources(ips) : k <= o
<1>1. CandidateIp(chain) = IF usable = {} THEN None ELSE ips[position].ip
  <2> HIDE DEF chain
  <2> QED
    BY Zenon DEF CandidateIp
<1>2. usable # {} /\ CandidateIp(chain) = ips[position].ip
  <2> HIDE DEF usable, ips, position
  <2> QED
    BY <1>1 DEF chain
<1>3. first \in usable
  <2>1. usable \in SUBSET Nat
    <3>1. DOMAIN chain \subseteq Nat
      BY ChainIsOfHops
    <3> HIDE DEF chain
    <3> QED
      BY <3>1
  <2> HIDE DEF usable
  <2>2. \E n \in usable : \A o \in usable : n <= o
    BY <1>2, <2>1, LeastNatural
  <2> QED
    BY <2>2
<1> HIDE DEF first
<1>4. first \in DOMAIN chain /\ PublicSources(ips) # {}
  BY <1>3
<1>5. PICK h \in Range(m.received) :
          ips = [j \in DOMAIN h.ips |-> [ip |-> h.ips[j].ip, role |-> RoleOf(h, h.ips[j])]]
  BY <1>4, ChainIsOfHops
<1>6. h.ips \in Seq(Range(h.ips)) /\ \A i \in Range(h.ips) : i.ip \in DOMAIN Traits
  BY MessagesAreRead
<1> HIDE DEF chain
<1> DEFINE sources == PublicSources(ips)
<1>7. position \in sources
  <2>1. sources \in SUBSET Nat
    <3>1. DOMAIN h.ips \subseteq Nat
      BY <1>6
    <3>2. DOMAIN ips = DOMAIN h.ips
      BY <1>5
    <3> HIDE DEF ips
    <3> QED
      BY <3>1, <3>2 DEF PublicSources
  <2>2. sources # {}
    BY <1>4
  <2> HIDE DEF sources
  <2>3. \E k \in sources : \A o \in sources : k <= o
    BY <2>1, <2>2, LeastNatural
  <2> QED
    BY <2>3 DEF sources
<1> HIDE DEF position, sources
<1>8. position \in DOMAIN ips /\ Public(ips[position].ip)
  BY <1>7 DEF sources, PublicSources
<1>9. ips[position].ip \in ObservedIps(m, chain)
  <2> DEFINE i == ips[position]
             seen(n) == {x.ip : x \in Range(chain[n].ips)}
  <2>1. i \in Range(ips)
    BY <1>8 DEF Range
  <2>2. i.ip \in seen(first)
    BY <2>1
  <2>3. ObservedIps(m, chain) = (UNION {seen(n) : n \in DOMAIN chain}) \cup m.clientIps
    BY Zenon DEF ObservedIps
  <2> HIDE DEF seen
  <2> QED
    BY <1>4, <2>2, <2>3
<1>10. ips[position].ip \in DOMAIN Traits
  <2>1. position \in DOMAIN h.ips /\ ips[position].ip = h.ips[position].ip
    BY <1>5, <1>8
  <2>2. h.ips[position] \in Range(h.ips)
    BY <2>1 DEF Range
  <2> QED
    BY <1>6, <2>1, <2>2
<1>11. IsIp(ips[position].ip)
  BY <1>8, <1>10, PublicIsAnAddress
<1> HIDE DEF ips
<1> QED
  BY <1>2, <1>8, <1>9, <1>11 DEF chain

----------------------------------------------------------------------------
(* The limit of the lookups. *)

LEMMA AddressIsIndicator ==
  ASSUME NEW m, NEW ip, IsIp(ip),
         \/ ip \in ObservedIps(m, ReceivedChain(m))
         \/ \E i \in Parse(m).iocs : i.type = "ip" /\ i.value = ip
  PROVE  [type |-> "ip", value |-> ip] \in Parse(m).iocs
<1> DEFINE sender == FirstOrNone(m.from)
           chain == ReceivedChain(m)
           id == SenderIdentity(m, sender)
           spf == ReportedAuthentication(m, sender).spf.domain
           hosts == {u.host : u \in m.urls}
<1>1. Parse(m).iocs = Iocs(m, chain, id, spf)
  BY DEF Parse
<1> HIDE DEF chain, id, spf
<1>2. CASE ip \in ObservedIps(m, chain)
  BY <1>1, <1>2 DEF Iocs
<1>3. CASE \E i \in Parse(m).iocs : i.type = "ip" /\ i.value = ip
  <2>1. PICK i \in Iocs(m, chain, id, spf) : i.type = "ip" /\ i.value = ip
    BY <1>1, <1>3
  <2>2. i = [type |-> i.type, value |-> i.value]
    BY <1>1, IndicatorsAreRows
  <2> QED
    BY <1>1, <2>1, <2>2
<1> QED
  BY <1>2, <1>3 DEF chain

\* A link or a hash is no address and not the absent candidate.
LEMMA OnlyNamesAreAddresses ==
  ASSUME NEW m \in Messages, NEW i \in Parse(m).iocs, i.type \notin {"domain", "ip"}
  PROVE  ~IsIp(i.value) /\ (i.type = "url" => i.value # None)
<1>1. i \in {[type |-> "url", value |-> u.url] : u \in m.urls}
         \cup {[type |-> "hash", value |-> a.sha] : a \in Range(m.attachments)}
  <2>1. \E ch, id, d : i \in Iocs(m, ch, id, d)
    BY DEF Parse
  <2> QED
    BY <2>1 DEF Iocs
<1> QED
  BY <1>1, AddressesAreApart, MessagesAreRead

\* The candidate is always chosen, and a link only when every address is.
LEMMA AddressesComeFirst ==
  ASSUME NEW m \in Messages, NEW p, SameMail(p, m),
         NEW chosen \in SelectIndicators(Eligible(p), p.candidate, IndicatorLimit),
         NEW ip, IsIp(ip), Public(ip), [type |-> "ip", value |-> ip] \in p.iocs,
         \/ ip = p.candidate
         \/ \E u \in chosen : u.type = "url"
  PROVE  [type |-> "ip", value |-> ip] \in chosen
<1> DEFINE row == [type |-> "ip", value |-> ip]
           all == Eligible(p)
<1>1. row \in all
  BY DEF Eligible
<1>2. /\ chosen \in SUBSET all
      /\ Cardinality(chosen) = IF Cardinality(all) < IndicatorLimit
                               THEN Cardinality(all) ELSE IndicatorLimit
      /\ \A i \in chosen, o \in all \ chosen : Rank(i, p.candidate) <= Rank(o, p.candidate)
  BY Zenon DEF SelectIndicators
<1>3. IsFiniteSet(all)
  <2>1. IsFiniteSet(p.iocs)
    BY IndicatorsAreFinite DEF SameMail
  <2>2. all \in SUBSET p.iocs
    BY DEF Eligible
  <2> QED
    BY <2>1, <2>2, FS_Subset
<1>4. p.candidate = None \/ IsIp(p.candidate)
  <2>1. p.candidate = CandidateIp(ReceivedChain(m))
    BY DEF SameMail, Parse
  <2> QED
    BY <2>1, CandidateIsObserved
<1>5. \A i \in all : /\ i = [type |-> i.type, value |-> i.value]
                     /\ i.type \notin {"domain", "ip"} => ~IsIp(i.value)
                     /\ i.type = "url" => ~IsIp(i.value) /\ i.value # None
  BY IndicatorsAreRows, OnlyNamesAreAddresses DEF Eligible, SameMail
<1> SUFFICES ASSUME row \notin chosen PROVE FALSE
  OBVIOUS
<1> HIDE DEF all
<1>6. \A i \in chosen : Rank(i, p.candidate) <= Rank(row, p.candidate)
  BY <1>1, <1>2
<1>7. CASE ip = p.candidate
  <2>1. Rank(row, p.candidate) = 0
    BY <1>7 DEF Rank
  <2>2. chosen \in SUBSET {[type |-> "domain", value |-> ip]}
    <3> SUFFICES ASSUME NEW i \in chosen
                 PROVE  i = [type |-> "domain", value |-> ip]
      OBVIOUS
    <3>1. i.value = ip
      BY <1>6, <1>7, <2>1 DEF Rank
    <3>2. i \in all /\ i # row
      BY <1>2
    <3>3. i = [type |-> i.type, value |-> i.value] /\ i.type \in {"domain", "ip"}
      BY <1>5, <3>1, <3>2
    <3> QED
      BY <3>1, <3>2, <3>3
  <2>3. IsFiniteSet(chosen) /\ Cardinality(chosen) <= 1
    <3> DEFINE one == {[type |-> "domain", value |-> ip]}
    <3>1. IsFiniteSet(one) /\ Cardinality(one) = 1
      BY FS_Singleton
    <3> HIDE DEF one
    <3>2. chosen \in SUBSET one
      BY <2>2 DEF one
    <3>3. IsFiniteSet(chosen) /\ Cardinality(chosen) <= Cardinality(one)
      BY <3>1, <3>2, FS_Subset
    <3> QED
      BY <3>1, <3>3
  <2>4. Cardinality(chosen) \in Nat /\ Cardinality(all) \in Nat
    BY <1>3, <2>3, FS_CardinalityType
  <2>5. CASE Cardinality(all) < IndicatorLimit
    <3>1. Cardinality(chosen) = Cardinality(all)
      BY <1>2, <2>5
    <3>2. chosen = all
      BY <1>2, <1>3, <3>1, FS_Subset
    <3> QED
      BY <1>1, <3>2
  <2>6. CASE ~(Cardinality(all) < IndicatorLimit)
    <3>1. Cardinality(chosen) = IndicatorLimit
      BY <1>2, <2>6
    <3> DEFINE size == Cardinality(chosen)
    <3>2. size \in Nat /\ size <= 1 /\ size = IndicatorLimit
      BY <2>3, <2>4, <3>1
    <3> HIDE DEF size
    <3> QED
      BY <3>2, LimitIsNotTiny
  <2> QED
    BY <2>5, <2>6
<1>8. CASE ip # p.candidate
  <2>1. PICK u \in chosen : u.type = "url"
    BY <1>8
  <2>2. u.value # p.candidate
    BY <1>2, <1>4, <1>5, <2>1
  <2>3. Rank(u, p.candidate) = 2 /\ Rank(row, p.candidate) = 1
    BY <1>8, <2>1, <2>2 DEF Rank
  <2>4. Rank(u, p.candidate) <= Rank(row, p.candidate)
    BY <1>6
  <2> QED
    BY <2>3, <2>4
<1> QED
  BY <1>7, <1>8

\* What asking about an address leaves: its providers' answers, or none at all.
LEMMA ChosenIsAsked ==
  ASSUME NEW c, NEW r \in Reports, NEW ip,
         NEW item, item = Item([type |-> "ip", value |-> ip], r, c)
  PROVE  /\ item.type = "ip" /\ item.query = ip
         /\ \/ item.providers = {}
            \/ "virustotal" \in {a.provider : a \in item.providers}
<1> DEFINE i == [type |-> "ip", value |-> ip]
<1>1. i.type = "ip" /\ i.value = ip
  OBVIOUS
<1> HIDE DEF i
<1>2. CASE i.value \notin DOMAIN r
  <2>1. item = Unanswered(i)
    BY <1>2 DEF Item, i
  <2> QED
    BY <1>1, <2>1 DEF Unanswered
<1>3. CASE i.value \in DOMAIN r
  <2> DEFINE external == c.external
             asked == Asked(i, r[i.value], external, "virustotal")
  <2>1. item = Lookup(i, r[i.value], external)
    BY <1>3 DEF Item, i
  <2> HIDE DEF external
  <2>2. asked.provider = "virustotal" /\ asked \in item.providers
    BY <1>3, <2>1, AnswersAreOwn DEF Reputation
  <2>3. item.type = "ip" /\ item.query = ip
    <3>1. item.type = i.type
          /\ item.query = IF i.type = "domain" THEN Canonical[i.value] ELSE i.value
      BY <2>1, LookupAnswers
    <3> QED
      BY <1>1, <3>1
  <2> HIDE DEF asked
  <2> QED
    BY <2>2, <2>3
<1> QED
  BY <1>2, <1>3

\* The candidate and, before any link, every public address is asked about, and
\* each of them has a row in the end.
THEOREM AddressesAreSpared == Spec => []LinksSpareAddresses
<1>1. ASSUME DataInv PROVE LinksSpareAddresses
  <2>1. ASSUME NEW e \in Finished
        PROVE  LET public == {ip \in PathIps(parsed[e]) : IsIp(ip) /\ Public(ip)}
                   full(ip) == \E i \in enrichment[e] :
                      i.query = ip /\ "virustotal" \in {a.provider : a \in i.providers}
                   links == \E i \in enrichment[e] : i.type = "url"
                   raised(ip) == \E i \in enrichment[e] : i.query = ip /\ i.providers = {}
               IN  /\ \A ip \in public :
                         \E i \in enrichment[e] : i.type = "ip" /\ i.query = ip
                   /\ links => \A ip \in public : full(ip) \/ raised(ip)
                   /\ parsed[e].candidate # None =>
                         full(parsed[e].candidate) \/ raised(parsed[e].candidate)
    <3> DEFINE m == message[e]  p == parsed[e]  c == config[e]  n == enrichment[e]
               public == {ip \in PathIps(p) : IsIp(ip) /\ Public(ip)}
               full(ip) == \E i \in n :
                  i.query = ip /\ "virustotal" \in {a.provider : a \in i.providers}
               links == \E i \in n : i.type = "url"
               raised(ip) == \E i \in n : i.query = ip /\ i.providers = {}
    <3>1. m \in Messages /\ Worked(m, p, c) /\ Answered(p, c, n)
      BY <1>1, FinishedData
    <3> HIDE DEF m, p, c, n
    <3>2. SameMail(p, m)
      BY <3>1, ChecksKeepMail DEF Worked
    <3>3. PICK r \in Reports :
            \E s \in SelectIndicators(Eligible(p), p.candidate, IndicatorLimit) :
                n = Answers(p, c, r, s)
      BY <3>1 DEF Answered
    <3>4. PICK s \in SelectIndicators(Eligible(p), p.candidate, IndicatorLimit) :
                n = Answers(p, c, r, s)
      BY <3>3
    <3> DEFINE enr == {Item(i, r, c) : i \in s}
    <3>5. n = enr \cup {Row(enr, ip) : ip \in Beyond(p, enr)}
      <4> HIDE DEF enr
      <4>1. Answers(p, c, r, s) = EnrichMailPath(p, enr, LocalGeo)
        BY Zenon DEF Answers, enr
      <4> QED
        BY <3>4, <4>1, PathIsEnriched
    <3>6. s \subseteq p.iocs
      BY DEF SelectIndicators, Eligible
    <3>7. ASSUME NEW ip, IsIp(ip), Public(ip), [type |-> "ip", value |-> ip] \in p.iocs,
                 ip = p.candidate \/ links
          PROVE  full(ip) \/ raised(ip)
      <4> DEFINE row == [type |-> "ip", value |-> ip]
                 item == Item(row, r, c)
      <4>1. links => \E u \in s : u.type = "url"
        <5> SUFFICES ASSUME NEW i \in n, i.type = "url" PROVE \E u \in s : u.type = "url"
          OBVIOUS
        <5>1. i \in enr
          <6> HIDE DEF enr
          <6>1. \A ip2 : Row(enr, ip2).type = "ip"
            BY DEF Row
          <6> QED
            BY <3>5, <6>1
        <5>2. PICK u \in s : i = Item(u, r, c)
          BY <5>1
        <5>3. i.type = u.type
          BY <5>2 DEF Item, Unanswered, Lookup
        <5> QED
          BY <5>3
      <4>2. row \in s
        BY <3>1, <3>2, <3>7, <4>1, AddressesComeFirst
      <4>3. item \in n
        BY <3>5, <4>2
      <4>4. item.query = ip /\ \/ item.providers = {}
                               \/ "virustotal" \in {a.provider : a \in item.providers}
        BY ChosenIsAsked
      <4> HIDE DEF item, links
      <4> QED
        BY <4>3, <4>4
    <3>8. ASSUME NEW ip \in public
          PROVE  /\ [type |-> "ip", value |-> ip] \in p.iocs
                 /\ \E i \in n : i.type = "ip" /\ i.query = ip
      <4>1. ip \in PathIps(p) /\ IsIp(ip) /\ Public(ip)
        OBVIOUS
      <4>2. p.observed = ObservedIps(m, ReceivedChain(m)) /\ p.iocs = Parse(m).iocs
        BY <3>2 DEF SameMail, Parse
      <4>3. [type |-> "ip", value |-> ip] \in p.iocs
        BY <4>1, <4>2, AddressIsIndicator DEF PathIps
      <4>4. CASE ip \in Beyond(p, enr)
        <5>1. Row(enr, ip) \in n /\ Row(enr, ip).type = "ip" /\ Row(enr, ip).query = ip
          BY <3>5, <4>4 DEF Row
        <5> QED
          BY <4>3, <5>1
      <4>5. CASE ip \notin Beyond(p, enr)
        <5>1. ip \in {i.query : i \in {x \in enr : x.type = "ip"}}
          BY <4>1, <4>5 DEF Beyond
        <5>2. PICK i \in enr : i.type = "ip" /\ i.query = ip
          BY <5>1
        <5> HIDE DEF enr
        <5> QED
          BY <3>5, <4>3, <5>2
      <4> QED
        BY <4>4, <4>5
    <3>9. ASSUME p.candidate # None PROVE full(p.candidate) \/ raised(p.candidate)
      <4>1. /\ p.candidate = CandidateIp(ReceivedChain(m))
            /\ p.iocs = Parse(m).iocs
        BY <3>2 DEF SameMail, Parse
      <4>2. /\ p.candidate \in ObservedIps(m, ReceivedChain(m))
            /\ Public(p.candidate) /\ IsIp(p.candidate)
        BY <3>1, <3>9, <4>1, CandidateIsObserved
      <4>3. [type |-> "ip", value |-> p.candidate] \in p.iocs
        BY <4>1, <4>2, AddressIsIndicator
      <4> HIDE DEF full, raised, links
      <4> QED
        BY <3>7, <4>2, <4>3
    <3>10. links => \A ip \in public : full(ip) \/ raised(ip)
      <4> HIDE DEF full, raised, links
      <4> QED
        BY <3>7, <3>8
    <3> HIDE DEF enr
    <3> QED
      BY <3>8, <3>9, <3>10 DEF p, n
  <2> QED
    BY <2>1, Zenon DEF LinksSpareAddresses
<1> QED
  BY <1>1, DataIsTraced, PTL

----------------------------------------------------------------------------
(* What obscures the origin. *)

ItemFields == {"type", "query", "providers", "rdap", "dns"}

LEMMA ItemsAreRecords ==
  ASSUME NEW p, NEW c, NEW n, Answered(p, c, n), NEW i \in n
  PROVE  DOMAIN i = ItemFields
<1>1. PICK r \in Reports : \E s \in SelectIndicators(Eligible(p), p.candidate, IndicatorLimit) :
            n = Answers(p, c, r, s)
  BY DEF Answered
<1>2. PICK s \in SelectIndicators(Eligible(p), p.candidate, IndicatorLimit) :
            n = Answers(p, c, r, s)
  BY <1>1
<1> DEFINE enr == {Item(x, r, c) : x \in s}
<1>3. n = enr \cup {Row(enr, ip) : ip \in Beyond(p, enr)}
  <2> HIDE DEF enr
  <2>1. Answers(p, c, r, s) = EnrichMailPath(p, enr, LocalGeo)
    BY Zenon DEF Answers, enr
  <2> QED
    BY <1>2, <2>1, PathIsEnriched
<1>4. CASE i \in enr
  <2>1. PICK x \in s : i = Item(x, r, c)
    BY <1>4
  <2> QED
    BY <2>1 DEF Item, Unanswered, Lookup, ItemFields
<1>5. CASE i \notin enr
  <2> HIDE DEF enr
  <2>1. PICK ip \in Beyond(p, enr) : i = Row(enr, ip)
    BY <1>3, <1>5
  <2> QED
    BY <2>1 DEF Row, ItemFields
<1> QED
  BY <1>4, <1>5

\* The candidate is looked up, and its one row is that lookup's.
LEMMA CandidateIsAsked ==
  ASSUME NEW m \in Messages, NEW p, NEW c, Worked(m, p, c),
         NEW n, Answered(p, c, n), Candidate(p) # None
  PROVE  \E r \in Reports :
            ItemsOf(n, Candidate(p)) = {Item([type |-> "ip", value |-> Candidate(p)], r, c)}
<1>1. SameMail(p, m)
  BY ChecksKeepMail DEF Worked
<1>2. PICK r \in Reports : \E s \in SelectIndicators(Eligible(p), p.candidate, IndicatorLimit) :
            n = Answers(p, c, r, s)
  BY DEF Answered
<1>3. PICK s \in SelectIndicators(Eligible(p), p.candidate, IndicatorLimit) :
            n = Answers(p, c, r, s)
  BY <1>2
<1> DEFINE enr == {Item(x, r, c) : x \in s}
           ip == Candidate(p)
           row == [type |-> "ip", value |-> ip]
           item == Item(row, r, c)
<1>4. n = enr \cup {Row(enr, a) : a \in Beyond(p, enr)}
  <2> HIDE DEF enr
  <2>1. Answers(p, c, r, s) = EnrichMailPath(p, enr, LocalGeo)
    BY Zenon DEF Answers, enr
  <2> QED
    BY <1>3, <2>1, PathIsEnriched
<1>5. ip = p.candidate /\ p.candidate # None
  BY CandidateIsSource
<1>6. p.candidate = CandidateIp(ReceivedChain(m)) /\ p.iocs = Parse(m).iocs
  BY <1>1 DEF SameMail, Parse
<1>7. ip \in ObservedIps(m, ReceivedChain(m)) /\ Public(ip) /\ IsIp(ip)
  BY <1>5, <1>6, CandidateIsObserved
<1>8. row \in p.iocs
  BY <1>6, <1>7, AddressIsIndicator
<1>9. row \in s
  <2> HIDE DEF ip
  <2> QED
    BY <1>1, <1>5, <1>7, <1>8, AddressesComeFirst
<1>10. item \in enr /\ item.type = "ip" /\ item.query = ip
  BY <1>9 DEF Item, Unanswered, Lookup
<1>11. ASSUME NEW i \in n, i.type = "ip", i.query = ip
       PROVE  i = item
  <2>1. i \in enr
    <3>1. ip \in {x.query : x \in {y \in enr : y.type = "ip"}}
      <4> HIDE DEF enr, item, ip
      <4> QED
        BY <1>10
    <3>2. ip \notin Beyond(p, enr)
      BY <3>1 DEF Beyond
    <3>3. \A a : Row(enr, a).query = a
      BY DEF Row
    <3> HIDE DEF enr, item, ip
    <3> QED
      BY <1>4, <1>11, <3>2, <3>3
  <2>2. PICK x \in s : i = Item(x, r, c)
    BY <2>1
  <2>3. i.type = x.type /\ (x.type # "domain" => i.query = x.value)
    BY <2>2 DEF Item, Unanswered, Lookup
  <2>4. x \in Parse(m).iocs
    BY <1>6 DEF SelectIndicators, Eligible
  <2>5. x = [type |-> x.type, value |-> x.value]
    BY <2>4, IndicatorsAreRows
  <2>6. x = row
    <3> HIDE DEF ip
    <3> QED
      BY <1>11, <2>3, <2>5
  <2> QED
    BY <2>2, <2>6
<1>12. item \in n
  <2> HIDE DEF item, enr
  <2> QED
    BY <1>4, <1>10
<1>13. ItemsOf(n, ip) = {item}
  <2> HIDE DEF item, enr, ip
  <2> QED
    BY <1>10, <1>11, <1>12 DEF ItemsOf
<1> QED
  BY <1>13

\* A provider has one answer about the candidate, and it is a full one.
Single(answers) ==
    /\ \A a \in answers : /\ {"provider", "status"} \subseteq DOMAIN a
                          /\ a.status = "Available" => "result" \in DOMAIN a
                          /\ a.status = "Available" /\ a.provider \in Geographic =>
                                DOMAIN Nowhere \subseteq DOMAIN a.result
    /\ \A a \in answers : \A b \in answers : a.provider = b.provider => a = b

LEMMA LookupIsSingle ==
  ASSUME NEW r \in Reports, NEW c, NEW i
  PROVE  /\ Single(Item(i, r, c).providers)
         /\ Item(i, r, c).rdap.status = "Available" =>
               "flags" \notin DOMAIN Item(i, r, c).rdap.result
<1>1. CASE i.value \notin DOMAIN r
  <2>1. Item(i, r, c).providers = {} /\ Item(i, r, c).rdap.status = "Disabled"
    BY <1>1 DEF Item, Unanswered
  <2> QED
    BY <2>1 DEF Single
<1>2. CASE i.value \in DOMAIN r
  <2> DEFINE external == c.external
             report == r[i.value]
             item == Lookup(i, report, external)
             asked(q) == Asked(i, report, external, q)
  <2>1. Item(i, r, c) = item
    BY <1>2 DEF Item
  <2>2. /\ \A q \in Reputation \cup Geographic : asked(q).provider = q
        /\ \A a \in item.providers : \E q \in Reputation \cup Geographic : a = asked(q)
    <3> HIDE DEF external
    <3> QED
      BY <1>2, AnswersAreOwn
  <2>3. ASSUME NEW q \in Reputation \cup Geographic
        PROVE  /\ {"provider", "status"} \subseteq DOMAIN asked(q)
               /\ asked(q).status = "Available" => "result" \in DOMAIN asked(q)
               /\ asked(q).status = "Available" /\ asked(q).provider \in Geographic =>
                     DOMAIN Nowhere \subseteq DOMAIN asked(q).result
    <3>1. CASE external \/ q = "geoip"
      <4>1. asked(q) = report[q]
        BY <3>1 DEF Asked
      <4>2. asked(q).provider = q
        BY <2>2
      <4> HIDE DEF asked
      <4> QED
        BY <1>2, <4>1, <4>2, AnswersAreRecords
    <3>2. CASE ~(external \/ q = "geoip")
      <4> DEFINE none == [provider |-> q, status |-> "Not Requested"]
      <4>1. asked(q) = none
        BY <3>2 DEF Asked
      <4>2. none.status # "Available" /\ DOMAIN none = {"provider", "status"}
        OBVIOUS
      <4> HIDE DEF asked, none
      <4> QED
        BY <4>1, <4>2
    <3> QED
      BY <3>1, <3>2
  <2>4. item.rdap.status = "Available" => "flags" \notin DOMAIN item.rdap.result
    <3>1. item.rdap = report["rdap"] \/ item.rdap.status = "Disabled"
      BY DEF Lookup
    <3> HIDE DEF item
    <3> QED
      BY <1>2, <3>1, AnswersAreRecords
  <2>5. Single(item.providers)
    <3> HIDE DEF asked, item
    <3> QED
      BY <2>2, <2>3 DEF Single
  <2> HIDE DEF item
  <2> QED
    BY <2>1, <2>4, <2>5
<1> QED
  BY <1>1, <1>2

\* An answer, and a row, without what a provider says of anonymizing services.
Plain(a) == IF "flags" \in DOMAIN FieldOf(a, "result", [none |-> 0])
            THEN [a EXCEPT !.result.flags = @ \ Anonymizing] ELSE a
Bare(i) == [i EXCEPT !.providers = {Plain(a) : a \in i.providers}]

LEMMA PlainKeeps ==
  ASSUME NEW a, {"provider", "status"} \subseteq DOMAIN a
  PROVE  /\ Plain(a).provider = a.provider /\ Plain(a).status = a.status
         /\ "result" \in DOMAIN a =>
               /\ DOMAIN Plain(a).result = DOMAIN a.result
               /\ \A f \in DOMAIN a.result \ {"flags"} : Plain(a).result[f] = a.result[f]
               /\ IF "flags" \in DOMAIN a.result
                  THEN Plain(a).result.flags = a.result.flags \ Anonymizing
                  ELSE Plain(a) = a
<1>1. CASE "result" \notin DOMAIN a
  <2>1. "flags" \notin DOMAIN FieldOf(a, "result", [none |-> 0])
    BY <1>1 DEF FieldOf
  <2> QED
    BY <1>1, <2>1 DEF Plain
<1>2. CASE "result" \in DOMAIN a
  <2>1. FieldOf(a, "result", [none |-> 0]) = a.result
    BY <1>2 DEF FieldOf
  <2>2. CASE "flags" \in DOMAIN a.result
    <3>1. Plain(a) = [a EXCEPT !.result.flags = @ \ Anonymizing]
      BY <2>1, <2>2 DEF Plain
    <3> DEFINE r == [a.result EXCEPT !.flags = @ \ Anonymizing]
    <3>2. Plain(a) = [a EXCEPT !.result = r]
      BY <3>1
    <3>3. /\ DOMAIN r = DOMAIN a.result
          /\ \A f \in DOMAIN a.result \ {"flags"} : r[f] = a.result[f]
          /\ r.flags = a.result.flags \ Anonymizing
      BY <2>2
    <3> HIDE DEF r
    <3>4. Plain(a).result = r /\ Plain(a).provider = a.provider /\ Plain(a).status = a.status
      BY <1>2, <3>2
    <3> QED
      BY <2>2, <3>3, <3>4
  <2>3. CASE "flags" \notin DOMAIN a.result
    <3>1. Plain(a) = a
      BY <2>1, <2>3 DEF Plain
    <3> QED
      BY <2>3, <3>1
  <2> QED
    BY <2>2, <2>3
<1> QED
  BY <1>1, <1>2

LEMMA BareKeeps ==
  ASSUME NEW i, DOMAIN i = ItemFields
  PROVE  /\ DOMAIN Bare(i) = ItemFields /\ Bare(i).type = i.type /\ Bare(i).query = i.query
         /\ Bare(i).rdap = i.rdap /\ Bare(i).dns = i.dns
         /\ Bare(i).providers = {Plain(a) : a \in i.providers}
  BY DEF Bare, ItemFields

\* Two results the location of an address is read from alike.
Alike(x, y) ==
    /\ x = Nowhere <=> y = Nowhere
    /\ x.coordinates = y.coordinates /\ x.country = y.country /\ x.asn = y.asn
    /\ x.organization = y.organization /\ x.type = y.type

LEMMA ResultsAreAlike ==
  ASSUME NEW i, DOMAIN i = ItemFields, Single(i.providers), NEW q \in Geographic
  PROVE  Alike(ResultOf(i, q), ResultOf(Bare(i), q))
<1> DEFINE found == {a \in Available(i.providers) : a.provider = q}
           bare == {a \in Available(Bare(i).providers) : a.provider = q}
<1>1. \A a \in i.providers : Plain(a).provider = a.provider /\ Plain(a).status = a.status
  BY PlainKeeps DEF Single
<1>2. bare = {Plain(a) : a \in found}
  BY <1>1, BareKeeps DEF Available
<1>3. CASE found = {}
  <2>1. bare = {}
    BY <1>2, <1>3
  <2>2. ResultOf(i, q) = Nowhere /\ ResultOf(Bare(i), q) = Nowhere
    BY <1>3, <2>1 DEF ResultOf
  <2> QED
    BY <2>2 DEF Alike
<1>4. CASE found # {}
  <2>1. PICK a \in found : TRUE
    BY <1>4
  <2>2. /\ a \in i.providers /\ a.status = "Available" /\ a.provider = q
        /\ {"provider", "status"} \subseteq DOMAIN a
        /\ "result" \in DOMAIN a /\ DOMAIN Nowhere \subseteq DOMAIN a.result
    BY DEF Available, Single
  <2>3. found = {a}
    <3>1. \A b \in found : b = a
      BY <2>2 DEF Available, Single
    <3> HIDE DEF found
    <3> QED
      BY <3>1
  <2>4. bare = {Plain(a)}
    <3> HIDE DEF found, bare
    <3> QED
      BY <1>2, <2>3
  <2>5. ResultOf(i, q) = a.result
    <3>1. ResultOf(i, q) = (CHOOSE b \in found : TRUE).result
      BY <1>4 DEF ResultOf
    <3> HIDE DEF found
    <3> QED
      BY <2>3, <3>1
  <2>6. ResultOf(Bare(i), q) = Plain(a).result
    <3>1. bare # {}
      <4> HIDE DEF bare
      <4> QED
        BY <2>4
    <3>2. ResultOf(Bare(i), q) = (CHOOSE b \in bare : TRUE).result
      BY <3>1 DEF ResultOf
    <3> HIDE DEF bare
    <3> QED
      BY <2>4, <3>2
  <2> DEFINE x == a.result
             y == Plain(a).result
  <2>7. /\ DOMAIN y = DOMAIN x
        /\ \A f \in DOMAIN x \ {"flags"} : y[f] = x[f]
        /\ "flags" \notin DOMAIN x => y = x
    BY <2>2, PlainKeeps
  <2>8. DOMAIN Nowhere = {"coordinates", "country", "asn", "organization", "type"}
    BY DEF Nowhere
  <2>9. DOMAIN Nowhere \subseteq DOMAIN x
    BY <2>2
  <2> HIDE DEF x, y
  <2>10. x = Nowhere <=> y = Nowhere
    BY <2>7, <2>8
  <2>11. /\ x.coordinates = y.coordinates /\ x.country = y.country /\ x.asn = y.asn
         /\ x.organization = y.organization /\ x.type = y.type
    BY <2>7, <2>8, <2>9
  <2>12. Alike(x, y)
    BY <2>10, <2>11 DEF Alike
  <2> QED
    BY <2>5, <2>6, <2>12 DEF x, y
<1> QED
  BY <1>3, <1>4

\* A location is read from two providers and the registration.
LEMMA LocationsAgree ==
  ASSUME NEW i, NEW j, i.rdap = j.rdap,
         Alike(ResultOf(i, "ipinfo"), ResultOf(j, "ipinfo")),
         Alike(ResultOf(i, "geoip"), ResultOf(j, "geoip"))
  PROVE  NetworkGeo(i) = NetworkGeo(j)
<1> DEFINE x == ResultOf(i, "ipinfo")  y == ResultOf(i, "geoip")
           v == ResultOf(j, "ipinfo")  w == ResultOf(j, "geoip")
           Placed(a, b) == a.coordinates \/ (~b.coordinates /\ a # Nowhere)
           Place(a, b) == IF Placed(a, b) THEN a ELSE b
           Merge(a, b, place, g) ==
              [coordinates |-> place.coordinates, country |-> place.country,
               asn |-> FirstOf(a.asn, b.asn, g.asn, 0),
               organization |-> FirstOf(a.organization, b.organization, g.organization, "none"),
               type |-> FirstOf(a.type, b.type, "none", "none")]
<1>1. Registration(i) = Registration(j)
  BY DEF Registration
<1>2. /\ NetworkGeo(i) = Merge(x, y, Place(x, y), Registration(i))
      /\ NetworkGeo(j) = Merge(v, w, Place(v, w), Registration(j))
  BY Zenon DEF NetworkGeo, HasCoordinates
<1>3. Alike(x, v) /\ Alike(y, w)
  OBVIOUS
<1> HIDE DEF x, y, v, w
<1>4. Placed(x, y) <=> Placed(v, w)
  BY <1>3, Zenon DEF Alike
<1>5. /\ Place(x, y).coordinates = Place(v, w).coordinates
      /\ Place(x, y).country = Place(v, w).country
  <2> HIDE DEF Placed
  <2>1. CASE Placed(x, y)
    <3>1. Place(x, y) = x /\ Place(v, w) = v
      BY <1>4, <2>1
    <3> HIDE DEF Place
    <3> QED
      BY <1>3, <3>1, Zenon DEF Alike
  <2>2. CASE ~Placed(x, y)
    <3>1. Place(x, y) = y /\ Place(v, w) = w
      BY <1>4, <2>2
    <3> HIDE DEF Place
    <3> QED
      BY <1>3, <3>1, Zenon DEF Alike
  <2> QED
    BY <2>1, <2>2
<1> HIDE DEF Place
<1>6. Merge(x, y, Place(x, y), Registration(i)) = Merge(v, w, Place(v, w), Registration(j))
  BY <1>1, <1>3, <1>5, Zenon DEF Alike
<1> QED
  BY <1>2, <1>6

\* The rows of the candidate with and without the flags tell one location.
LEMMA BareLocation ==
  ASSUME NEW i, DOMAIN i = ItemFields, Single(i.providers)
  PROVE  /\ NetworkGeo(Bare(i)) = NetworkGeo(i)
         /\ NetworkGeo([Bare(i) EXCEPT !.rdap.status = "Disabled"])
              = NetworkGeo([i EXCEPT !.rdap.status = "Disabled"])
<1>1. /\ Alike(ResultOf(Bare(i), "ipinfo"), ResultOf(i, "ipinfo"))
      /\ Alike(ResultOf(Bare(i), "geoip"), ResultOf(i, "geoip"))
  <2>1. \A x, y : Alike(x, y) => Alike(y, x)
    BY Zenon DEF Alike
  <2>2. /\ Alike(ResultOf(i, "ipinfo"), ResultOf(Bare(i), "ipinfo"))
        /\ Alike(ResultOf(i, "geoip"), ResultOf(Bare(i), "geoip"))
    BY ResultsAreAlike DEF Geographic
  <2> QED
    BY <2>1, <2>2
<1>2. NetworkGeo(Bare(i)) = NetworkGeo(i)
  BY <1>1, BareKeeps, LocationsAgree
<1> DEFINE Silent(x) == [x EXCEPT !.rdap.status = "Disabled"]
<1>3. ASSUME NEW x, DOMAIN x = ItemFields
      PROVE  /\ Silent(x).rdap = [x.rdap EXCEPT !.status = "Disabled"]
             /\ \A q : ResultOf(Silent(x), q) = ResultOf(x, q)
  <2>1. /\ Silent(x).rdap = [x.rdap EXCEPT !.status = "Disabled"]
        /\ Silent(x).providers = x.providers
    BY <1>3 DEF ItemFields
  <2> HIDE DEF Silent
  <2> QED
    BY <2>1 DEF ResultOf
<1>4. NetworkGeo(Silent(Bare(i))) = NetworkGeo(Silent(i))
  <2>1. /\ Silent(Bare(i)).rdap = Silent(i).rdap
        /\ \A q : ResultOf(Silent(Bare(i)), q) = ResultOf(Bare(i), q)
        /\ \A q : ResultOf(Silent(i), q) = ResultOf(i, q)
    <3> HIDE DEF Silent
    <3>1. DOMAIN Bare(i) = ItemFields /\ Bare(i).rdap = i.rdap
      BY BareKeeps
    <3>2. /\ Silent(Bare(i)).rdap = [Bare(i).rdap EXCEPT !.status = "Disabled"]
          /\ \A q : ResultOf(Silent(Bare(i)), q) = ResultOf(Bare(i), q)
      BY <1>3, <3>1
    <3>3. /\ Silent(i).rdap = [i.rdap EXCEPT !.status = "Disabled"]
          /\ \A q : ResultOf(Silent(i), q) = ResultOf(i, q)
      BY <1>3
    <3>4. [Bare(i).rdap EXCEPT !.status = "Disabled"] = [i.rdap EXCEPT !.status = "Disabled"]
      BY <3>1
    <3> QED
      BY <3>2, <3>3, <3>4
  <2> HIDE DEF Silent
  <2> QED
    BY <1>1, <2>1, LocationsAgree
<1> QED
  BY <1>2, <1>4

\* What one result says of the infrastructure.
Stated(r) == {[kind |-> k, basis |-> "REPORTED"] : k \in FieldOf(r, "flags", {})}
             \cup {[kind |-> k, basis |-> "INFERRED"] :
                    k \in InferredKinds(FieldOf(r, "organization", "none"))}
ResultsIn(i) == {a.result : a \in Available(i.providers)}
                  \cup {r.result : r \in Available({i.rdap})}
Reported(kinds) == \E k \in Anonymizing : [kind |-> k, basis |-> "REPORTED"] \in kinds
Hosted(kinds) == \E k \in kinds : k.kind = "HOSTING"

LEMMA BareSays ==
  ASSUME NEW a, {"provider", "status"} \subseteq DOMAIN a, "result" \in DOMAIN a
  PROVE  /\ ~Reported(Stated(Plain(a).result))
         /\ Hosted(Stated(Plain(a).result)) <=> Hosted(Stated(a.result))
<1> DEFINE x == a.result
           y == Plain(a).result
<1>1. /\ DOMAIN y = DOMAIN x
      /\ \A f \in DOMAIN x \ {"flags"} : y[f] = x[f]
      /\ "flags" \in DOMAIN x => y.flags = x.flags \ Anonymizing
  BY PlainKeeps
<1> HIDE DEF x, y
<1>2. FieldOf(y, "flags", {}) = FieldOf(x, "flags", {}) \ Anonymizing
  BY <1>1 DEF FieldOf
<1>3. FieldOf(y, "organization", "none") = FieldOf(x, "organization", "none")
  BY <1>1 DEF FieldOf
<1>4. ~Reported(Stated(y))
  BY <1>2 DEF Reported, Stated
<1>5. "HOSTING" \notin Anonymizing
  BY DEF Anonymizing
<1>6. Hosted(Stated(y)) <=> Hosted(Stated(x))
  BY <1>2, <1>3, <1>5 DEF Hosted, Stated
<1> QED
  BY <1>4, <1>6 DEF x, y

LEMMA IndicatorsAreStated ==
  ASSUME NEW n, NEW ip, NEW i, ItemsOf(n, ip) = {i}
  PROVE  InfrastructureIndicators(n, ip) = UNION {Stated(r) : r \in ResultsIn(i)}
<1> DEFINE results == UNION {ResultsIn(x) : x \in ItemsOf(n, ip)}
<1>1. InfrastructureIndicators(n, ip) = UNION {Stated(r) : r \in results}
  BY Zenon DEF InfrastructureIndicators, Stated, ResultsIn
<1>2. results = ResultsIn(i)
  BY DEF ResultsIn
<1> HIDE DEF results
<1> QED
  BY <1>1, <1>2

LEMMA BareIndicators ==
  ASSUME NEW n, NEW k, NEW ip, NEW i, ItemsOf(n, ip) = {i}, ItemsOf(k, ip) = {Bare(i)},
         DOMAIN i = ItemFields, Single(i.providers),
         i.rdap.status = "Available" => "flags" \notin DOMAIN i.rdap.result
  PROVE  /\ ~Reported(InfrastructureIndicators(k, ip))
         /\ Hosted(InfrastructureIndicators(k, ip)) <=> Hosted(InfrastructureIndicators(n, ip))
<1> DEFINE Registered == {r.result : r \in Available({i.rdap})}
           plain == {Plain(a).result : a \in Available(i.providers)}
           told == {a.result : a \in Available(i.providers)}
<1>1. ResultsIn(i) = told \cup Registered
  BY DEF ResultsIn
<1>2. ResultsIn(Bare(i)) = plain \cup Registered
  <2>1. \A a \in i.providers : Plain(a).status = a.status
    BY PlainKeeps DEF Single
  <2>2. Available(Bare(i).providers) = {Plain(a) : a \in Available(i.providers)}
    BY <2>1, BareKeeps DEF Available
  <2>3. Bare(i).rdap = i.rdap
    BY BareKeeps
  <2> QED
    BY <2>2, <2>3 DEF ResultsIn
<1>3. ASSUME NEW a \in Available(i.providers)
      PROVE  /\ ~Reported(Stated(Plain(a).result))
             /\ Hosted(Stated(Plain(a).result)) <=> Hosted(Stated(a.result))
  <2>1. /\ {"provider", "status"} \subseteq DOMAIN a /\ "result" \in DOMAIN a
    BY DEF Single, Available
  <2> QED
    BY <2>1, BareSays
<1>4. \A r \in Registered : ~Reported(Stated(r))
  <2> SUFFICES ASSUME NEW r \in Registered PROVE ~Reported(Stated(r))
    OBVIOUS
  <2>1. "flags" \notin DOMAIN r
    BY DEF Available
  <2> QED
    BY <2>1 DEF Reported, Stated, FieldOf
<1> HIDE DEF Registered
<1>5. /\ InfrastructureIndicators(n, ip) = UNION {Stated(r) : r \in told \cup Registered}
      /\ InfrastructureIndicators(k, ip) = UNION {Stated(r) : r \in plain \cup Registered}
  BY <1>1, <1>2, IndicatorsAreStated
<1>6. ~Reported(InfrastructureIndicators(k, ip))
  <2>1. \A S : Reported(UNION {Stated(r) : r \in S}) => \E r \in S : Reported(Stated(r))
    BY DEF Reported
  <2>2. \A r \in plain \cup Registered : ~Reported(Stated(r))
    BY <1>3, <1>4
  <2> HIDE DEF plain
  <2> QED
    BY <1>5, <2>1, <2>2
<1>7. /\ Hosted(InfrastructureIndicators(n, ip)) <=> \E r \in told \cup Registered : Hosted(Stated(r))
      /\ Hosted(InfrastructureIndicators(k, ip)) <=> \E r \in plain \cup Registered : Hosted(Stated(r))
  BY <1>5 DEF Hosted
<1>8. (\E r \in told : Hosted(Stated(r))) <=> (\E r \in plain : Hosted(Stated(r)))
  BY <1>3
<1> QED
  BY <1>6, <1>7, <1>8

\* What the score of a candidate is made of, given its row.
Supports(p, i, seen, named) ==
    25 + 15
    + PointsIf(ChainConsistent(p), 10)
    + PointsIf(seen /\ NetworkGeo(i).country, 10)
    + PointsIf(seen /\ \E a \in Available(i.providers) : a.provider = "ipinfo", 5)
    + PointsIf(seen /\ NetworkGeo(i).asn # 0, 10)
    + PointsIf(named, 10)
    + PointsIf(/\ seen /\ i.rdap.status = "Available"
               /\ CrossCheck(i, Registration(i)) = "Consistent", 5)
Operator(i, seen) ==
    IF ~seen THEN None
    ELSE IF MailCloudProvider(NetworkGeo(i).organization) # None
    THEN MailCloudProvider(NetworkGeo(i).organization)
    ELSE MailCloudProvider(Registration(i).organization)
Burdens(p, i, seen, reported, hosted) ==
      PointsIf(/\ seen /\ i.rdap.status = "Available"
               /\ CrossCheck(i, Registration(i)) = "Mismatch", 10)
    + PointsIf(p.anomaly, 20)
    + PointsIf(reported, 15)
    + PointsIf(\/ Operator(i, seen) # None \/ hosted
               \/ seen /\ NetworkGeo(i).type = "hosting", 15)
    + PointsIf(Operator(i, seen) \in {"google", "microsoft"}, 10)

Scored(p, n, ip, i) ==
    /\ SupportingPoints(p, n, ip)
         = Supports(p, i, {i} # {}, \E d \in n : d.type = "domain" /\ ip \in d.dns)
    /\ Penalties(p, n, ip)
         = Burdens(p, i, {i} # {}, Reported(InfrastructureIndicators(n, ip)),
                   Hosted(InfrastructureIndicators(n, ip)))

LEMMA CandidateIsScored ==
  ASSUME NEW p, NEW n, NEW ip, NEW i, ItemsOf(n, ip) = {i}
  PROVE  Scored(p, n, ip, i)
<1>1. First({i}) = i
  BY DEF First
<1>2. SupportingPoints(p, n, ip)
         = Supports(p, First(ItemsOf(n, ip)), ItemsOf(n, ip) # {},
                    \E d \in n : d.type = "domain" /\ ip \in d.dns)
  BY Zenon DEF SupportingPoints, Supports, First
<1>3. Penalties(p, n, ip)
         = Burdens(p, First(ItemsOf(n, ip)), ItemsOf(n, ip) # {},
                   Reported(InfrastructureIndicators(n, ip)),
                   Hosted(InfrastructureIndicators(n, ip)))
  BY Zenon DEF Penalties, Burdens, Operator, Reported, Hosted, First
<1> QED
  BY <1>1, <1>2, <1>3, Zenon DEF Scored

LEMMA BareRow ==
  ASSUME NEW i, DOMAIN i = ItemFields, Single(i.providers)
  PROVE  LET j == Bare(i) IN
         /\ NetworkGeo(j) = NetworkGeo(i) /\ Registration(j) = Registration(i)
         /\ j.rdap = i.rdap
         /\ CrossCheck(j, Registration(j)) = CrossCheck(i, Registration(i))
         /\ (\E a \in Available(j.providers) : a.provider = "ipinfo")
              <=> (\E a \in Available(i.providers) : a.provider = "ipinfo")
<1> DEFINE j == Bare(i)
<1>1. j.rdap = i.rdap /\ j.providers = {Plain(a) : a \in i.providers}
  BY BareKeeps
<1>2. /\ NetworkGeo(j) = NetworkGeo(i)
      /\ NetworkGeo([j EXCEPT !.rdap.status = "Disabled"])
           = NetworkGeo([i EXCEPT !.rdap.status = "Disabled"])
  BY BareLocation
<1> HIDE DEF j
<1>3. Registration(j) = Registration(i)
  BY <1>1 DEF Registration
<1>4. CrossCheck(j, Registration(j)) = CrossCheck(i, Registration(i))
  BY <1>2, <1>3, Zenon DEF CrossCheck
<1>5. \A a \in i.providers : Plain(a).provider = a.provider /\ Plain(a).status = a.status
  BY PlainKeeps DEF Single
<1>6. (\E a \in Available(j.providers) : a.provider = "ipinfo")
        <=> (\E a \in Available(i.providers) : a.provider = "ipinfo")
  BY <1>1, <1>5 DEF Available
<1> QED
  BY <1>1, <1>2, <1>3, <1>4, <1>6 DEF j

LEMMA PointsAreNatural == ASSUME NEW x, NEW k \in Nat PROVE PointsIf(x, k) \in Nat
  BY DEF PointsIf

LEMMA SupportIsKept ==
  ASSUME NEW p, NEW i, DOMAIN i = ItemFields, Single(i.providers),
         NEW named, NEW bare, named <=> bare
  PROVE  /\ Supports(p, i, {i} # {}, named) = Supports(p, Bare(i), {Bare(i)} # {}, bare)
         /\ Supports(p, i, {i} # {}, named) \in Nat
<1> DEFINE j == Bare(i)
           chain == PointsIf(ChainConsistent(p), 10)
           a1 == PointsIf({i} # {} /\ NetworkGeo(i).country, 10)
           b1 == PointsIf({j} # {} /\ NetworkGeo(j).country, 10)
           a2 == PointsIf({i} # {} /\ \E a \in Available(i.providers) : a.provider = "ipinfo", 5)
           b2 == PointsIf({j} # {} /\ \E a \in Available(j.providers) : a.provider = "ipinfo", 5)
           a3 == PointsIf({i} # {} /\ NetworkGeo(i).asn # 0, 10)
           b3 == PointsIf({j} # {} /\ NetworkGeo(j).asn # 0, 10)
           a4 == PointsIf(named, 10)
           b4 == PointsIf(bare, 10)
           a5 == PointsIf(/\ {i} # {} /\ i.rdap.status = "Available"
                          /\ CrossCheck(i, Registration(i)) = "Consistent", 5)
           b5 == PointsIf(/\ {j} # {} /\ j.rdap.status = "Available"
                          /\ CrossCheck(j, Registration(j)) = "Consistent", 5)
<1>1. /\ NetworkGeo(j) = NetworkGeo(i) /\ j.rdap = i.rdap
      /\ CrossCheck(j, Registration(j)) = CrossCheck(i, Registration(i))
      /\ (\E a \in Available(j.providers) : a.provider = "ipinfo")
           <=> (\E a \in Available(i.providers) : a.provider = "ipinfo")
  BY BareRow
<1>2. chain \in Nat /\ a1 \in Nat /\ a2 \in Nat /\ a3 \in Nat /\ a4 \in Nat /\ a5 \in Nat
  BY PointsAreNatural, Zenon
<1>3. /\ Supports(p, i, {i} # {}, named) = 25 + 15 + chain + a1 + a2 + a3 + a4 + a5
      /\ Supports(p, j, {j} # {}, bare) = 25 + 15 + chain + b1 + b2 + b3 + b4 + b5
  BY Zenon DEF Supports
<1> HIDE DEF j
<1>4. a1 = b1 /\ a3 = b3
  BY <1>1 DEF PointsIf
<1>5. a2 = b2
  BY <1>1 DEF PointsIf
<1>6. a4 = b4
  BY DEF PointsIf
<1>7. a5 = b5
  BY <1>1 DEF PointsIf
<1> HIDE DEF chain, a1, b1, a2, b2, a3, b3, a4, b4, a5, b5
<1>8. /\ Supports(p, i, {i} # {}, named) = Supports(p, j, {j} # {}, bare)
      /\ Supports(p, i, {i} # {}, named) \in Nat
  BY <1>2, <1>3, <1>4, <1>5, <1>6, <1>7
<1> QED
  BY <1>8 DEF j

\* The flags weigh 15, whatever else does.
Weighs(p, i, kinds, rest) ==
    /\ Burdens(p, Bare(i), {Bare(i)} # {}, Reported(rest), Hosted(rest)) \in Nat
    /\ Burdens(p, i, {i} # {}, Reported(kinds), Hosted(kinds))
         = Burdens(p, Bare(i), {Bare(i)} # {}, Reported(rest), Hosted(rest)) + 15

LEMMA FlagsWeigh ==
  ASSUME NEW p, NEW i, DOMAIN i = ItemFields, Single(i.providers),
         NEW kinds, Reported(kinds), NEW rest, ~Reported(rest), Hosted(rest) <=> Hosted(kinds)
  PROVE  Weighs(p, i, kinds, rest)
<1> DEFINE j == Bare(i)
           late == PointsIf(p.anomaly, 20)
           a1 == PointsIf(/\ {i} # {} /\ i.rdap.status = "Available"
                          /\ CrossCheck(i, Registration(i)) = "Mismatch", 10)
           b1 == PointsIf(/\ {j} # {} /\ j.rdap.status = "Available"
                          /\ CrossCheck(j, Registration(j)) = "Mismatch", 10)
           a2 == PointsIf(Reported(kinds), 15)
           b2 == PointsIf(Reported(rest), 15)
           a3 == PointsIf(\/ Operator(i, {i} # {}) # None \/ Hosted(kinds)
                          \/ {i} # {} /\ NetworkGeo(i).type = "hosting", 15)
           b3 == PointsIf(\/ Operator(j, {j} # {}) # None \/ Hosted(rest)
                          \/ {j} # {} /\ NetworkGeo(j).type = "hosting", 15)
           a4 == PointsIf(Operator(i, {i} # {}) \in {"google", "microsoft"}, 10)
           b4 == PointsIf(Operator(j, {j} # {}) \in {"google", "microsoft"}, 10)
           whole == Burdens(p, i, {i} # {}, Reported(kinds), Hosted(kinds))
           less == Burdens(p, j, {j} # {}, Reported(rest), Hosted(rest))
<1>1. /\ NetworkGeo(j) = NetworkGeo(i) /\ j.rdap = i.rdap
      /\ Registration(j) = Registration(i)
      /\ CrossCheck(j, Registration(j)) = CrossCheck(i, Registration(i))
  BY BareRow
<1>2. late \in Nat /\ a1 \in Nat /\ a3 \in Nat /\ a4 \in Nat
  BY PointsAreNatural, Zenon
<1>3. whole = a1 + late + a2 + a3 + a4 /\ less = b1 + late + b2 + b3 + b4
  BY Zenon DEF Burdens
<1> HIDE DEF j
<1>4. a1 = b1
  BY <1>1 DEF PointsIf
<1>5. a2 = 15 /\ b2 = 0
  BY DEF PointsIf
<1>6. Operator(i, {i} # {}) = Operator(j, {j} # {})
  <2>1. {i} # {} /\ {j} # {}
    OBVIOUS
  <2> QED
    BY <1>1, <2>1 DEF Operator
<1>7. a3 = b3 /\ a4 = b4
  BY <1>1, <1>6 DEF PointsIf
<1> HIDE DEF late, a1, b1, a2, b2, a3, b3, a4, b4, whole, less
<1>8. less \in Nat /\ whole = less + 15
  BY <1>2, <1>3, <1>4, <1>5, <1>7
<1> QED
  BY <1>8, Zenon DEF Weighs, j, whole, less

LEMMA OriginFields ==
  ASSUME NEW p, NEW n
  PROVE  /\ OriginConfidence(p, n).candidate = Candidate(p)
         /\ OriginConfidence(p, n).score =
              IF Candidate(p) = None THEN 0
              ELSE OriginScore(SupportingPoints(p, n, Candidate(p)),
                               Penalties(p, n, Candidate(p)))
         /\ OriginConfidence(p, n).infrastructure =
              IF Candidate(p) = None THEN {} ELSE InfrastructureIndicators(n, Candidate(p))
  BY DEF OriginConfidence

\* The ceiling comes before the penalties: what is taken off always tells.
LEMMA PenaltiesTell ==
  ASSUME NEW s \in Nat, NEW x \in Nat
  PROVE  OriginScore(s, x + 15) = 0 \/ OriginScore(s, x + 15) < OriginScore(s, x)
  BY DEF OriginScore, CapAt, AtLeast, OriginCap

LEMMA IndicatorsAreRecords ==
  ASSUME NEW n, NEW ip, NEW k \in InfrastructureIndicators(n, ip),
         k.kind \in Anonymizing, k.basis = "REPORTED"
  PROVE  Reported(InfrastructureIndicators(n, ip))
<1>1. PICK r : k \in Stated(r) /\ Stated(r) \subseteq InfrastructureIndicators(n, ip)
  <2> DEFINE results == UNION {ResultsIn(x) : x \in ItemsOf(n, ip)}
  <2>1. InfrastructureIndicators(n, ip) = UNION {Stated(r) : r \in results}
    BY Zenon DEF InfrastructureIndicators, Stated, ResultsIn
  <2> HIDE DEF results
  <2> QED
    BY <2>1
<1>2. k = [kind |-> k.kind, basis |-> "REPORTED"]
  BY <1>1 DEF Stated
<1> QED
  BY <1>1, <1>2 DEF Reported

LEMMA FlagsLowerOrigin ==
  ASSUME NEW m \in Messages, NEW p, NEW c, Worked(m, p, c), NEW n, Answered(p, c, n),
         NEW k \in OriginConfidence(p, n).infrastructure,
         k.kind \in Anonymizing, k.basis = "REPORTED"
  PROVE  LET plain == {Bare(i) : i \in n} IN
         \/ OriginConfidence(p, n).score = 0
         \/ OriginConfidence(p, n).score < OriginConfidence(p, plain).score
<1> DEFINE plain == {Bare(i) : i \in n}
           ip == Candidate(p)
           kinds == InfrastructureIndicators(n, ip)
           rest == InfrastructureIndicators(plain, ip)
<1>1. ip # None /\ k \in kinds
  BY OriginFields
<1>2. PICK r \in Reports : ItemsOf(n, ip) = {Item([type |-> "ip", value |-> ip], r, c)}
  BY <1>1, CandidateIsAsked
<1> DEFINE i == Item([type |-> "ip", value |-> ip], r, c)
<1>3. /\ Single(i.providers)
      /\ i.rdap.status = "Available" => "flags" \notin DOMAIN i.rdap.result
  BY LookupIsSingle
<1> HIDE DEF i
<1>4. ItemsOf(n, ip) = {i}
  BY <1>2 DEF i
<1>5. \A x \in n : DOMAIN x = ItemFields
  BY ItemsAreRecords
<1>6. DOMAIN i = ItemFields
  BY <1>4, <1>5 DEF ItemsOf
<1>7. \A x \in n : Bare(x).type = x.type /\ Bare(x).query = x.query /\ Bare(x).dns = x.dns
  BY <1>5, BareKeeps
<1> HIDE DEF ip
<1>8. ItemsOf(plain, ip) = {Bare(i)}
  BY <1>4, <1>7 DEF ItemsOf
<1> DEFINE named == \E d \in n : d.type = "domain" /\ ip \in d.dns
           bare == \E d \in plain : d.type = "domain" /\ ip \in d.dns
<1>9. named <=> bare
  BY <1>7
<1> HIDE DEF plain
<1>10. Reported(kinds)
  BY <1>1, IndicatorsAreRecords
<1>11. ~Reported(rest) /\ (Hosted(rest) <=> Hosted(kinds))
  BY <1>3, <1>4, <1>6, <1>8, BareIndicators
<1> DEFINE support == Supports(p, i, {i} # {}, named)
           burden == Burdens(p, Bare(i), {Bare(i)} # {}, Reported(rest), Hosted(rest))
<1>12. /\ SupportingPoints(p, n, ip) = Supports(p, i, {i} # {}, named)
       /\ Penalties(p, n, ip) = Burdens(p, i, {i} # {}, Reported(kinds), Hosted(kinds))
  <2>1. Scored(p, n, ip, i)
    BY <1>4, CandidateIsScored
  <2> QED
    BY <2>1, Zenon DEF Scored
<1>13. /\ SupportingPoints(p, plain, ip) = Supports(p, Bare(i), {Bare(i)} # {}, bare)
       /\ Penalties(p, plain, ip) = burden
  <2>1. Scored(p, plain, ip, Bare(i))
    BY <1>8, CandidateIsScored
  <2> QED
    BY <2>1, Zenon DEF Scored
<1> HIDE DEF kinds, rest, named, bare
<1>14. /\ Supports(p, i, {i} # {}, named) = Supports(p, Bare(i), {Bare(i)} # {}, bare)
       /\ support \in Nat
  BY <1>3, <1>6, <1>9, SupportIsKept
<1>15. /\ burden \in Nat
       /\ Burdens(p, i, {i} # {}, Reported(kinds), Hosted(kinds)) = burden + 15
  <2>1. Weighs(p, i, kinds, rest)
    BY <1>3, <1>6, <1>10, <1>11, FlagsWeigh
  <2> QED
    BY <2>1, Zenon DEF Weighs
<1>16. /\ SupportingPoints(p, n, ip) = support /\ SupportingPoints(p, plain, ip) = support
       /\ Penalties(p, n, ip) = burden + 15 /\ Penalties(p, plain, ip) = burden
  BY <1>12, <1>13, <1>14, <1>15, Zenon
<1> HIDE DEF support, burden
<1>17. \/ OriginScore(support, burden + 15) = 0
       \/ OriginScore(support, burden + 15) < OriginScore(support, burden)
  BY <1>14, <1>15, PenaltiesTell
<1>18. /\ OriginConfidence(p, n).score = OriginScore(support, burden + 15)
       /\ OriginConfidence(p, plain).score = OriginScore(support, burden)
  BY <1>1, <1>16, OriginFields DEF ip
<1>19. \/ OriginConfidence(p, n).score = 0
       \/ OriginConfidence(p, n).score < OriginConfidence(p, plain).score
  BY <1>17, <1>18
<1> QED
  BY <1>19 DEF plain

\* A provider's word that the candidate is an anonymizing service always costs
\* confidence, however much else is known: the ceiling hides none of it.
THEOREM ObscuringLowers == Spec => []ObscuringLowersOrigin
<1>1. ASSUME DataInv PROVE ObscuringLowersOrigin
  <2>1. ASSUME NEW e \in Finished,
               NEW k \in analyses[e].origin.infrastructure,
               k.kind \in Anonymizing, k.basis = "REPORTED"
        PROVE  \/ analyses[e].origin.score = 0
               \/ analyses[e].origin.score
                    < OriginConfidence(parsed[e], {Bare(i) : i \in enrichment[e]}).score
    <3> DEFINE m == message[e]  p == parsed[e]  c == config[e]  n == enrichment[e]
               l == ml[e]  r == related[e]
    <3>1. /\ m \in Messages /\ Worked(m, p, c) /\ Answered(p, c, n)
          /\ analyses[e] = AnalysisOf(e, p, c, l, n, r)
      BY <1>1, FinishedData
    <3> HIDE DEF m, p, c, n, l, r
    <3>2. analyses[e].origin = OriginConfidence(p, n)
      BY <3>1, AnalysisFields
    <3>3. \/ OriginConfidence(p, n).score = 0
          \/ OriginConfidence(p, n).score < OriginConfidence(p, {Bare(i) : i \in n}).score
      BY <2>1, <3>1, <3>2, FlagsLowerOrigin
    <3>4. \/ analyses[e].origin.score = 0
          \/ analyses[e].origin.score < OriginConfidence(p, {Bare(i) : i \in n}).score
      BY <3>2, <3>3
    <3> QED
      BY <3>4 DEF p, n
  <2>2. ObscuringLowersOrigin <=>
          \A e \in Finished :
             LET unflagged == {Bare(i) : i \in enrichment[e]}
             IN  (/\ unflagged # enrichment[e]
                  /\ \E k \in analyses[e].origin.infrastructure :
                        k.kind \in Anonymizing /\ k.basis = "REPORTED")
                 => \/ analyses[e].origin.score = 0
                    \/ analyses[e].origin.score
                         < OriginConfidence(parsed[e], unflagged).score
    BY Zenon DEF ObscuringLowersOrigin, Bare, Plain
  <2> QED
    BY <2>1, <2>2
<1> QED
  BY <1>1, DataIsTraced, PTL

----------------------------------------------------------------------------
(* The graph. *)

\* One undirected step from a set of nodes, and the sets reached step by step.
Neighbours(g, S) == {e.to : e \in {x \in g.edges : x.from \in S}}
                      \cup {e.from : e \in {x \in g.edges : x.to \in S}}
Near(g, S) == S \cup Neighbours(g, S)
Reaches(g, node, N, f) ==
    f = [k \in 0..N |-> IF k = 0 THEN {node} ELSE Near(g, f[k - 1])]

LEMMA ReachesUnfold ==
  ASSUME NEW g, NEW node, NEW N \in Nat, NEW f, Reaches(g, node, N, f)
  PROVE  /\ f[0] = {node}
         /\ \A k \in 1..N : f[k] = Near(g, f[k - 1])
<1> DEFINE h == [k \in 0..N |-> IF k = 0 THEN {node} ELSE Near(g, f[k - 1])]
<1>1. f = h
  BY Zenon DEF Reaches
<1>2. h[0] = {node} /\ \A k \in 1..N : h[k] = Near(g, f[k - 1])
  OBVIOUS
<1> HIDE DEF h
<1> QED
  BY <1>1, <1>2

\* When two steps from a node reach all, its cluster is the graph.
LEMMA TwoStepsAreEnough ==
  ASSUME NEW g, NEW node, Cardinality(g.nodes) \in Nat, Cardinality(g.nodes) >= 2,
         Near(g, Near(g, {node})) = g.nodes, Near(g, g.nodes) = g.nodes
  PROVE  Cluster(g, node) = g.nodes
<1> DEFINE N == Cardinality(g.nodes)
           one == Near(g, {node})
           f == [k \in 0..N |-> IF k = 0 THEN {node} ELSE IF k = 1 THEN one ELSE g.nodes]
           w == CHOOSE h : Reaches(g, node, N, h)
<1>1. Cluster(g, node) = w[N]
  BY Zenon DEF Cluster, Reaches, Near, Neighbours
<1>2. N \in Nat /\ N >= 2
  OBVIOUS
<1> HIDE DEF N
<1>3. Reaches(g, node, N, f)
  <2>1. \A k \in 0..N : k # 0 =>
            (IF k = 1 THEN one ELSE g.nodes) = Near(g, f[k - 1])
    <3> TAKE k \in 0..N
    <3> HAVE k # 0
    <3>1. k - 1 \in 0..N
      BY <1>2
    <3>2. f[k - 1] = IF k - 1 = 0 THEN {node} ELSE IF k - 1 = 1 THEN one ELSE g.nodes
      BY <3>1
    <3> HIDE DEF f
    <3> QED
      BY <1>2, <3>2
  <2> HIDE DEF one
  <2>2. f = [k \in 0..N |-> IF k = 0 THEN {node} ELSE Near(g, f[k - 1])]
    <3>1. f = [k \in 0..N |-> IF k = 0 THEN {node} ELSE IF k = 1 THEN one ELSE g.nodes]
      OBVIOUS
    <3> HIDE DEF f
    <3> QED
      BY <2>1, <3>1
  <2> HIDE DEF f
  <2> QED
    BY <2>2, Zenon DEF Reaches
<1>4. Reaches(g, node, N, w)
  <2> HIDE DEF f
  <2> QED
    BY <1>3
<1> HIDE DEF w, f
<1>5. w[0] = {node} /\ \A k \in 1..N : w[k] = Near(g, w[k - 1])
  BY <1>2, <1>4, ReachesUnfold
<1>6. w[1] = one /\ w[2] = g.nodes
  <2>1. w[1] = Near(g, w[0]) /\ w[2] = Near(g, w[1])
    BY <1>2, <1>5
  <2> QED
    BY <1>5, <2>1
<1>7. w[N] = g.nodes
  <2> DEFINE T == {k \in 2..N : w[k] # g.nodes}
  <2>1. SUFFICES ASSUME T # {} PROVE FALSE
    BY <1>2
  <2>2. PICK k \in T : \A j \in T : k <= j
    <3>1. T \in SUBSET Nat
      BY <1>2
    <3> HIDE DEF T
    <3> QED
      BY <2>1, <3>1, LeastNatural
  <2>3. k \in 3..N
    BY <1>2, <1>6
  <2>4. k - 1 \in 2..N /\ k - 1 \notin T
    BY <1>2, <2>2, <2>3
  <2>5. w[k - 1] = g.nodes
    BY <2>4
  <2>6. w[k] = Near(g, w[k - 1])
    BY <1>2, <1>5, <2>3
  <2> QED
    BY <2>5, <2>6
<1> QED
  BY <1>1, <1>7

Indicator(i) == [type |-> i.type, value |-> i.query]
Respelled(p) == \E i \in p.iocs : i.type = "domain" /\ Canonical[i.value] # i.value

\* A row answers for an indicator of the message, unless the lookup respelled it.
LEMMA ItemsAreIndicators ==
  ASSUME NEW m \in Messages, NEW p, NEW c, Worked(m, p, c), NEW n, Answered(p, c, n),
         ~Respelled(p), NEW i \in n
  PROVE  Indicator(i) \in p.iocs
<1>1. SameMail(p, m)
  BY ChecksKeepMail DEF Worked
<1>2. PICK r \in Reports : \E s \in SelectIndicators(Eligible(p), p.candidate, IndicatorLimit) :
            n = Answers(p, c, r, s)
  BY DEF Answered
<1>3. PICK s \in SelectIndicators(Eligible(p), p.candidate, IndicatorLimit) :
            n = Answers(p, c, r, s)
  BY <1>2
<1> DEFINE enr == {Item(x, r, c) : x \in s}
<1>4. n = enr \cup {Row(enr, ip) : ip \in Beyond(p, enr)}
  <2> HIDE DEF enr
  <2>1. Answers(p, c, r, s) = EnrichMailPath(p, enr, LocalGeo)
    BY Zenon DEF Answers, enr
  <2> QED
    BY <1>3, <2>1, PathIsEnriched
<1>5. s \subseteq p.iocs
  BY DEF SelectIndicators, Eligible
<1>6. /\ p.observed = ObservedIps(m, ReceivedChain(m)) /\ p.iocs = Parse(m).iocs
  BY <1>1 DEF SameMail, Parse
<1>7. CASE i \in enr
  <2>1. PICK x \in s : i = Item(x, r, c)
    BY <1>7
  <2>2. x \in p.iocs /\ x = [type |-> x.type, value |-> x.value]
    BY <1>5, <1>6, IndicatorsAreRows
  <2>3. i.type = x.type /\ i.query = x.value
    BY <2>1, <2>2 DEF Item, Unanswered, Lookup, Respelled
  <2> QED
    BY <2>2, <2>3 DEF Indicator
<1>8. CASE i \notin enr
  <2> HIDE DEF enr
  <2>1. PICK ip \in Beyond(p, enr) : i = Row(enr, ip)
    BY <1>4, <1>8
  <2>2. ip \in PathIps(p) /\ IsIp(ip)
    BY DEF Beyond
  <2>3. [type |-> "ip", value |-> ip] \in p.iocs
    BY <1>6, <2>2, AddressIsIndicator DEF PathIps
  <2> QED
    BY <2>1, <2>3 DEF Row, Indicator
<1> QED
  BY <1>7, <1>8

LEMMA LinksAreIndicators ==
  ASSUME NEW m, NEW p, SameMail(p, m), NEW u \in p.urls
  PROVE  [type |-> "url", value |-> u.url] \in p.iocs
<1> DEFINE sender == FirstOrNone(m.from)
<1>1. p.urls = {AnalyzeUrl(x, sender) : x \in m.urls}
  BY DEF SameMail, Parse
<1>2. PICK x \in m.urls : u = AnalyzeUrl(x, sender)
  BY <1>1
<1>3. u.url = x.url
  BY <1>2 DEF AnalyzeUrl
<1>4. \E ch, id, d : p.iocs = Iocs(m, ch, id, d)
  BY DEF SameMail, Parse
<1> QED
  BY <1>3, <1>4 DEF Iocs

\* Every edge of the graph starts at the message or next to it.
LEMMA EdgesStartNear ==
  ASSUME NEW m \in Messages, NEW p, NEW c, Worked(m, p, c), NEW n, Answered(p, c, n),
         ~Respelled(p), NEW e
  PROVE  LET g == Graph(e, p, n)
             near == Near(g, {<<"Email", e>>})
         IN  /\ \A x \in g.edges : x.from \in near /\ {x.from, x.to} \subseteq g.nodes
             /\ \A i \in n : <<KindOf[i.type], i.query>> \in near
             /\ g.nodes = (UNION {{x.from, x.to} : x \in g.edges})
                             \cup {<<KindOf[i.type], i.query>> : i \in n}
             /\ Edge(<<"Email", e>>, <<"Sender", p.sender>>, "SENT_FROM") \in g.edges
<1> DEFINE root == <<"Email", e>>
           g == Graph(e, p, n)
           enriched == UNION {EnrichmentEdges(i) : i \in n}
           place(i) == <<KindOf[i.type], i.query>>
<1>1. SameMail(p, m)
  BY ChecksKeepMail DEF Worked
<1>2. /\ g.edges = IdentityEdges(root, p) \cup ObservedEdges(root, p) \cup enriched
      /\ g.nodes = (UNION {{x.from, x.to} : x \in g.edges}) \cup {place(i) : i \in n}
  <2> DEFINE all == IdentityEdges(root, p) \cup ObservedEdges(root, p) \cup enriched
  <2>1. g = [nodes |-> (UNION {{x.from, x.to} : x \in all}) \cup {place(i) : i \in n},
             edges |-> all]
    BY Zenon DEF Graph
  <2> HIDE DEF all, g, place
  <2>2. g.edges = all /\ g.nodes = (UNION {{x.from, x.to} : x \in all}) \cup {place(i) : i \in n}
    BY <2>1
  <2> QED
    BY <2>2 DEF all
<1>3. \A i \in n : Indicator(i) \in p.iocs
  BY ItemsAreIndicators
<1>4. \A u \in p.urls : [type |-> "url", value |-> u.url] \in p.iocs
  BY <1>1, LinksAreIndicators
<1> HIDE DEF g, enriched, place
<1> DEFINE near == Near(g, {root})
<1>5. \A x \in g.edges : /\ x.from = root => x.to \in near
                         /\ x.to = root => x.from \in near
  BY DEF Near, Neighbours
<1>6. root \in near
  BY DEF Near
<1> HIDE DEF near
<1>7. \A i \in p.iocs : <<KindOf[i.type], i.value>> \in near
  <2> TAKE i \in p.iocs
  <2> DEFINE x == Edge(<<KindOf[i.type], i.value>>, root, "OBSERVED_IN")
  <2>1. x \in g.edges
    BY <1>2 DEF ObservedEdges
  <2>2. x.from = <<KindOf[i.type], i.value>> /\ x.to = root
    BY DEF Edge
  <2> QED
    BY <1>5, <2>1, <2>2
<1>8. \A i \in n : place(i) \in near
  <2> TAKE i \in n
  <2>1. Indicator(i).type = i.type /\ Indicator(i).value = i.query
    BY DEF Indicator
  <2> QED
    BY <1>3, <1>7, <2>1 DEF place
<1>9. ASSUME NEW x \in IdentityEdges(root, p) PROVE x.from \in near
  <2> DEFINE sender == <<"Sender", p.sender>>
  <2>1. Edge(root, sender, "SENT_FROM") \in g.edges
    BY <1>2 DEF IdentityEdges
  <2>2. sender \in near
    BY <1>5, <2>1 DEF Edge
  <2>3. \A r \in p.reply_to : <<"Reply-To", r>> \in near
    <3> TAKE r \in p.reply_to
    <3>1. Edge(root, <<"Reply-To", r>>, "REPLY_TO") \in g.edges
      BY <1>2 DEF IdentityEdges
    <3> QED
      BY <1>5, <3>1 DEF Edge
  <2>4. x.from \in {root, sender} \cup {<<"Reply-To", r>> : r \in p.reply_to}
    BY DEF IdentityEdges, Edge
  <2> QED
    BY <1>6, <2>2, <2>3, <2>4
<1>10. ASSUME NEW x \in ObservedEdges(root, p) PROVE x.from \in near
  <2>1. CASE \E i \in p.iocs : x = Edge(<<KindOf[i.type], i.value>>, root, "OBSERVED_IN")
    BY <1>7, <2>1 DEF Edge
  <2>2. CASE \E u \in p.urls :
                x = Edge(<<"URL", u.url>>, <<"Domain", u.domain>>, "LINKS_TO")
    <3>1. PICK u \in p.urls : x = Edge(<<"URL", u.url>>, <<"Domain", u.domain>>, "LINKS_TO")
      BY <2>2
    <3> DEFINE i == [type |-> "url", value |-> u.url]
    <3>2. i.type = "url" /\ i.value = u.url /\ i \in p.iocs
      BY <1>4
    <3> HIDE DEF i
    <3>3. <<"URL", u.url>> \in near
      BY <1>7, <3>2 DEF KindOf
    <3> QED
      BY <3>1, <3>3 DEF Edge
  <2> QED
    BY <2>1, <2>2 DEF ObservedEdges
<1>11. ASSUME NEW x \in enriched PROVE x.from \in near
  <2>1. PICK i \in n : x \in EnrichmentEdges(i)
    BY DEF enriched
  <2>2. \A a, b, label : Edge(a, b, label).from = a
    BY DEF Edge
  <2>3. \E b, label : x = Edge(<<KindOf[i.type], i.query>>, b, label)
    <3> DEFINE node == <<KindOf[i.type], i.query>>
               available == Available(i.providers)
               geo == NetworkGeo(i)
               located == \E a \in available : a.provider \in Geographic
               owner == Registration(i).organization
    <3>1. EnrichmentEdges(i)
            = {y \in {Edge(node, <<"Geo location", i.query>>, "LOCATED_IN")} : located}
              \cup {y \in {Edge(node, <<"ASN", geo.asn>>, "HOSTED_ON")} :
                      located /\ geo.asn # 0}
              \cup {Edge(node, <<"Threat intelligence", <<a.provider, i.query>> >>,
                         "ASSOCIATED_WITH") :
                      a \in {z \in available : z.provider \notin Geographic}}
              \cup {Edge(node, <<"IP", ip>>, "RESOLVES_TO") : ip \in i.dns}
              \cup {y \in {Edge(node, <<"Organization", owner>>, "REGISTERED_TO")} :
                      owner # "none"}
      BY Zenon DEF EnrichmentEdges
    <3> HIDE DEF node, available, geo, located, owner
    <3>2. \E b, label : x = Edge(node, b, label)
      BY <2>1, <3>1
    <3> QED
      BY <3>2 DEF node
  <2>4. x.from = place(i)
    BY <2>2, <2>3 DEF place
  <2> QED
    BY <1>8, <2>4
<1>12. \A x \in g.edges : x.from \in near
  BY <1>2, <1>9, <1>10, <1>11
<1>13. \A x \in g.edges : {x.from, x.to} \subseteq g.nodes
  BY <1>2
<1>14. Edge(root, <<"Sender", p.sender>>, "SENT_FROM") \in g.edges
  BY <1>2 DEF IdentityEdges
<1> QED
  BY <1>2, <1>8, <1>12, <1>13, <1>14 DEF near, g, place

LEMMA ImageOfFinite ==
  ASSUME NEW S, IsFiniteSet(S), NEW f, DOMAIN f = S
  PROVE  IsFiniteSet({f[x] : x \in S})
  BY ImageIsFinite

LEMMA ParsedIsFinite ==
  ASSUME NEW m \in Messages, NEW p, SameMail(p, m)
  PROVE  /\ IsFiniteSet(p.iocs) /\ IsFiniteSet(p.urls) /\ IsFiniteSet(p.reply_to)
         /\ IsFiniteSet(MessageIds(p)) /\ IsFiniteSet(PathIps(p))
<1>1. IsFiniteSet(p.iocs)
  BY IndicatorsAreFinite DEF SameMail
<1>2. IsFiniteSet(p.urls)
  <2> DEFINE sender == FirstOrNone(m.from)
             f == [u \in m.urls |-> AnalyzeUrl(u, sender)]
  <2>1. p.urls = {AnalyzeUrl(u, sender) : u \in m.urls}
    BY DEF SameMail, Parse
  <2>2. DOMAIN f = m.urls /\ p.urls = {f[u] : u \in m.urls}
    BY <2>1
  <2>3. IsFiniteSet(m.urls)
    BY MessagesAreRead
  <2> HIDE DEF f
  <2> QED
    BY <2>2, <2>3, ImageOfFinite
<1>3. IsFiniteSet(p.reply_to)
  <2>1. p.reply_to = Range(m.replyTo) /\ m.replyTo \in Seq(Range(m.replyTo))
    BY MessagesAreRead DEF SameMail, Parse
  <2> QED
    BY <2>1, RangeIsFinite
<1>4. IsFiniteSet(MessageIds(p))
  <2>1. IsFiniteSet({p.message_id, p.in_reply_to} \ {None})
    BY PairIsFinite, FS_RemoveElement
  <2>2. IsFiniteSet(p.references)
    BY MessagesAreRead DEF SameMail
  <2> QED
    BY <2>1, <2>2, FS_Union DEF MessageIds
<1>5. IsFiniteSet(PathIps(p))
  <2>1. IsFiniteSet(p.observed)
    BY ObservedAreFinite DEF SameMail, Parse
  <2> DEFINE S == {x \in p.iocs : x.type = "ip"}
             f == [i \in S |-> i.value]
  <2>2. IsFiniteSet(S)
    <3>1. S \in SUBSET p.iocs
      OBVIOUS
    <3> HIDE DEF S
    <3> QED
      BY <1>1, <3>1, FS_Subset
  <2>3. DOMAIN f = S /\ {f[i] : i \in S} = {i.value : i \in S}
    OBVIOUS
  <2>4. IsFiniteSet({i.value : i \in S})
    <3> HIDE DEF f, S
    <3> QED
      BY <2>2, <2>3, ImageOfFinite
  <2>5. PathIps(p) = p.observed \cup {i.value : i \in S}
    BY DEF PathIps
  <2> HIDE DEF S, f
  <2> QED
    BY <2>1, <2>4, <2>5, FS_Union
<1> QED
  BY <1>1, <1>2, <1>3, <1>4, <1>5

LEMMA ProvidersAreFinite == IsFiniteSet(Reputation \cup Geographic)
<1>1. /\ Reputation = {"virustotal", "abuseipdb"} \cup {"greynoise", "urlscan"}
      /\ Geographic = {"ipinfo", "geoip"}
  BY DEF Reputation, Geographic
<1> QED
  BY <1>1, PairIsFinite, FS_Union

LEMMA LookupIsFinite ==
  ASSUME NEW r \in Reports, NEW c, NEW i
  PROVE  IsFiniteSet(Item(i, r, c).providers) /\ IsFiniteSet(Item(i, r, c).dns)
<1>1. CASE i.value \notin DOMAIN r
  <2>1. Item(i, r, c).providers = {} /\ Item(i, r, c).dns = {}
    BY <1>1 DEF Item, Unanswered
  <2> QED
    BY <2>1, FS_EmptySet
<1>2. CASE i.value \in DOMAIN r
  <2> DEFINE external == c.external
             report == r[i.value]
             item == Lookup(i, report, external)
             all == Reputation \cup Geographic
             answers == [q \in all |-> Asked(i, report, external, q)]
  <2>1. Item(i, r, c) = item
    BY <1>2 DEF Item
  <2>2. item.providers \in SUBSET {answers[q] : q \in all}
    <3>1. \A q \in all : answers[q] = Asked(i, report, external, q)
      OBVIOUS
    <3>2. \A a \in item.providers : \E q \in all : a = Asked(i, report, external, q)
      <4> HIDE DEF external
      <4> QED
        BY <1>2, AnswersAreOwn
    <3> HIDE DEF item, answers, all, report
    <3> QED
      BY <3>1, <3>2
  <2>3. item.dns \in {report["dns"], {}}
    BY DEF Lookup
  <2>4. IsFiniteSet(report["dns"])
    BY <1>2, AnswersAreRecords
  <2>5. DOMAIN answers = all
    OBVIOUS
  <2> HIDE DEF item, report, answers
  <2> HIDE DEF all
  <2>6. IsFiniteSet({answers[q] : q \in all})
    BY <2>5, ProvidersAreFinite, ImageOfFinite DEF all
  <2>7. IsFiniteSet(item.providers)
    BY <2>2, <2>6, FS_Subset
  <2>8. IsFiniteSet(item.dns)
    BY <2>3, <2>4, FS_EmptySet
  <2> QED
    BY <2>1, <2>7, <2>8
<1> QED
  BY <1>1, <1>2

\* There are finitely many rows, each with finitely many answers.
LEMMA RowsAreFinite ==
  ASSUME NEW m \in Messages, NEW p, NEW c, Worked(m, p, c), NEW n, Answered(p, c, n)
  PROVE  /\ IsFiniteSet(n)
         /\ \A i \in n : IsFiniteSet(i.providers) /\ IsFiniteSet(i.dns)
<1>1. SameMail(p, m)
  BY ChecksKeepMail DEF Worked
<1>2. PICK r \in Reports : \E s \in SelectIndicators(Eligible(p), p.candidate, IndicatorLimit) :
            n = Answers(p, c, r, s)
  BY DEF Answered
<1>3. PICK s \in SelectIndicators(Eligible(p), p.candidate, IndicatorLimit) :
            n = Answers(p, c, r, s)
  BY <1>2
<1> DEFINE enr == {Item(x, r, c) : x \in s}
           rest == {Row(enr, ip) : ip \in Beyond(p, enr)}
<1>4. n = enr \cup rest
  <2> HIDE DEF enr
  <2>1. Answers(p, c, r, s) = EnrichMailPath(p, enr, LocalGeo)
    BY Zenon DEF Answers, enr
  <2> QED
    BY <1>3, <2>1, PathIsEnriched
<1>5. IsFiniteSet(enr)
  <2>1. s \in SUBSET p.iocs
    BY DEF SelectIndicators, Eligible
  <2>2. IsFiniteSet(s)
    BY <1>1, <2>1, ParsedIsFinite, FS_Subset
  <2> DEFINE f == [x \in s |-> Item(x, r, c)]
  <2>3. DOMAIN f = s /\ enr = {f[x] : x \in s}
    OBVIOUS
  <2> HIDE DEF f, enr
  <2> QED
    BY <2>2, <2>3, ImageOfFinite
<1>6. \A i \in enr : IsFiniteSet(i.providers) /\ IsFiniteSet(i.dns)
  BY LookupIsFinite
<1> HIDE DEF enr
<1>7. IsFiniteSet(rest)
  <2> DEFINE B == Beyond(p, enr)
             f == [ip \in B |-> Row(enr, ip)]
  <2>1. B \in SUBSET PathIps(p)
    BY DEF Beyond
  <2>2. DOMAIN f = B /\ rest = {f[ip] : ip \in B}
    OBVIOUS
  <2> HIDE DEF f, B, rest
  <2>3. IsFiniteSet(B)
    BY <1>1, <2>1, ParsedIsFinite, FS_Subset
  <2> QED
    BY <2>2, <2>3, ImageOfFinite
<1>8. \A i \in rest : IsFiniteSet(i.providers) /\ IsFiniteSet(i.dns)
  <2> SUFFICES ASSUME NEW i \in rest PROVE IsFiniteSet(i.providers) /\ IsFiniteSet(i.dns)
    OBVIOUS
  <2>1. PICK ip \in Beyond(p, enr) : i = Row(enr, ip)
    OBVIOUS
  <2>2. i.providers = {Answer(enr, ip)} /\ i.dns = {}
    BY <2>1 DEF Row
  <2> QED
    <3>1. \A x : IsFiniteSet({x})
      BY FS_Singleton
    <3> QED
      BY <2>2, <3>1, FS_EmptySet
<1> HIDE DEF rest
<1> QED
  BY <1>4, <1>5, <1>6, <1>7, <1>8, FS_Union

LEMMA IdentityIsFinite ==
  ASSUME NEW root, NEW p, IsFiniteSet(p.reply_to), IsFiniteSet(MessageIds(p))
  PROVE  IsFiniteSet(IdentityEdges(root, p))
<1> DEFINE sender == <<"Sender", p.sender>>
           first == {Edge(root, sender, "SENT_FROM")}
           own == {Edge(sender, <<"Domain", d>>, "ASSOCIATED_WITH") : d \in {p.sender} \ {None}}
           f == [r \in p.reply_to |-> {Edge(root, <<"Reply-To", r>>, "REPLY_TO"),
                                       Edge(<<"Reply-To", r>>, <<"Domain", r>>, "ASSOCIATED_WITH")}]
           replies == UNION {f[r] : r \in p.reply_to}
           label(i) == IF i \in p.references \cup {p.in_reply_to}
                       THEN "REFERENCES" ELSE "DECLARES_ID"
           g == [i \in MessageIds(p) |-> Edge(root, <<"Message-ID", i>>, label(i))]
           ids == {g[i] : i \in MessageIds(p)}
<1>1. IsFiniteSet(first) /\ IsFiniteSet(own)
  <2>1. \A x : IsFiniteSet({x})
    BY FS_Singleton
  <2> DEFINE x == Edge(root, sender, "SENT_FROM")
             y == Edge(sender, <<"Domain", p.sender>>, "ASSOCIATED_WITH")
  <2>2. first = {x} /\ own \in SUBSET {y}
    OBVIOUS
  <2> HIDE DEF first, own, x, y
  <2>3. IsFiniteSet({x}) /\ IsFiniteSet({y})
    BY <2>1
  <2> QED
    BY <2>2, <2>3, FS_Subset
<1>2. IsFiniteSet(replies)
  <2> DEFINE pairs == {f[r] : r \in p.reply_to}
  <2>1. \A r \in p.reply_to : IsFiniteSet(f[r])
    BY PairIsFinite
  <2>2. DOMAIN f = p.reply_to
    OBVIOUS
  <2> HIDE DEF f
  <2>3. IsFiniteSet(pairs)
    BY <2>2, ImageOfFinite
  <2>4. \A t \in pairs : IsFiniteSet(t)
    BY <2>1
  <2>5. replies = UNION pairs
    OBVIOUS
  <2> HIDE DEF pairs, replies
  <2> QED
    BY <2>3, <2>4, <2>5, FS_UNION
<1>3. IsFiniteSet(ids)
  <2>1. DOMAIN g = MessageIds(p)
    OBVIOUS
  <2> HIDE DEF g
  <2> QED
    BY <2>1, ImageOfFinite
<1>4. IdentityEdges(root, p) = first \cup own \cup replies \cup ids
  <2>1. replies = UNION {{Edge(root, <<"Reply-To", r>>, "REPLY_TO"),
                          Edge(<<"Reply-To", r>>, <<"Domain", r>>, "ASSOCIATED_WITH")} :
                             r \in p.reply_to}
    <3>1. \A r \in p.reply_to : f[r] = {Edge(root, <<"Reply-To", r>>, "REPLY_TO"),
                          Edge(<<"Reply-To", r>>, <<"Domain", r>>, "ASSOCIATED_WITH")}
      OBVIOUS
    <3> HIDE DEF f
    <3> QED
      BY <3>1
  <2>2. ids = {Edge(root, <<"Message-ID", i>>, label(i)) : i \in MessageIds(p)}
    <3>1. \A i \in MessageIds(p) : g[i] = Edge(root, <<"Message-ID", i>>, label(i))
      OBVIOUS
    <3> HIDE DEF g, label
    <3> QED
      BY <3>1
  <2> HIDE DEF replies, ids, first, own
  <2> QED
    BY <2>1, <2>2, Zenon DEF IdentityEdges, first, own
<1> HIDE DEF first, own, replies, ids
<1>5. IsFiniteSet(first \cup own)
  BY <1>1, FS_Union
<1>6. IsFiniteSet(first \cup own \cup replies)
  BY <1>2, <1>5, FS_Union
<1> QED
  BY <1>3, <1>4, <1>6, FS_Union

LEMMA ObservedEdgesAreFinite ==
  ASSUME NEW root, NEW p, IsFiniteSet(p.iocs), IsFiniteSet(p.urls)
  PROVE  IsFiniteSet(ObservedEdges(root, p))
<1> DEFINE f == [i \in p.iocs |-> Edge(<<KindOf[i.type], i.value>>, root, "OBSERVED_IN")]
           g == [u \in p.urls |-> Edge(<<"URL", u.url>>, <<"Domain", u.domain>>, "LINKS_TO")]
<1>1. ObservedEdges(root, p) = {f[i] : i \in p.iocs} \cup {g[u] : u \in p.urls}
  BY DEF ObservedEdges
<1>2. DOMAIN f = p.iocs /\ DOMAIN g = p.urls
  OBVIOUS
<1> HIDE DEF f, g
<1>3. IsFiniteSet({f[i] : i \in p.iocs}) /\ IsFiniteSet({g[u] : u \in p.urls})
  BY <1>2, ImageOfFinite
<1> QED
  BY <1>1, <1>3, FS_Union

LEMMA EnrichmentIsFinite ==
  ASSUME NEW i, IsFiniteSet(i.providers), IsFiniteSet(i.dns)
  PROVE  IsFiniteSet(EnrichmentEdges(i))
<1> DEFINE node == <<KindOf[i.type], i.query>>
           available == Available(i.providers)
           geo == NetworkGeo(i)
           located == \E a \in available : a.provider \in Geographic
           owner == Registration(i).organization
           heard == {z \in available : z.provider \notin Geographic}
           place == Edge(node, <<"Geo location", i.query>>, "LOCATED_IN")
           net == Edge(node, <<"ASN", geo.asn>>, "HOSTED_ON")
           holder == Edge(node, <<"Organization", owner>>, "REGISTERED_TO")
           f == [a \in heard |-> Edge(node, <<"Threat intelligence", <<a.provider, i.query>> >>,
                                      "ASSOCIATED_WITH")]
           g == [ip \in i.dns |-> Edge(node, <<"IP", ip>>, "RESOLVES_TO")]
           told == {f[a] : a \in heard}
           names == {g[ip] : ip \in i.dns}
<1>1. told = {Edge(node, <<"Threat intelligence", <<a.provider, i.query>> >>,
                   "ASSOCIATED_WITH") : a \in heard}
  <2> HIDE DEF heard, node
  <2> QED
    OBVIOUS
<1>2. names = {Edge(node, <<"IP", ip>>, "RESOLVES_TO") : ip \in i.dns}
  <2> HIDE DEF node
  <2> QED
    OBVIOUS
<1>3. DOMAIN f = heard /\ DOMAIN g = i.dns
  OBVIOUS
<1>4. IsFiniteSet(told)
  <2>1. heard \in SUBSET i.providers
    BY DEF Available
  <2> HIDE DEF heard, f
  <2>2. IsFiniteSet(heard)
    BY <2>1, FS_Subset
  <2> QED
    BY <1>3, <2>2, ImageOfFinite
<1>5. IsFiniteSet(names)
  <2> HIDE DEF g
  <2> QED
    BY <1>3, ImageOfFinite
<1> HIDE DEF told, names
<1> DEFINE A == {y \in {place} : located}
           B == {y \in {net} : located /\ geo.asn # 0}
           D == {y \in {holder} : owner # "none"}
<1>6. EnrichmentEdges(i) = A \cup B \cup told \cup names \cup D
  BY <1>1, <1>2, Zenon DEF EnrichmentEdges
<1>7. IsFiniteSet(A) /\ IsFiniteSet(B) /\ IsFiniteSet(D)
  <2>1. A \in SUBSET {place} /\ B \in SUBSET {net} /\ D \in SUBSET {holder}
    OBVIOUS
  <2>2. \A x : IsFiniteSet({x})
    BY FS_Singleton
  <2> HIDE DEF A, B, D, place, net, holder
  <2> QED
    BY <2>1, <2>2, FS_Subset
<1> HIDE DEF A, B, D
<1>8. IsFiniteSet(A \cup B)
  BY <1>7, FS_Union
<1>9. IsFiniteSet(A \cup B \cup told)
  BY <1>4, <1>8, FS_Union
<1>10. IsFiniteSet(A \cup B \cup told \cup names)
  BY <1>5, <1>9, FS_Union
<1> QED
  BY <1>6, <1>7, <1>10, FS_Union

LEMMA EdgesAreFinite ==
  ASSUME NEW m \in Messages, NEW p, NEW c, Worked(m, p, c), NEW n, Answered(p, c, n), NEW e
  PROVE  IsFiniteSet(Graph(e, p, n).edges)
<1> DEFINE root == <<"Email", e>>
           f == [i \in n |-> EnrichmentEdges(i)]
           parts == {f[i] : i \in n}
           enriched == UNION {EnrichmentEdges(i) : i \in n}
           identity == IdentityEdges(root, p)
           observed == ObservedEdges(root, p)
<1>1. SameMail(p, m)
  BY ChecksKeepMail DEF Worked
<1>2. Graph(e, p, n).edges = identity \cup observed \cup enriched
  BY DEF Graph
<1>3. IsFiniteSet(identity)
  BY <1>1, ParsedIsFinite, IdentityIsFinite
<1>4. IsFiniteSet(observed)
  BY <1>1, ParsedIsFinite, ObservedEdgesAreFinite
<1>5. enriched = UNION parts /\ \A i \in n : f[i] = EnrichmentEdges(i)
  OBVIOUS
<1>6. DOMAIN f = n
  OBVIOUS
<1>7. \A i \in n : IsFiniteSet(EnrichmentEdges(i))
  BY RowsAreFinite, EnrichmentIsFinite
<1> HIDE DEF f, enriched, identity, observed
<1>8. \A T \in parts : IsFiniteSet(T)
  BY <1>5, <1>7
<1>9. IsFiniteSet(parts)
  BY <1>6, RowsAreFinite, ImageOfFinite
<1> HIDE DEF parts
<1>10. IsFiniteSet(enriched)
  BY <1>5, <1>8, <1>9, FS_UNION
<1>11. IsFiniteSet(identity \cup observed)
  BY <1>3, <1>4, FS_Union
<1> QED
  BY <1>2, <1>10, <1>11, FS_Union

LEMMA NodesAreFinite ==
  ASSUME NEW m \in Messages, NEW p, NEW c, Worked(m, p, c), NEW n, Answered(p, c, n), NEW e
  PROVE  IsFiniteSet(Graph(e, p, n).nodes)
<1> DEFINE edges == Graph(e, p, n).edges
           f == [x \in edges |-> x.from]
           g == [x \in edges |-> x.to]
           h == [i \in n |-> <<KindOf[i.type], i.query>>]
           starts == {f[x] : x \in edges}
           ends == {g[x] : x \in edges}
           rows == {h[i] : i \in n}
<1>1. IsFiniteSet(edges) /\ IsFiniteSet(n)
  BY EdgesAreFinite, RowsAreFinite
<1>2. Graph(e, p, n).nodes = (UNION {{x.from, x.to} : x \in edges})
                                \cup {<<KindOf[i.type], i.query>> : i \in n}
  BY DEF Graph
<1> HIDE DEF edges
<1>3. /\ DOMAIN f = edges /\ DOMAIN g = edges /\ DOMAIN h = n
      /\ \A x \in edges : f[x] = x.from /\ g[x] = x.to
      /\ \A i \in n : h[i] = <<KindOf[i.type], i.query>>
  OBVIOUS
<1> HIDE DEF f, g, h
<1>4. Graph(e, p, n).nodes = starts \cup ends \cup rows
  <2>1. starts = {x.from : x \in edges} /\ ends = {x.to : x \in edges}
    BY <1>3
  <2>2. rows = {<<KindOf[i.type], i.query>> : i \in n}
    BY <1>3
  <2>3. UNION {{x.from, x.to} : x \in edges} = {x.from : x \in edges} \cup {x.to : x \in edges}
    OBVIOUS
  <2> HIDE DEF starts, ends, rows
  <2> QED
    BY <1>2, <2>1, <2>2, <2>3
<1>5. IsFiniteSet(starts) /\ IsFiniteSet(ends) /\ IsFiniteSet(rows)
  BY <1>1, <1>3, ImageOfFinite
<1> HIDE DEF starts, ends, rows
<1>6. IsFiniteSet(starts \cup ends)
  BY <1>5, FS_Union
<1> QED
  BY <1>4, <1>5, <1>6, FS_Union

LEMMA GraphIsOneCluster ==
  ASSUME NEW m \in Messages, NEW p, NEW c, Worked(m, p, c), NEW n, Answered(p, c, n),
         ~Respelled(p), NEW e
  PROVE  Cluster(Graph(e, p, n), <<"Email", e>>) = Graph(e, p, n).nodes
<1> DEFINE g == Graph(e, p, n)
           root == <<"Email", e>>
           sender == <<"Sender", p.sender>>
           near == Near(g, {root})
           sent == Edge(root, sender, "SENT_FROM")
           place(i) == <<KindOf[i.type], i.query>>
<1>1. /\ \A x \in g.edges : x.from \in near /\ {x.from, x.to} \subseteq g.nodes
      /\ \A i \in n : place(i) \in near
      /\ g.nodes = (UNION {{x.from, x.to} : x \in g.edges}) \cup {place(i) : i \in n}
      /\ sent \in g.edges
  BY EdgesStartNear
<1>2. IsFiniteSet(g.nodes)
  BY NodesAreFinite
<1>3. sent.from = root /\ sent.to = sender /\ root # sender
  BY DEF Edge
<1> HIDE DEF g, place, sent, root, sender
<1>4. root \in g.nodes /\ sender \in g.nodes
  BY <1>1, <1>3
<1>5. \A S \in SUBSET g.nodes : Near(g, S) \subseteq g.nodes
  BY <1>1 DEF Near, Neighbours
<1>6. near \subseteq g.nodes
  BY <1>4, <1>5
<1> HIDE DEF near
<1>7. g.nodes \subseteq Near(g, near)
  <2>1. \A x \in g.edges : x.from \in Near(g, near) /\ x.to \in Near(g, near)
    BY <1>1 DEF Near, Neighbours
  <2>2. \A i \in n : place(i) \in Near(g, near)
    BY <1>1 DEF Near
  <2> QED
    BY <1>1, <2>1, <2>2
<1>8. Near(g, near) = g.nodes
  BY <1>5, <1>6, <1>7
<1>9. Near(g, g.nodes) = g.nodes
  <2>1. g.nodes \subseteq Near(g, g.nodes)
    BY DEF Near
  <2> QED
    BY <1>5, <2>1
<1>10. Cardinality(g.nodes) \in Nat /\ Cardinality(g.nodes) >= 2
  <2>1. Cardinality(g.nodes) \in Nat
    BY <1>2, FS_CardinalityType
  <2>2. {root, sender} \in SUBSET g.nodes
    BY <1>4
  <2>3. Cardinality({root, sender}) = 2
    <3>1. IsFiniteSet({root}) /\ Cardinality({root}) = 1
      BY FS_Singleton
    <3>2. Cardinality({root} \cup {sender}) = Cardinality({root}) + 1
      BY <1>3, <3>1, FS_AddElement
    <3>3. {root} \cup {sender} = {root, sender}
      OBVIOUS
    <3> QED
      BY <3>1, <3>2, <3>3
  <2>4. Cardinality({root, sender}) <= Cardinality(g.nodes)
    BY <1>2, <2>2, FS_Subset
  <2> QED
    BY <2>1, <2>3, <2>4
<1>11. Cluster(g, root) = g.nodes
  BY <1>8, <1>9, <1>10, TwoStepsAreEnough DEF near
<1> QED
  BY <1>11 DEF g, root

\* Two steps from the message reach everything its graph shows, so the graph is
\* one cluster, whenever no domain was respelled by its lookup.
THEOREM GraphsHangTogether == Spec => []GraphHangsTogether
<1>1. ASSUME DataInv PROVE GraphHangsTogether
  <2>1. ASSUME NEW e \in DOMAIN analyses, ~Respelled(analyses[e].forensics)
        PROVE  Cluster(analyses[e].graph, <<"Email", e>>) = analyses[e].graph.nodes
    <3> DEFINE m == message[e]
    <3>1. m \in Messages /\ Traced(e, m, analyses[e])
      BY <1>1 DEF DataInv, Shapes
    <3> HIDE DEF m
    <3>2. PICK p, c, n, r : \E l \in Predictions :
            /\ Worked(m, p, c) /\ Answered(p, c, n)
            /\ analyses[e] = AnalysisOf(e, p, c, l, n, r)
      BY <3>1 DEF Traced
    <3>3. PICK l \in Predictions : analyses[e] = AnalysisOf(e, p, c, l, n, r)
      BY <3>2
    <3>4. analyses[e].forensics = p /\ analyses[e].graph = Graph(e, p, n)
      BY <3>3 DEF AnalysisOf
    <3>5. Cluster(Graph(e, p, n), <<"Email", e>>) = Graph(e, p, n).nodes
      BY <2>1, <3>1, <3>2, <3>4, GraphIsOneCluster
    <3> QED
      BY <3>4, <3>5
  <2> QED
    BY <2>1, Zenon DEF GraphHangsTogether, Respelled
<1> QED
  BY <1>1, DataIsTraced, PTL
=============================================================================
