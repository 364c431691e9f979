------------------------- MODULE PublicationProofs -------------------------
(***************************************************************************)
(* Theorems about Publication, for any number of processes, commands,      *)
(* edits and kills.                                                        *)
(***************************************************************************)
EXTENDS Publication, SequenceTheorems, FiniteSetTheorems, TLAPS

----------------------------------------------------------------------------
(* Recipes.  A recipe is a concatenation; what matters of one is the set   *)
(* of its steps, and the order of the last ones.                           *)

Reading == {"source", "check", "read", "load", "pin"}
Kinds == Reading \cup {"lock", "build", "replace", "sign", "hash", "absent",
                       "copy", "rename"}
Objects == Targets \cup Sources \cup Parts \cup {"own"}
Instructions == [kind : Kinds, of : Objects]

StepsIn(s) == {s[i] : i \in 1..Len(s)}

LEMMA Joined ==
    ASSUME NEW s \in Seq(Instructions), NEW t \in Seq(Instructions)
    PROVE  /\ s \o t \in Seq(Instructions)
           /\ Len(s \o t) = Len(s) + Len(t)
           /\ \A i \in 1..Len(s) : (s \o t)[i] = s[i]
           /\ \A i \in 1..Len(t) : (s \o t)[Len(s) + i] = t[i]
           /\ StepsIn(s \o t) = StepsIn(s) \cup StepsIn(t)
<1>1. /\ s \o t \in Seq(Instructions) /\ Len(s \o t) = Len(s) + Len(t)
      /\ \A i \in 1..(Len(s) + Len(t)) :
            (s \o t)[i] = IF i <= Len(s) THEN s[i] ELSE t[i - Len(s)]
  BY ConcatProperties
<1>2. Len(s) \in Nat /\ Len(t) \in Nat
  OBVIOUS
<1>3. \A i \in 1..Len(s) : (s \o t)[i] = s[i]
  BY <1>1, <1>2
<1>4. ASSUME NEW i \in 1..Len(t)
      PROVE  (s \o t)[Len(s) + i] = t[i]
  BY <1>1, <1>2, SMT
<1>5. ASSUME NEW d \in StepsIn(s \o t)
      PROVE  d \in StepsIn(s) \cup StepsIn(t)
  <2>1. PICK i \in 1..(Len(s) + Len(t)) : d = (s \o t)[i]
    BY <1>1, <1>5 DEF StepsIn
  <2>2. CASE i <= Len(s)
    BY <1>1, <1>2, <2>1, <2>2 DEF StepsIn
  <2>3. CASE ~(i <= Len(s))
    <3>1. i - Len(s) \in 1..Len(t) /\ d = t[i - Len(s)]
      BY <1>1, <1>2, <2>1, <2>3
    <3> QED
      BY <3>1 DEF StepsIn
  <2> QED
    BY <2>2, <2>3
<1>6. ASSUME NEW d \in StepsIn(s) \cup StepsIn(t)
      PROVE  d \in StepsIn(s \o t)
  <2>1. CASE d \in StepsIn(s)
    <3>1. PICK i \in 1..Len(s) : d = s[i]
      BY <2>1 DEF StepsIn
    <3>2. i \in 1..Len(s \o t) /\ d = (s \o t)[i]
      BY <1>1, <1>2, <1>3, <3>1
    <3> QED
      BY <3>2 DEF StepsIn
  <2>2. CASE d \in StepsIn(t)
    <3>1. PICK i \in 1..Len(t) : d = t[i]
      BY <2>2 DEF StepsIn
    <3>2. Len(s) + i \in 1..Len(s \o t) /\ d = (s \o t)[Len(s) + i]
      BY <1>1, <1>2, <1>4, <3>1
    <3> QED
      BY <3>2 DEF StepsIn
  <2> QED
    BY <1>6, <2>1, <2>2
<1> QED
  BY <1>1, <1>3, <1>4, <1>5, <1>6

LEMMA Listed0 ==
    <<>> \in Seq(Instructions) /\ Len(<<>>) = 0 /\ StepsIn(<<>>) = {}
  BY DEF StepsIn

LEMMA Listed1 ==
    ASSUME NEW a, {a} \subseteq Instructions
    PROVE  /\ <<a>> \in Seq(Instructions)
           /\ Len(<<a>>) = 1
           /\ StepsIn(<<a>>) = {a}
  BY DEF StepsIn

LEMMA Listed2 ==
    ASSUME NEW a, NEW b, {a, b} \subseteq Instructions
    PROVE  /\ <<a, b>> \in Seq(Instructions)
           /\ Len(<<a, b>>) = 2
           /\ StepsIn(<<a, b>>) = {a, b}
  BY DEF StepsIn

LEMMA Listed4 ==
    ASSUME NEW a, NEW b, NEW c, NEW d, {a, b, c, d} \subseteq Instructions
    PROVE  /\ <<a, b, c, d>> \in Seq(Instructions)
           /\ Len(<<a, b, c, d>>) = 4
           /\ StepsIn(<<a, b, c, d>>) = {a, b, c, d}
  BY DEF StepsIn

LEMMA Listed5 ==
    ASSUME NEW a, NEW b, NEW c, NEW d, NEW e, {a, b, c, d, e} \subseteq Instructions
    PROVE  /\ <<a, b, c, d, e>> \in Seq(Instructions)
           /\ Len(<<a, b, c, d, e>>) = 5
           /\ StepsIn(<<a, b, c, d, e>>) = {a, b, c, d, e}
  BY DEF StepsIn

LEMMA Listed6 ==
    ASSUME NEW a, NEW b, NEW c, NEW d, NEW e, NEW f, {a, b, c, d, e, f} \subseteq Instructions
    PROVE  /\ <<a, b, c, d, e, f>> \in Seq(Instructions)
           /\ Len(<<a, b, c, d, e, f>>) = 6
           /\ StepsIn(<<a, b, c, d, e, f>>) = {a, b, c, d, e, f}
  BY DEF StepsIn

LEMMA Objected ==
    /\ Kinds = {"source", "check", "read", "load", "pin", "lock", "build", "replace",
                "sign", "hash", "absent", "copy", "rename"}
    /\ Objects = {"category", "profile", "gateA", "resolution", "review", "gateB",
                  "runtime", "release", "catalog", "scopes", "profileSelection",
                  "gateASelection", "publicSet", "gateBSelection", "first",
                  "second", "own"}
  BY DEF Kinds, Reading, Objects, Targets, Bundles, Sources, Parts

LEMMA Used ==
    {Do("check", "category"), Do("check", "profile"),
     Do("check", "resolution"), Do("check", "review"),
     Do("check", "gateB"), Do("check", "runtime"), Do("read", "category"),
     Do("read", "gateA"), Do("read", "resolution"), Do("read", "review"),
     Do("read", "gateB"), Do("read", "runtime"), Do("load", "gateA"),
     Do("load", "gateB"), Do("pin", "profile"), Do("source", "catalog"),
     Do("source", "scopes"), Do("source", "profileSelection"),
     Do("source", "gateASelection"), Do("source", "publicSet"),
     Do("source", "gateBSelection"), Do("build", "own"),
     Do("replace", "first"), Do("replace", "second"), Do("sign", "own"),
     Do("absent", "own"), Do("rename", "own"), Do("hash", "category"),
     Do("hash", "gateA"), Do("hash", "resolution"), Do("hash", "gateB"),
     Do("hash", "runtime"), Do("hash", "catalog"), Do("copy", "category"),
     Do("copy", "gateA"), Do("copy", "resolution"), Do("copy", "gateB"),
     Do("copy", "runtime"), Do("copy", "catalog"), Locked}
        \subseteq Instructions
  BY Objected DEF Do, Instructions, Locked

LEMMA RebuildSteps ==
    /\ \A b \in Bundles : RebuildOf[b] \in Seq(Instructions)
    /\ StepsIn(RebuildOf["category"]) = {Do("source", "catalog")}
    /\ StepsIn(RebuildOf["profile"]) =
          {Do("check", "category"), Do("read", "category"),
           Do("source", "profileSelection"), Do("source", "catalog")}
    /\ StepsIn(RebuildOf["gateA"]) =
          {Do("check", "category"), Do("check", "profile"),
           Do("read", "category"), Do("pin", "profile"),
           Do("source", "gateASelection"), Do("source", "catalog")}
    /\ StepsIn(RebuildOf["resolution"]) =
          {Do("check", "category"), Do("load", "gateA"),
           Do("read", "category"), Do("source", "catalog")}
    /\ StepsIn(RebuildOf["review"]) =
          {Do("check", "resolution"), Do("read", "category"),
           Do("read", "resolution"), Do("load", "gateA"),
           Do("source", "publicSet")}
    /\ StepsIn(RebuildOf["gateB"]) =
          {Do("check", "review"), Do("source", "gateBSelection"),
           Do("read", "category"), Do("read", "resolution"),
           Do("read", "review"), Do("load", "gateA")}
    /\ StepsIn(RebuildOf["runtime"]) =
          {Do("check", "gateB"), Do("read", "category"),
           Do("load", "gateA"), Do("load", "gateB")}
<1>1. /\ RebuildOf["category"] = CategoryRebuild
      /\ RebuildOf["profile"] = ProfileRebuild
      /\ RebuildOf["gateA"] = GateARebuild
      /\ RebuildOf["resolution"] = ResolutionRebuild
      /\ RebuildOf["review"] = ReviewRebuild
      /\ RebuildOf["gateB"] = GateBRebuild
      /\ RebuildOf["runtime"] = RuntimeRebuild
  BY DEF RebuildOf
<1>2. /\ CategoryRebuild \in Seq(Instructions)
      /\ StepsIn(CategoryRebuild) = {Do("source", "catalog")}
  BY Listed1, Used DEF CategoryRebuild
<1>3. /\ ProfileRebuild \in Seq(Instructions)
      /\ StepsIn(ProfileRebuild) =
          {Do("check", "category"), Do("read", "category"),
           Do("source", "profileSelection"), Do("source", "catalog")}
  BY Listed4, Used DEF ProfileRebuild
<1>4. /\ GateARebuild \in Seq(Instructions)
      /\ StepsIn(GateARebuild) =
          {Do("check", "category"), Do("check", "profile"),
           Do("read", "category"), Do("pin", "profile"),
           Do("source", "gateASelection"), Do("source", "catalog")}
  BY Listed6, Used DEF GateARebuild
<1>5. /\ ResolutionRebuild \in Seq(Instructions)
      /\ StepsIn(ResolutionRebuild) =
          {Do("check", "category"), Do("load", "gateA"),
           Do("read", "category"), Do("source", "catalog")}
  BY Listed4, Used DEF ResolutionRebuild
<1>6. /\ ReviewRebuild \in Seq(Instructions)
      /\ StepsIn(ReviewRebuild) =
          {Do("check", "resolution"), Do("read", "category"),
           Do("read", "resolution"), Do("load", "gateA"),
           Do("source", "publicSet")}
  BY Listed5, Used DEF ReviewRebuild
<1>7. /\ GateBRebuild \in Seq(Instructions)
      /\ StepsIn(GateBRebuild) =
          {Do("check", "review"), Do("source", "gateBSelection"),
           Do("read", "category"), Do("read", "resolution"),
           Do("read", "review"), Do("load", "gateA")}
  BY Listed6, Used DEF GateBRebuild
<1>8. /\ RuntimeRebuild \in Seq(Instructions)
      /\ StepsIn(RuntimeRebuild) =
          {Do("check", "gateB"), Do("read", "category"),
           Do("load", "gateA"), Do("load", "gateB")}
  BY Listed4, Used DEF RuntimeRebuild
<1> QED
  BY <1>1, <1>2, <1>3, <1>4, <1>5, <1>6, <1>7, <1>8 DEF Bundles

\* What a bundle is read from before it is built.
Preparation(b) ==
    (IF b = "resolution" THEN <<Do("source", "catalog"), Locked>> ELSE <<Locked>>)
    \o (IF b = "category" THEN <<Do("source", "scopes")>> ELSE <<>>)
    \o RebuildOf[b]
    \o (IF b = "resolution" THEN <<Do("source", "catalog")>> ELSE <<>>)

LEMMA Prepared ==
    ASSUME NEW b \in Bundles
    PROVE  /\ Preparation(b) \in Seq(Instructions)
           /\ StepsIn(Preparation(b)) =
                 StepsIn(RebuildOf[b]) \cup {Locked}
                 \cup (IF b = "category" THEN {Do("source", "scopes")} ELSE {})
                 \cup (IF b = "resolution" THEN {Do("source", "catalog")} ELSE {})
<1> DEFINE A == IF b = "resolution" THEN <<Do("source", "catalog"), Locked>>
                ELSE <<Locked>>
           B == IF b = "category" THEN <<Do("source", "scopes")>> ELSE <<>>
           C == RebuildOf[b]
           D == IF b = "resolution" THEN <<Do("source", "catalog")>> ELSE <<>>
<1>1. Locked \in Instructions
  BY Used
<1>2. /\ A \in Seq(Instructions)
      /\ StepsIn(A) = {Locked} \cup (IF b = "resolution" THEN {Do("source", "catalog")} ELSE {})
  BY <1>1, Listed1, Listed2, Used
<1>3. /\ B \in Seq(Instructions)
      /\ StepsIn(B) = IF b = "category" THEN {Do("source", "scopes")} ELSE {}
  BY Listed0, Listed1, Listed2, Used
<1>4. /\ D \in Seq(Instructions)
      /\ StepsIn(D) = IF b = "resolution" THEN {Do("source", "catalog")} ELSE {}
  BY Listed0, Listed1, Listed2, Used
<1>5. C \in Seq(Instructions)
  BY RebuildSteps
<1>6. Preparation(b) = ((A \o B) \o C) \o D
  BY DEF Preparation
<1> HIDE DEF A, B, C, D
<1>7. A \o B \in Seq(Instructions) /\ StepsIn(A \o B) = StepsIn(A) \cup StepsIn(B)
  BY <1>2, <1>3, Joined
<1>8. /\ (A \o B) \o C \in Seq(Instructions)
      /\ StepsIn((A \o B) \o C) = StepsIn(A \o B) \cup StepsIn(C)
  BY <1>5, <1>7, Joined
<1>9. /\ ((A \o B) \o C) \o D \in Seq(Instructions)
      /\ StepsIn(((A \o B) \o C) \o D) = StepsIn((A \o B) \o C) \cup StepsIn(D)
  BY <1>4, <1>8, Joined
<1> QED
  BY <1>2, <1>3, <1>4, <1>6, <1>7, <1>8, <1>9 DEF C

\* The recipe of a bundle ends with the four steps of its writing, and is
\* locked before.
LEMMA BundleRecipes ==
    ASSUME NEW b \in Bundles
    PROVE  LET R == RecipeOf[b]
               n == Len(Preparation(b))
           IN  /\ R \in Seq(Instructions) /\ Len(R) = n + 4 /\ n \in Nat \ {0}
               /\ R[n + 1] = Do("build", "own")
               /\ R[n + 2] = Do("replace", "first")
               /\ R[n + 3] = Do("replace", "second")
               /\ R[n + 4] = Do("sign", "own")
               /\ \A i \in 1..n : R[i] \in StepsIn(Preparation(b))
               /\ \A d \in StepsIn(Preparation(b)) : d = Locked \/ d.kind \in Reading
               /\ \E i \in 1..n : R[i] = Locked
               /\ StepsIn(Preparation(b)) = {R[i] : i \in 1..n}
<1> DEFINE P == Preparation(b)
           n == Len(P)
           R == RecipeOf[b]
<1>1. P \in Seq(Instructions) /\ n \in Nat
  BY Prepared
<1>2. Write \in Seq(Instructions) /\ Len(Write) = 4
  BY Listed4, Used DEF Write
<1>3. R = P \o Write
  BY DEF RecipeOf, BundleRecipe, Preparation, Targets, Bundles
<1> HIDE DEF P, R
<1>4. /\ R \in Seq(Instructions) /\ Len(R) = n + 4
      /\ \A i \in 1..n : R[i] = P[i]
      /\ R[n + 1] = Write[1] /\ R[n + 2] = Write[2]
      /\ R[n + 3] = Write[3] /\ R[n + 4] = Write[4]
  <2>1. /\ R \in Seq(Instructions) /\ Len(R) = n + Len(Write)
        /\ \A i \in 1..n : R[i] = P[i]
        /\ \A i \in 1..Len(Write) : R[n + i] = Write[i]
    BY <1>1, <1>2, <1>3, Joined
  <2> QED
    BY <1>2, <2>1
<1>5. /\ Write[1] = Do("build", "own") /\ Write[2] = Do("replace", "first")
      /\ Write[3] = Do("replace", "second") /\ Write[4] = Do("sign", "own")
  BY DEF Write
<1>6. \A i \in 1..n : R[i] \in StepsIn(P)
  BY <1>4 DEF StepsIn
<1>7. \A d \in StepsIn(P) : d = Locked \/ d.kind \in Reading
  <2>1. \A c \in Bundles : \A d \in StepsIn(RebuildOf[c]) : d.kind \in Reading
    BY RebuildSteps DEF Bundles, Reading, Do
  <2>2. Do("source", "scopes").kind \in Reading /\ Do("source", "catalog").kind \in Reading
    BY DEF Do, Reading
  <2> QED
    BY <2>1, <2>2, Prepared DEF P
<1>8. \E i \in 1..n : R[i] = Locked
  <2>1. Locked \in StepsIn(P)
    BY Prepared DEF P
  <2> QED
    BY <2>1, <1>4 DEF StepsIn
<1>9. n # 0
  BY <1>1, <1>8
<1>10. StepsIn(P) = {R[i] : i \in 1..n}
  BY <1>4 DEF StepsIn
<1> QED
  <2>1. /\ R \in Seq(Instructions) /\ Len(R) = n + 4 /\ n \in Nat \ {0}
        /\ R[n + 1] = Do("build", "own")
        /\ R[n + 2] = Do("replace", "first")
        /\ R[n + 3] = Do("replace", "second")
        /\ R[n + 4] = Do("sign", "own")
    BY <1>1, <1>4, <1>5, <1>9
  <2> QED
    BY <2>1, <1>6, <1>7, <1>8, <1>10 DEF P, R

\* The names a release copies, in order.
CopyOf(j) == IF j = 6 THEN "catalog" ELSE Released[j]

LEMMA Copied ==
    /\ CopyOf(1) = "category" /\ CopyOf(2) = "gateA" /\ CopyOf(3) = "resolution"
    /\ CopyOf(4) = "gateB" /\ CopyOf(5) = "runtime" /\ CopyOf(6) = "catalog"
    /\ \A j, k \in 1..6 : CopyOf(j) = CopyOf(k) => j = k
  BY DEF CopyOf, Released

Before == {"check", "read", "hash", "build", "absent"}

\* The recipe of a release copies after it is locked, and renames last.
LEMMA ReleaseSteps ==
    LET R == RecipeOf["release"] IN
    /\ R \in Seq(Instructions) /\ Len(R) = 23
    /\ \A i \in 1..16 : R[i] = Locked \/ R[i].kind \in Before
    /\ \E i \in 1..16 : R[i] = Locked
    /\ \A j \in 1..6 : R[16 + j] = Do("copy", CopyOf(j))
    /\ R[23] = Do("rename", "own")
<1> DEFINE R == RecipeOf["release"]
           A == <<Do("check", "category"), Do("check", "runtime")>>
           B == Each("read")
           C == Each("hash")
           D == <<Do("hash", "catalog"), Do("build", "own"), Locked, Do("absent", "own")>>
           E == Each("copy")
           F == <<Do("copy", "catalog"), Do("rename", "own")>>
<1>1. R = ((((A \o B) \o C) \o D) \o E) \o F
  BY DEF RecipeOf, ReleaseRecipe, Targets
<1>2. /\ A \in Seq(Instructions) /\ Len(A) = 2
      /\ \A d \in StepsIn(A) : d.kind \in Before
  BY Listed2, Used DEF Do, Before
<1>3. ASSUME NEW k \in {"read", "hash", "copy"}
      PROVE  /\ Each(k) \in Seq(Instructions) /\ Len(Each(k)) = 5
             /\ \A j \in 1..5 : Each(k)[j] = Do(k, CopyOf(j))
             /\ \A d \in StepsIn(Each(k)) : d.kind = k
  <2>1. Len(Released) = 5
    BY DEF Released
  <2>2. \A j \in 1..5 : Released[j] = CopyOf(j)
    BY DEF CopyOf
  <2>3. \A j \in 1..5 : CopyOf(j) \in {"category", "gateA", "resolution", "gateB", "runtime"}
    BY Copied
  <2>4. \A j \in 1..5 : Do(k, CopyOf(j)) \in Instructions
    BY <2>3, Used
  <2>5. Each(k) = [j \in 1..5 |-> Do(k, CopyOf(j))]
    BY <2>1, <2>2 DEF Each
  <2>6. Each(k) \in Seq(Instructions) /\ Len(Each(k)) = 5
    BY <2>4, <2>5
  <2>7. \A j \in 1..5 : Each(k)[j] = Do(k, CopyOf(j))
    BY <2>5
  <2>8. \A d \in StepsIn(Each(k)) : d.kind = k
    BY <2>6, <2>7 DEF StepsIn, Do
  <2> QED
    BY <2>6, <2>7, <2>8
<1>4. /\ D \in Seq(Instructions) /\ Len(D) = 4
      /\ \A d \in StepsIn(D) : d = Locked \/ d.kind \in Before
      /\ Locked \in StepsIn(D)
  BY Listed4, Used DEF Do, Before
<1>5. /\ F \in Seq(Instructions) /\ Len(F) = 2
      /\ F[1] = Do("copy", "catalog") /\ F[2] = Do("rename", "own")
  BY Listed2, Used
<1>6. /\ B \in Seq(Instructions) /\ Len(B) = 5
      /\ \A d \in StepsIn(B) : d.kind \in Before
  BY <1>3 DEF Before
<1>7. /\ C \in Seq(Instructions) /\ Len(C) = 5
      /\ \A d \in StepsIn(C) : d.kind \in Before
  BY <1>3 DEF Before
<1>8. /\ E \in Seq(Instructions) /\ Len(E) = 5
      /\ \A j \in 1..5 : E[j] = Do("copy", CopyOf(j))
  BY <1>3
<1> HIDE DEF R, A, B, C, D, E, F
<1> DEFINE AB == A \o B
<1>9. /\ AB \in Seq(Instructions) /\ Len(AB) = 7
      /\ StepsIn(AB) = StepsIn(A) \cup StepsIn(B)
  <2>1. /\ AB \in Seq(Instructions) /\ Len(AB) = Len(A) + Len(B)
        /\ StepsIn(AB) = StepsIn(A) \cup StepsIn(B)
    BY <1>2, <1>6, Joined
  <2> QED
    BY <1>2, <1>6, <2>1
<1> HIDE DEF AB
<1> DEFINE AC == AB \o C
<1>10. /\ AC \in Seq(Instructions) /\ Len(AC) = 12
       /\ StepsIn(AC) = StepsIn(AB) \cup StepsIn(C)
  <2>1. /\ AC \in Seq(Instructions) /\ Len(AC) = Len(AB) + Len(C)
        /\ StepsIn(AC) = StepsIn(AB) \cup StepsIn(C)
    BY <1>7, <1>9, Joined
  <2> QED
    BY <1>7, <1>9, <2>1
<1> HIDE DEF AC
<1> DEFINE H == AC \o D
<1>11. /\ H \in Seq(Instructions) /\ Len(H) = 16
       /\ StepsIn(H) = StepsIn(AC) \cup StepsIn(D)
  <2>1. /\ H \in Seq(Instructions) /\ Len(H) = Len(AC) + Len(D)
        /\ StepsIn(H) = StepsIn(AC) \cup StepsIn(D)
    BY <1>4, <1>10, Joined
  <2> QED
    BY <1>4, <1>10, <2>1
<1> HIDE DEF H
<1> DEFINE HE == H \o E
<1>12. /\ HE \in Seq(Instructions) /\ Len(HE) = 21
       /\ \A i \in 1..16 : HE[i] = H[i]
       /\ \A j \in 1..5 : HE[16 + j] = E[j]
  <2>1. /\ HE \in Seq(Instructions) /\ Len(HE) = Len(H) + Len(E)
        /\ \A i \in 1..Len(H) : HE[i] = H[i]
        /\ \A i \in 1..Len(E) : HE[Len(H) + i] = E[i]
    BY <1>8, <1>11, Joined
  <2> HIDE DEF HE
  <2>2. Len(H) = 16 /\ Len(E) = 5
    BY <1>8, <1>11
  <2> QED
    BY <2>1, <2>2
<1> HIDE DEF HE
<1>13. R = HE \o F
  BY <1>1 DEF HE, H, AC, AB
<1>14. /\ R \in Seq(Instructions) /\ Len(R) = 23
       /\ \A i \in 1..21 : R[i] = HE[i]
       /\ R[22] = F[1] /\ R[23] = F[2]
  <2>1. /\ R \in Seq(Instructions) /\ Len(R) = Len(HE) + Len(F)
        /\ \A i \in 1..Len(HE) : R[i] = HE[i]
        /\ \A i \in 1..Len(F) : R[Len(HE) + i] = F[i]
    BY <1>5, <1>12, <1>13, Joined
  <2> QED
    BY <1>5, <1>12, <2>1
<1>15. \A i \in 1..16 : R[i] = H[i] /\ H[i] \in StepsIn(H)
  <2>1. \A i \in 1..16 : i \in 1..21 /\ R[i] = H[i]
    <3>1. \A i \in 1..21 : R[i] = HE[i]
      BY <1>14
    <3>2. \A i \in 1..16 : HE[i] = H[i]
      BY <1>12
    <3>3. \A i \in 1..16 : i \in 1..21
      OBVIOUS
    <3> HIDE DEF R
    <3> QED
      BY <3>1, <3>2, <3>3
  <2>2. StepsIn(H) = {H[i] : i \in 1..16}
    BY <1>11 DEF StepsIn
  <2> QED
    BY <2>1, <2>2
<1>16. \A d \in StepsIn(H) : d = Locked \/ d.kind \in Before
  BY <1>2, <1>4, <1>6, <1>7, <1>9, <1>10, <1>11
<1>17. \E i \in 1..16 : R[i] = Locked
  <2>1. Locked \in StepsIn(H)
    BY <1>4, <1>11
  <2> QED
    BY <2>1, <1>11, <1>15 DEF StepsIn
<1>18. ASSUME NEW j \in 1..6
       PROVE  R[16 + j] = Do("copy", CopyOf(j))
  <2>1. CASE j = 6
    BY <1>5, <1>14, <2>1, Copied
  <2>2. CASE j \in 1..5
    <3>1. 16 + j \in 1..21 /\ HE[16 + j] = E[j]
      BY <1>12, <2>2
    <3> QED
      BY <1>8, <1>14, <2>2, <3>1
  <2> QED
    BY <2>1, <2>2
<1> QED
  BY <1>5, <1>14, <1>15, <1>16, <1>17, <1>18 DEF R

----------------------------------------------------------------------------
(* Where a process is in its recipe.                                        *)

LEMMA Names ==
    /\ "none" \notin Targets /\ "release" \notin Bundles
    /\ Targets = Bundles \cup {"release"}
    /\ Parts = {"first", "second"}
  BY DEF Targets, Bundles, Parts

LEMMA Recipes ==
    ASSUME NEW t \in Targets, NEW R, R = RecipeOf[t]
    PROVE  /\ R \in Seq(Instructions) /\ Len(R) \in Nat \ {0}
           /\ \A i \in 1..Len(R) :
                 /\ R[i].kind = "lock" => R[i] = Locked
                 /\ R[i].kind \in {"build", "replace", "sign"} /\ t \in Bundles
                       => \E l \in 1..(i - 1) : R[l] = Locked
                 /\ R[i].kind \in {"rename", "copy"}
                       => t = "release" /\ \E l \in 1..(i - 1) : R[l] = Locked
                 /\ R[i].kind \in {"replace", "sign"} => t \in Bundles
                 /\ R[i].kind \notin {"sign", "rename"} => i + 1 \in 1..Len(R)
                 /\ R[i].kind = "replace"
                       => \/ R[i] = Do("replace", "first")
                             /\ R[i + 1] = Do("replace", "second")
                          \/ R[i] = Do("replace", "second")
                             /\ R[i + 1] = Do("sign", "own")
                 /\ i > 1 /\ R[i].kind = "sign" => R[i - 1] = Do("replace", "second")
                 /\ i > 1 /\ R[i] = Do("replace", "second")
                       => R[i - 1] = Do("replace", "first")
                 /\ i = 1 => R[i].kind \notin {"replace", "sign", "rename"}
<1>1. CASE t \in Bundles
  <2> DEFINE n == Len(Preparation(t))
  <2>1. /\ R \in Seq(Instructions) /\ Len(R) = n + 4 /\ n \in Nat \ {0}
        /\ R[n + 1] = Do("build", "own")
        /\ R[n + 2] = Do("replace", "first")
        /\ R[n + 3] = Do("replace", "second")
        /\ R[n + 4] = Do("sign", "own")
        /\ \A i \in 1..n : R[i] = Locked \/ R[i].kind \in Reading
        /\ \E i \in 1..n : R[i] = Locked
    BY <1>1, BundleRecipes
  <2> HIDE DEF n
  <2>2. PICK l \in 1..n : R[l] = Locked
    BY <2>1
  <2>4. ASSUME NEW i \in 1..n
        PROVE  /\ R[i].kind \notin {"build", "replace", "sign", "rename", "copy"}
               /\ R[i].kind = "lock" => R[i] = Locked
               /\ i + 1 \in 1..Len(R)
               /\ R[i] # Do("replace", "second")
    <3>1. R[i] = Locked \/ R[i].kind \in Reading
      BY <2>1
    <3>2. i + 1 \in 1..Len(R)
      BY <2>1
    <3> QED
      BY <3>1, <3>2 DEF Reading, Locked, Do
  <2>5. ASSUME NEW i \in (n + 1)..(n + 4)
        PROVE  /\ R[i].kind \notin {"lock", "rename", "copy"}
               /\ l \in 1..(i - 1) /\ R[l] = Locked
               /\ i # n + 4 => i + 1 \in 1..Len(R)
               /\ i > 1
    <3>1. n \in Nat /\ Len(R) = n + 4 /\ l \in 1..n /\ R[l] = Locked
      BY <2>1, <2>2
    <3>2. /\ l \in 1..(i - 1) /\ i > 1
          /\ i # n + 4 => i + 1 \in 1..Len(R)
      BY <3>1
    <3>3. R[i] \in {Do("build", "own"), Do("replace", "first"), Do("replace", "second"),
                    Do("sign", "own")}
      <4>1. i \in {n + 1, n + 2, n + 3, n + 4}
        BY <3>1
      <4> QED
        BY <2>1, <4>1
    <3> QED
      BY <3>1, <3>2, <3>3 DEF Do
  <2>6. ASSUME NEW i \in (n + 1)..(n + 4)
        PROVE  /\ R[i].kind \notin {"sign", "rename"} => i + 1 \in 1..Len(R)
               /\ R[i].kind = "replace"
                       => \/ R[i] = Do("replace", "first")
                             /\ R[i + 1] = Do("replace", "second")
                          \/ R[i] = Do("replace", "second")
                             /\ R[i + 1] = Do("sign", "own")
               /\ i > 1 /\ R[i].kind = "sign" => R[i - 1] = Do("replace", "second")
               /\ i > 1 /\ R[i] = Do("replace", "second")
                       => R[i - 1] = Do("replace", "first")
    <3>1. i \in Int /\ n \in Nat /\ i \in {n + 1, n + 2, n + 3, n + 4}
      BY <2>1
    <3>2. CASE i = n + 1
      BY <2>1, <3>1, <3>2 DEF Do
    <3>3. CASE i = n + 2
      BY <2>1, <3>1, <3>3 DEF Do
    <3>4. CASE i = n + 3
      BY <2>1, <3>1, <3>4 DEF Do
    <3>5. CASE i = n + 4
      BY <2>1, <3>1, <3>5 DEF Do
    <3> QED
      BY <3>1, <3>2, <3>3, <3>4, <3>5
  <2>7. \A i \in 1..Len(R) : i \in 1..n \/ i \in (n + 1)..(n + 4)
    BY <2>1
  <2>8. Len(R) \in Nat \ {0} /\ R \in Seq(Instructions) /\ 1 \in 1..n
    BY <2>1
  <2> QED
    BY <1>1, <2>4, <2>5, <2>6, <2>7, <2>8
<1>2. CASE t = "release"
  <2>1. /\ R \in Seq(Instructions) /\ Len(R) = 23
        /\ \A i \in 1..16 : R[i] = Locked \/ R[i].kind \in Before
        /\ \E i \in 1..16 : R[i] = Locked
        /\ \A j \in 1..6 : R[16 + j] = Do("copy", CopyOf(j))
        /\ R[23] = Do("rename", "own")
    BY <1>2, ReleaseSteps
  <2>2. PICK l \in 1..16 : R[l] = Locked
    BY <2>1
  <2>3. t \notin Bundles
    BY <1>2, Names
  <2>4. ASSUME NEW i \in 1..16
        PROVE  /\ R[i].kind \notin {"rename", "copy", "replace", "sign"}
               /\ R[i].kind = "lock" => R[i] = Locked
               /\ i + 1 \in 1..Len(R)
               /\ R[i] # Do("replace", "second")
    <3>1. R[i] = Locked \/ R[i].kind \in Before
      BY <2>1
    <3>2. Locked.kind = "lock" /\ Do("replace", "second").kind = "replace"
      BY DEF Locked, Do
    <3>3. R[i].kind \in Before \cup {"lock"}
      BY <3>1, <3>2
    <3>4. i + 1 \in 1..Len(R)
      BY <2>1
    <3> QED
      BY <3>1, <3>2, <3>3, <3>4 DEF Before
  <2>5. ASSUME NEW i \in 17..22
        PROVE  /\ R[i].kind = "copy"
               /\ l \in 1..(i - 1)
               /\ i + 1 \in 1..Len(R)
               /\ R[i] # Do("replace", "second")
    <3>1. PICK j \in 1..6 : i = 16 + j
      <4>1. i - 16 \in 1..6 /\ i = 16 + (i - 16)
        OBVIOUS
      <4> QED
        BY <4>1
    <3>2. R[i] = Do("copy", CopyOf(j))
      BY <2>1, <3>1
    <3>3. R[i].kind = "copy" /\ R[i] # Do("replace", "second")
      BY <3>2 DEF Do
    <3>4. l \in 1..(i - 1)
      BY <2>2
    <3>5. i + 1 \in 1..Len(R)
      BY <2>1
    <3> QED
      BY <3>3, <3>4, <3>5
  <2>6. R[23].kind = "rename" /\ l \in 1..22 /\ R[23] # Do("replace", "second")
    <3>1. R[23] = Do("rename", "own")
      BY <2>1
    <3> QED
      BY <3>1 DEF Do
  <2>7. \A i \in 1..Len(R) : i \in 1..16 \/ i \in 17..22 \/ i = 23
    BY <2>1
  <2> QED
    <3>1. R \in Seq(Instructions) /\ Len(R) \in Nat \ {0} /\ 1 \in 1..16 /\ R[l] = Locked
      BY <2>1, <2>2
    <3>2. ASSUME NEW i \in 1..Len(R)
          PROVE  /\ R[i].kind \notin {"replace", "sign"}
                 /\ R[i].kind = "lock" => R[i] = Locked
                 /\ R[i] # Do("replace", "second")
                 /\ R[i].kind \in {"rename", "copy"} => l \in 1..(i - 1)
                 /\ R[i].kind # "rename" => i + 1 \in 1..Len(R)
                 /\ i = 1 => R[i].kind # "rename"
      <4>1. CASE i \in 1..16
        BY <2>4, <4>1
      <4>2. CASE i \in 17..22
        BY <2>5, <4>2
      <4>3. CASE i = 23
        BY <2>6, <4>3
      <4> QED
        BY <2>7, <4>1, <4>2, <4>3
    <3> QED
      BY <1>2, <2>3, <3>1, <3>2
<1> QED
  BY <1>1, <1>2, Names

----------------------------------------------------------------------------
(* Locks and torn bundles.                                                  *)

Typed ==
    /\ DOMAIN part = Bundles /\ \A b \in Bundles : DOMAIN part[b] = Parts
    /\ DOMAIN manifest = Bundles
    /\ lock \in [Targets -> BOOLEAN]
    /\ job \in [Writer -> Targets \cup {"none"}]
    /\ step \in [Writer -> Nat]
    /\ DOMAIN got = Writer /\ DOMAIN refs = Writer /\ DOMAIN copied = Writer
    /\ \A w \in Writer : job[w] # "none" => step[w] \in 1..Len(RecipeOf[job[w]])

\* A lock file is the one of the process that made it, or of a killed one.
Exclusive ==
    /\ \A w \in Writer : Holds(w) => lock[job[w]]
    /\ \A t \in Targets :
          lock[t] => t \in abandoned \/ \E w \in Writer : job[w] = t /\ Holds(w)
    /\ \A v, w \in Writer : Holds(v) /\ Holds(w) /\ job[v] = job[w] => v = w

\* The artifacts a process has replaced hold what it builds until it signs.
Written(w) ==
    /\ At(w, "sign") => \A p \in Parts : part[job[w]][p] = Merged(got[w])
    /\ At(w, "replace") /\ Now(w).of = "second" =>
          part[job[w]]["first"] = Merged(got[w])

Torn ==
    \A b \in Bundles :
        Whole(b) \/ b \in interrupted \/ \E w \in Writer : job[w] = b /\ Replacing(w)

Locking == /\ Typed
           /\ Exclusive
           /\ \A w \in Writer : Written(w)
           /\ Torn

\* What a process is at, and whether it has its lock.
LEMMA Position ==
    ASSUME Typed, NEW w \in Writer, job[w] # "none"
    PROVE  /\ job[w] \in Targets
           /\ step[w] \in 1..Len(RecipeOf[job[w]])
           /\ Now(w).kind = "lock" => Now(w) = Locked
           /\ Now(w).kind \in {"build", "replace", "sign"} /\ job[w] \in Bundles => Holds(w)
           /\ Now(w).kind \in {"rename", "copy"} => job[w] = "release" /\ Holds(w)
           /\ Now(w).kind \in {"replace", "sign"} => job[w] \in Bundles
           /\ Now(w).kind \notin {"sign", "rename"}
                 => step[w] + 1 \in 1..Len(RecipeOf[job[w]])
           /\ Now(w).kind = "replace" => Now(w).of \in Parts
<1>1. job[w] \in Targets /\ step[w] \in 1..Len(RecipeOf[job[w]])
  BY DEF Typed
<1> DEFINE R == RecipeOf[job[w]]
           i == step[w]
<1>2. /\ R[i].kind = "lock" => R[i] = Locked
      /\ R[i].kind \in {"build", "replace", "sign"} /\ job[w] \in Bundles
             => \E l \in 1..(i - 1) : R[l] = Locked
      /\ R[i].kind \in {"rename", "copy"}
             => job[w] = "release" /\ \E l \in 1..(i - 1) : R[l] = Locked
      /\ R[i].kind \in {"replace", "sign"} => job[w] \in Bundles
      /\ R[i].kind \notin {"sign", "rename"} => i + 1 \in 1..Len(R)
      /\ R[i].kind = "replace" => R[i] = Do("replace", "first")
                                 \/ R[i] = Do("replace", "second")
  <2>1. \A j \in 1..Len(R) :
           /\ R[j].kind = "lock" => R[j] = Locked
           /\ R[j].kind \in {"build", "replace", "sign"} /\ job[w] \in Bundles
                 => \E l \in 1..(j - 1) : R[l] = Locked
           /\ R[j].kind \in {"rename", "copy"}
                 => job[w] = "release" /\ \E l \in 1..(j - 1) : R[l] = Locked
           /\ R[j].kind \in {"replace", "sign"} => job[w] \in Bundles
           /\ R[j].kind \notin {"sign", "rename"} => j + 1 \in 1..Len(R)
           /\ R[j].kind = "replace"
                 => R[j] = Do("replace", "first") \/ R[j] = Do("replace", "second")
    BY <1>1, Recipes
  <2> HIDE DEF R, i
  <2>2. i \in 1..Len(R)
    BY <1>1 DEF R, i
  <2> QED
    BY <2>1, <2>2
<1>3. Now(w) = R[i] /\ (Holds(w) <=> \E l \in 1..(i - 1) : R[l] = Locked)
  BY DEF Now, Holds
<1>4. Do("replace", "first").of \in Parts /\ Do("replace", "second").of \in Parts
  BY Names DEF Do
<1> HIDE DEF R, i
<1>5. Now(w).kind = "replace" => Now(w).of \in Parts
  BY <1>2, <1>3, <1>4
<1> QED
  BY <1>1, <1>2, <1>3, <1>5 DEF R, i

\* A process that goes on keeps its lock or stays without; the step after a
\* replacement is the one of the recipe.
LEMMA GoesOn ==
    ASSUME Typed, NEW w \in Writer, job[w] # "none",
           Now(w).kind \notin {"sign", "rename"},
           job' = job, step' = [step EXCEPT ![w] = @ + 1]
    PROVE  /\ \A v \in Writer \ {w} :
                 /\ Holds(v)' <=> Holds(v)
                 /\ Now(v)' = Now(v)
                 /\ step'[v] = step[v]
           /\ step' \in [Writer -> Nat]
           /\ step'[w] \in 1..Len(RecipeOf[job[w]])
           /\ Now(w).kind # "lock" => (Holds(w)' <=> Holds(w))
           /\ Now(w).kind = "lock" => Holds(w)'
           /\ Now(w) = Do("replace", "first") => Now(w)' = Do("replace", "second")
           /\ Now(w) = Do("replace", "second") => Now(w)' = Do("sign", "own")
           /\ Now(w)'.kind = "sign" => Now(w) = Do("replace", "second")
           /\ Now(w)' = Do("replace", "second") => Now(w) = Do("replace", "first")
<1> DEFINE R == RecipeOf[job[w]]
           i == step[w]
<1>1. /\ job[w] \in Targets /\ i \in 1..Len(R) /\ i + 1 \in 1..Len(R) /\ i \in Nat
      /\ step'[w] = i + 1 /\ step' \in [Writer -> Nat]
      /\ \A v \in Writer \ {w} : step'[v] = step[v]
  BY Position DEF Typed
<1>2. Now(w) = R[i] /\ Now(w)' = R[i + 1]
  BY <1>1 DEF Now
<1>3. ASSUME NEW v \in Writer \ {w}
      PROVE  (Holds(v)' <=> Holds(v)) /\ Now(v)' = Now(v)
  BY <1>1 DEF Holds, Now
<1>4. Holds(w) <=> \E l \in 1..(i - 1) : R[l] = Locked
  BY DEF Holds
<1>5. Holds(w)' <=> \E l \in 1..i : R[l] = Locked
  BY <1>1 DEF Holds
<1>6. \A l \in 1..i : l \in 1..(i - 1) \/ l = i
  BY <1>1
<1>7. \A l \in 1..(i - 1) : l \in 1..i
  BY <1>1
<1>8. R[i] = Locked => R[i].kind = "lock"
  BY DEF Locked, Do
<1>9. R[i].kind = "lock" => R[i] = Locked
  BY <1>2, Position
<1>10. i \in 1..i
  BY <1>1
<1>11. /\ R[i].kind # "lock" => (Holds(w)' <=> Holds(w))
       /\ R[i].kind = "lock" => Holds(w)'
  BY <1>4, <1>5, <1>6, <1>7, <1>8, <1>9, <1>10
<1>12. /\ R[i] = Do("replace", "first") => R[i + 1] = Do("replace", "second")
       /\ R[i] = Do("replace", "second") => R[i + 1] = Do("sign", "own")
       /\ R[i + 1].kind = "sign" => R[i] = Do("replace", "second")
       /\ R[i + 1] = Do("replace", "second") => R[i] = Do("replace", "first")
  <2>1. \A j \in 1..Len(R) :
           /\ R[j].kind = "replace"
                       => \/ R[j] = Do("replace", "first")
                             /\ R[j + 1] = Do("replace", "second")
                          \/ R[j] = Do("replace", "second")
                             /\ R[j + 1] = Do("sign", "own")
           /\ j > 1 /\ R[j].kind = "sign" => R[j - 1] = Do("replace", "second")
           /\ j > 1 /\ R[j] = Do("replace", "second")
                       => R[j - 1] = Do("replace", "first")
    BY <1>1, Recipes
  <2> HIDE DEF R, i
  <2>2. i + 1 > 1 /\ (i + 1) - 1 = i
    BY <1>1
  <2>3. Do("replace", "first").kind = "replace" /\ Do("replace", "second").kind = "replace"
        /\ Do("replace", "first") # Do("replace", "second")
    BY DEF Do
  <2>4. R[i + 1].kind = "sign" => R[i] = Do("replace", "second")
    BY <1>1, <2>1, <2>2
  <2>5. R[i + 1] = Do("replace", "second") => R[i] = Do("replace", "first")
    BY <1>1, <2>1, <2>2
  <2> QED
    BY <1>1, <2>1, <2>3, <2>4, <2>5
<1> QED
  BY <1>1, <1>2, <1>3, <1>11, <1>12

\* A process that is over has no lock.
LEMMA IsGone ==
    ASSUME Typed, NEW w \in Writer, Gone(w)
    PROVE  /\ ~Holds(w)' /\ job'[w] = "none"
           /\ job' \in [Writer -> Targets \cup {"none"}] /\ step' \in [Writer -> Nat]
           /\ \A v \in Writer \ {w} :
                 /\ Holds(v)' <=> Holds(v)
                 /\ Now(v)' = Now(v)
                 /\ job'[v] = job[v] /\ step'[v] = step[v] /\ got'[v] = got[v]
           /\ DOMAIN got' = Writer /\ DOMAIN refs' = Writer /\ DOMAIN copied' = Writer
<1>1. /\ job'[w] = "none"
      /\ job' \in [Writer -> Targets \cup {"none"}] /\ step' \in [Writer -> Nat]
      /\ \A v \in Writer \ {w} :
            job'[v] = job[v] /\ step'[v] = step[v] /\ got'[v] = got[v]
      /\ DOMAIN got' = Writer /\ DOMAIN refs' = Writer /\ DOMAIN copied' = Writer
  BY DEF Gone, Typed
<1>2. ~Holds(w)'
  BY <1>1 DEF Holds
<1>3. \A v \in Writer \ {w} : (Holds(v)' <=> Holds(v)) /\ Now(v)' = Now(v)
  BY <1>1 DEF Holds, Now
<1> QED
  BY <1>1, <1>2, <1>3

LEMMA LockingInit == Init => Locking
<1> SUFFICES ASSUME Init PROVE Locking
  OBVIOUS
<1>1. Typed
  <2>1. DOMAIN FirstBundle = Bundles
    BY DEF FirstBundle, Bundles
  <2> QED
    BY <2>1 DEF Init, Typed
<1>2. \A w \in Writer : job[w] = "none"
  BY DEF Init
<1>3. Exclusive
  BY <1>2 DEF Init, Exclusive, Holds
<1>4. \A w \in Writer : Written(w)
  BY <1>2 DEF Written, At
<1>5. \A b \in Bundles : Whole(b)
  BY DEF Init, Whole
<1> QED
  BY <1>1, <1>3, <1>4, <1>5 DEF Locking, Torn

\* The steps that change neither bundles nor locks.
Quiet(w) == Check(w) \/ Take(w) \/ Build(w) \/ Hash(w) \/ Absent(w) \/ Copy(w)

LEMMA IsQuiet ==
    ASSUME Typed, NEW w \in Writer, Quiet(w)
    PROVE  /\ job[w] # "none"
           /\ Now(w).kind \notin {"lock", "replace", "sign", "rename"}
           /\ Advance(w)
           /\ UNCHANGED <<part, manifest>>
           /\ \A v \in Writer \ {w} : got'[v] = got[v]
           /\ DOMAIN got' = Writer /\ DOMAIN refs' = Writer /\ DOMAIN copied' = Writer
<1>1. CASE Check(w)
  BY <1>1 DEF Check, At, fileVars, Typed
<1>2. CASE Take(w)
  BY <1>2 DEF Take, At, fileVars, Typed
<1>3. CASE Build(w)
  BY <1>3 DEF Build, At, fileVars, Typed
<1>4. CASE Hash(w)
  BY <1>4 DEF Hash, At, fileVars, Typed
<1>5. CASE Absent(w)
  BY <1>5 DEF Absent, At, fileVars, Typed
<1>6. CASE Copy(w)
  BY <1>6 DEF Copy, At, fileVars, Typed
<1> QED
  BY <1>1, <1>2, <1>3, <1>4, <1>5, <1>6 DEF Quiet

\* A step in which one process goes on, holding what it held, and neither
\* locks nor bundles change.
LEMMA LockingKept ==
    ASSUME Locking,
           Typed',
           UNCHANGED <<part, manifest, lock>>,
           abandoned \subseteq abandoned', interrupted \subseteq interrupted',
           \A v \in Writer : /\ Holds(v)' <=> Holds(v)
                             /\ Holds(v) => job'[v] = job[v]
                             /\ Written(v)'
                             /\ Replacing(v) => Replacing(v)' /\ job'[v] = job[v]
    PROVE  Locking'
<1>1. Exclusive'
  BY DEF Locking, Exclusive
<1>2. Torn'
  BY DEF Locking, Torn, Whole
<1> QED
  BY <1>1, <1>2 DEF Locking

\* A replacement names the artifact.
LEMMA ReplaceIs ==
    ASSUME NEW t \in Targets, NEW i \in 1..Len(RecipeOf[t]),
           RecipeOf[t][i].kind = "replace"
    PROVE  /\ RecipeOf[t][i].of = "first" => RecipeOf[t][i] = Do("replace", "first")
           /\ RecipeOf[t][i].of = "second" => RecipeOf[t][i] = Do("replace", "second")
<1>1. RecipeOf[t][i] = Do("replace", "first") \/ RecipeOf[t][i] = Do("replace", "second")
  <2>1. \A j \in 1..Len(RecipeOf[t]) : RecipeOf[t][j].kind = "replace" =>
           \/ RecipeOf[t][j] = Do("replace", "first")
           \/ RecipeOf[t][j] = Do("replace", "second")
    BY Recipes
  <2> QED
    BY <2>1
<1>2. Do("replace", "first").of = "first" /\ Do("replace", "second").of = "second"
  BY DEF Do
<1> QED
  BY <1>1, <1>2

\* Only the step after a replacement finds replaced artifacts.
LEMMA WrittenNext ==
    ASSUME Typed', NEW w \in Writer,
           Now(w)'.kind # "sign", Now(w)' # Do("replace", "second")
    PROVE  Written(w)'
<1> SUFFICES ASSUME job'[w] # "none", Now(w)'.kind = "replace", Now(w)'.of = "second"
             PROVE  FALSE
  BY DEF Written, At
<1>1. /\ job'[w] \in Targets /\ step'[w] \in 1..Len(RecipeOf[job'[w]])
      /\ Now(w)' = RecipeOf[job'[w]][step'[w]]
  BY DEF Typed, Now
<1> QED
  BY <1>1, ReplaceIs

LEMMA LockingStep == Locking /\ [Next]_vars => Locking'
<1> SUFFICES ASSUME Locking, [Next]_vars PROVE Locking'
  OBVIOUS
<1>1. /\ Typed /\ Exclusive /\ Torn
      /\ \A w \in Writer : Written(w)
  BY DEF Locking
<1>2. ASSUME NEW w \in Writer, NEW t \in Targets, Start(w, t)
      PROVE  Locking'
  <2>1. /\ job[w] = "none" /\ job'[w] = t /\ step'[w] = 1
        /\ job' \in [Writer -> Targets \cup {"none"}] /\ step' \in [Writer -> Nat]
        /\ \A v \in Writer \ {w} : job'[v] = job[v] /\ step'[v] = step[v]
        /\ UNCHANGED <<part, manifest, lock, got, refs, copied, abandoned, interrupted>>
    BY <1>1, <1>2 DEF Start, Typed, fileVars
  <2>2. 1 \in 1..Len(RecipeOf[t]) /\ RecipeOf[t][1].kind \notin {"replace", "sign", "rename"}
    <3>1. Len(RecipeOf[t]) \in Nat \ {0}
      BY Recipes
    <3>2. 1 \in 1..Len(RecipeOf[t])
      BY <3>1
    <3> QED
      BY <3>2, Recipes
  <2>3. Typed'
    BY <1>1, <2>1, <2>2 DEF Typed
  <2>4. ~Holds(w) /\ ~Holds(w)' /\ ~Replacing(w)
    BY <2>1, Names DEF Holds, Replacing
  <2>5. Written(w)'
    BY <2>1, <2>2 DEF Written, At, Now
  <2>6. ASSUME NEW v \in Writer \ {w}
        PROVE  /\ (Holds(v)' <=> Holds(v)) /\ job'[v] = job[v]
               /\ Replacing(v) => Replacing(v)'
               /\ Written(v)'
    <3>1. Now(v)' = Now(v) /\ job'[v] = job[v] /\ (Holds(v)' <=> Holds(v))
      BY <2>1 DEF Now, Holds
    <3> QED
      BY <1>1, <2>1, <3>1 DEF Replacing, At, Written
  <2> QED
    BY <2>1, <2>3, <2>4, <2>5, <2>6, LockingKept
<1>3. ASSUME NEW w \in Writer, Lock(w)
      PROVE  Locking'
  <2>1. /\ job[w] # "none" /\ Now(w).kind = "lock" /\ ~lock[job[w]]
        /\ lock' = [lock EXCEPT ![job[w]] = TRUE]
        /\ job' = job /\ step' = [step EXCEPT ![w] = @ + 1]
        /\ UNCHANGED <<part, manifest, got, refs, copied, abandoned, interrupted>>
    BY <1>3 DEF Lock, At, fileVars
  <2>2. /\ Holds(w)' /\ step' \in [Writer -> Nat]
        /\ step'[w] \in 1..Len(RecipeOf[job[w]])
        /\ \A v \in Writer \ {w} : (Holds(v)' <=> Holds(v)) /\ Now(v)' = Now(v)
                                   /\ step'[v] = step[v]
        /\ Now(w)'.kind = "sign" => Now(w) = Do("replace", "second")
        /\ Now(w)' = Do("replace", "second") => Now(w) = Do("replace", "first")
    BY <1>1, <2>1, GoesOn
  <2>21. Now(w)'.kind # "sign" /\ Now(w)' # Do("replace", "second")
    BY <2>1, <2>2 DEF Do
  <2>3. /\ job[w] \in Targets /\ lock' \in [Targets -> BOOLEAN]
        /\ lock'[job[w]] /\ \A t \in Targets \ {job[w]} : lock'[t] = lock[t]
    BY <1>1, <2>1 DEF Typed
  <2>4. Typed'
    BY <1>1, <2>1, <2>2, <2>3 DEF Typed
  <2>5. \A v \in Writer \ {w} : Holds(v) => job[v] # job[w]
    BY <1>1, <2>1 DEF Exclusive
  <2>6. Exclusive'
    <3>1. \A v \in Writer \ {w} : (Holds(v)' <=> Holds(v)) /\ job[v] \in Targets \cup {"none"}
      BY <1>1, <2>2 DEF Typed
    <3>2. \A v \in Writer : Holds(v) => job[v] \in Targets
      BY <1>1, Position DEF Holds
    <3>3. Holds(w)'
      BY <2>2
    <3> QED
      BY <1>1, <2>1, <2>3, <2>5, <3>1, <3>2, <3>3 DEF Exclusive
  <2>7. ~Replacing(w)
    BY <2>1 DEF Replacing, At
  <2>8. Torn'
    BY <1>1, <2>1, <2>2, <2>7 DEF Torn, Whole, Replacing, At
  <2>9. \A v \in Writer \ {w} : Written(v)'
    BY <1>1, <2>1, <2>2 DEF Written, At
  <2>10. Written(w)'
    BY <2>4, <2>21, WrittenNext
  <2> QED
    BY <2>4, <2>6, <2>8, <2>9, <2>10 DEF Locking
<1>4. ASSUME NEW w \in Writer, Quiet(w)
      PROVE  Locking'
  <2>1. /\ job[w] # "none" /\ Now(w).kind \notin {"lock", "replace", "sign", "rename"}
        /\ job' = job /\ step' = [step EXCEPT ![w] = @ + 1]
        /\ UNCHANGED <<part, manifest, lock, abandoned, interrupted>>
        /\ \A v \in Writer \ {w} : got'[v] = got[v]
        /\ DOMAIN got' = Writer /\ DOMAIN refs' = Writer /\ DOMAIN copied' = Writer
    BY <1>1, <1>4, IsQuiet DEF Advance
  <2>2. /\ Holds(w)' <=> Holds(w)
        /\ step' \in [Writer -> Nat] /\ step'[w] \in 1..Len(RecipeOf[job[w]])
        /\ \A v \in Writer \ {w} : (Holds(v)' <=> Holds(v)) /\ Now(v)' = Now(v)
                                   /\ step'[v] = step[v]
        /\ Now(w)'.kind = "sign" => Now(w) = Do("replace", "second")
        /\ Now(w)' = Do("replace", "second") => Now(w) = Do("replace", "first")
    BY <1>1, <2>1, GoesOn
  <2>21. Now(w)'.kind # "sign" /\ Now(w)' # Do("replace", "second")
    BY <2>1, <2>2 DEF Do
  <2>3. Typed'
    BY <1>1, <2>1, <2>2 DEF Typed
  <2>4. ~Replacing(w)
    BY <2>1 DEF Replacing, At
  <2>5. \A v \in Writer \ {w} : Written(v)' /\ (Replacing(v) => Replacing(v)')
    BY <1>1, <2>1, <2>2 DEF Written, At, Replacing
  <2>6. Written(w)'
    BY <2>3, <2>21, WrittenNext
  <2> QED
    BY <2>1, <2>2, <2>3, <2>4, <2>5, <2>6, LockingKept
<1>5. ASSUME NEW w \in Writer, Replace(w)
      PROVE  Locking'
  <2>1. /\ job[w] # "none" /\ Now(w).kind = "replace"
        /\ job' = job /\ step' = [step EXCEPT ![w] = @ + 1]
        /\ part' = [part EXCEPT ![job[w]][Now(w).of] = Merged(got[w])]
        /\ UNCHANGED <<manifest, lock, got, refs, copied, abandoned, interrupted>>
    BY <1>5 DEF Replace, At, Advance
  <2>2. /\ job[w] \in Bundles /\ Holds(w) /\ Now(w).of \in Parts
    BY <1>1, <2>1, Position
  <2>3. Now(w) = Do("replace", "first") \/ Now(w) = Do("replace", "second")
    BY <1>1, <2>1, Position, Recipes DEF Now
  <2>4. /\ Holds(w)'
        /\ step' \in [Writer -> Nat] /\ step'[w] \in 1..Len(RecipeOf[job[w]])
        /\ \A v \in Writer \ {w} : (Holds(v)' <=> Holds(v)) /\ Now(v)' = Now(v)
                                   /\ step'[v] = step[v]
        /\ Now(w) = Do("replace", "first") => Now(w)' = Do("replace", "second")
        /\ Now(w) = Do("replace", "second") => Now(w)' = Do("sign", "own")
    BY <1>1, <2>1, <2>2, GoesOn
  <2>5. /\ DOMAIN part' = Bundles /\ \A b \in Bundles : DOMAIN part'[b] = Parts
        /\ part'[job[w]][Now(w).of] = Merged(got[w])
        /\ \A p \in Parts \ {Now(w).of} : part'[job[w]][p] = part[job[w]][p]
        /\ \A b \in Bundles \ {job[w]} : part'[b] = part[b]
    BY <1>1, <2>1, <2>2 DEF Typed
  <2>6. Typed'
    BY <1>1, <2>1, <2>4, <2>5 DEF Typed
  <2>7. Exclusive'
    BY <1>1, <2>1, <2>2, <2>4 DEF Exclusive
  <2>8. /\ Do("replace", "first").kind = "replace" /\ Do("replace", "first").of = "first"
        /\ Do("replace", "second").kind = "replace" /\ Do("replace", "second").of = "second"
        /\ Do("sign", "own").kind = "sign"
    BY DEF Do
  <2>9. Written(w)'
    <3>1. CASE Now(w) = Do("replace", "first")
      BY <2>1, <2>4, <2>5, <2>8, <3>1 DEF Written, At
    <3>2. CASE Now(w) = Do("replace", "second")
      <4>1. part[job[w]]["first"] = Merged(got[w])
        BY <1>1, <2>1, <2>8, <3>2 DEF Written, At
      <4>2. \A p \in Parts : part'[job[w]][p] = Merged(got[w])
        BY <2>5, <2>8, <3>2, <4>1, Names
      <4>3. Now(w)'.kind = "sign"
        BY <2>4, <2>8, <3>2
      <4> QED
        BY <2>1, <4>2, <4>3 DEF Written, At
    <3> QED
      BY <2>3, <3>1, <3>2
  <2>10. ASSUME NEW v \in Writer \ {w}
         PROVE  Written(v)' /\ (Replacing(v) => Replacing(v)')
    <3>1. Replacing(v) => Replacing(v)'
      BY <2>1, <2>4 DEF Replacing, At
    <3>2. CASE ~(At(v, "sign") \/ At(v, "replace"))
      BY <2>1, <2>4, <3>1, <3>2 DEF Written, At
    <3>3. CASE At(v, "sign") \/ At(v, "replace")
      <4>1. Holds(v) /\ job[v] \in Bundles
        BY <1>1, <3>3, Position DEF At
      <4>2. job[v] # job[w]
        BY <1>1, <2>2, <4>1 DEF Exclusive
      <4>3. part'[job[v]] = part[job[v]]
        BY <2>5, <4>1, <4>2
      <4> QED
        BY <1>1, <2>1, <2>4, <3>1, <4>3 DEF Written, At
    <3> QED
      BY <3>1, <3>2, <3>3
  <2>11. Replacing(w)'
    BY <2>1, <2>2, <2>3, <2>4, <2>8 DEF Replacing, At
  <2>12. Torn'
    <3> SUFFICES ASSUME NEW b \in Bundles
                 PROVE  Whole(b)' \/ b \in interrupted'
                        \/ \E v \in Writer : job'[v] = b /\ Replacing(v)'
      BY DEF Torn
    <3>1. CASE b = job[w]
      BY <2>1, <2>11, <3>1
    <3>2. CASE b # job[w]
      BY <1>1, <2>1, <2>5, <2>10, <3>2 DEF Torn, Whole
    <3> QED
      BY <3>1, <3>2
  <2> QED
    BY <2>6, <2>7, <2>9, <2>10, <2>12 DEF Locking
<1>6. ASSUME NEW w \in Writer, Gone(w), job[w] # "none",
             \/ lock' = Unlocked(w) /\ abandoned' = abandoned
             \/ lock' = lock /\ abandoned' = abandoned \cup {job[w]}
      PROVE  /\ Typed /\ DOMAIN part' = Bundles /\ (\A b \in Bundles : DOMAIN part'[b] = Parts)
                /\ DOMAIN manifest' = Bundles => Typed'
             /\ Exclusive'
             /\ Written(w)'
  <2>1. /\ ~Holds(w)' /\ job'[w] = "none"
        /\ job' \in [Writer -> Targets \cup {"none"}] /\ step' \in [Writer -> Nat]
        /\ \A v \in Writer \ {w} :
              /\ Holds(v)' <=> Holds(v)
              /\ job'[v] = job[v] /\ step'[v] = step[v]
        /\ DOMAIN got' = Writer /\ DOMAIN refs' = Writer /\ DOMAIN copied' = Writer
    BY <1>1, <1>6, IsGone
  <2>2. /\ job[w] \in Targets /\ lock' \in [Targets -> BOOLEAN]
        /\ \A t \in Targets \ {job[w]} : lock'[t] = lock[t]
        /\ lock' = Unlocked(w) => (lock'[job[w]] <=> lock[job[w]] /\ ~Holds(w))
    <3>1. job[w] \in Targets
      BY <1>1, <1>6, Position
    <3> QED
      BY <1>1, <1>6, <3>1 DEF Typed, Unlocked
  <2>3. DOMAIN part' = Bundles /\ (\A b \in Bundles : DOMAIN part'[b] = Parts)
                /\ DOMAIN manifest' = Bundles => Typed'
    BY <1>1, <2>1, <2>2 DEF Typed
  <2>4. Written(w)'
    BY <2>1 DEF Written, At
  <2>5. \A v \in Writer : Holds(v)' => v # w /\ Holds(v) /\ job'[v] = job[v]
    BY <2>1
  <2>6. Exclusive'
    <3>1. CASE lock' = Unlocked(w) /\ abandoned' = abandoned
      <4>1. \A v \in Writer : Holds(v)' => lock'[job'[v]]
        <5> SUFFICES ASSUME NEW v \in Writer, Holds(v)' PROVE lock'[job'[v]]
          OBVIOUS
        <5>1. v # w /\ Holds(v) /\ job'[v] = job[v] /\ lock[job[v]] /\ job[v] \in Targets
          BY <1>1, <2>5, Position DEF Exclusive, Holds
        <5>2. CASE job[v] = job[w]
          <6>1. ~Holds(w)
            BY <1>1, <5>1, <5>2 DEF Exclusive
          <6> QED
            BY <2>2, <3>1, <5>1, <5>2, <6>1
        <5>3. CASE job[v] # job[w]
          BY <2>2, <5>1, <5>3
        <5> QED
          BY <5>2, <5>3
      <4>2. ASSUME NEW t \in Targets, lock'[t]
            PROVE  t \in abandoned' \/ \E v \in Writer : job'[v] = t /\ Holds(v)'
        <5>1. lock[t] /\ ~(t = job[w] /\ Holds(w))
          BY <2>2, <3>1, <4>2
        <5>2. CASE t \in abandoned
          BY <3>1, <5>2
        <5>3. CASE \E v \in Writer : job[v] = t /\ Holds(v)
          BY <2>1, <5>1, <5>3
        <5> QED
          BY <1>1, <5>1, <5>2, <5>3 DEF Exclusive
      <4>3. \A u, v \in Writer : Holds(u)' /\ Holds(v)' /\ job'[u] = job'[v] => u = v
        BY <1>1, <2>5 DEF Exclusive
      <4> QED
        BY <4>1, <4>2, <4>3, Zenon DEF Exclusive
    <3>2. CASE lock' = lock /\ abandoned' = abandoned \cup {job[w]}
      <4>1. \A v \in Writer : Holds(v)' => lock'[job'[v]]
        BY <1>1, <2>5, <3>2 DEF Exclusive
      <4>2. \A t \in Targets :
              lock'[t] => t \in abandoned' \/ \E v \in Writer : job'[v] = t /\ Holds(v)'
        BY <1>1, <2>1, <3>2 DEF Exclusive
      <4>3. \A u, v \in Writer : Holds(u)' /\ Holds(v)' /\ job'[u] = job'[v] => u = v
        BY <1>1, <2>5 DEF Exclusive
      <4> QED
        BY <4>1, <4>2, <4>3, Zenon DEF Exclusive
    <3> QED
      BY <1>6, <3>1, <3>2
  <2> QED
    BY <2>3, <2>4, <2>6
<1>7. ASSUME NEW w \in Writer, Sign(w)
      PROVE  Locking'
  <2>1. /\ job[w] # "none" /\ Now(w).kind = "sign" /\ Gone(w)
        /\ manifest' = [manifest EXCEPT ![job[w]] = Merged(got[w])]
        /\ interrupted' = interrupted \ {job[w]} /\ lock' = Unlocked(w)
        /\ UNCHANGED <<part, abandoned>>
    BY <1>7 DEF Sign, At
  <2>2. job[w] \in Bundles /\ Holds(w)
    BY <1>1, <2>1, Position
  <2>3. /\ DOMAIN manifest' = Bundles /\ manifest'[job[w]] = Merged(got[w])
        /\ \A b \in Bundles \ {job[w]} : manifest'[b] = manifest[b]
    BY <1>1, <2>1, <2>2 DEF Typed
  <2>4. Typed' /\ Exclusive' /\ Written(w)'
    BY <1>1, <1>6, <2>1, <2>3 DEF Typed
  <2>5. ASSUME NEW v \in Writer \ {w}
        PROVE  /\ Written(v)' /\ job'[v] = job[v]
               /\ Replacing(v) => Replacing(v)'
    <3>1. Now(v)' = Now(v) /\ job'[v] = job[v] /\ got'[v] = got[v]
      BY <1>1, <2>1, IsGone
    <3> QED
      BY <1>1, <2>1, <3>1 DEF Written, At, Replacing
  <2>6. \A p \in Parts : part'[job[w]][p] = manifest'[job[w]]
    BY <1>1, <2>1, <2>3 DEF Written, At
  <2>7. Torn'
    <3> SUFFICES ASSUME NEW b \in Bundles
                 PROVE  Whole(b)' \/ b \in interrupted'
                        \/ \E v \in Writer : job'[v] = b /\ Replacing(v)'
      BY DEF Torn
    <3>1. CASE b = job[w]
      BY <2>6, <3>1 DEF Whole
    <3>2. CASE b # job[w]
      BY <1>1, <2>1, <2>3, <2>5, <3>2 DEF Torn, Whole
    <3> QED
      BY <3>1, <3>2
  <2> QED
    BY <2>4, <2>5, <2>7 DEF Locking
<1>8. ASSUME NEW w \in Writer, Gone(w), job[w] # "none",
             \/ lock' = Unlocked(w) /\ abandoned' = abandoned
             \/ lock' = lock /\ abandoned' = abandoned \cup {job[w]},
             UNCHANGED <<part, manifest>>,
             interrupted \subseteq interrupted',
             Replacing(w) => job[w] \in interrupted'
      PROVE  Locking'
  <2>1. Typed' /\ Exclusive' /\ Written(w)'
    BY <1>1, <1>6, <1>8 DEF Typed
  <2>2. ASSUME NEW v \in Writer \ {w}
        PROVE  /\ Written(v)' /\ job'[v] = job[v]
               /\ Replacing(v) => Replacing(v)'
    <3>1. Now(v)' = Now(v) /\ job'[v] = job[v] /\ got'[v] = got[v]
      BY <1>1, <1>8, IsGone
    <3> QED
      BY <1>1, <1>8, <3>1 DEF Written, At, Replacing
  <2>3. Torn'
    BY <1>1, <1>8, <2>2 DEF Torn, Whole
  <2> QED
    BY <2>1, <2>2, <2>3 DEF Locking
<1>9. ASSUME NEW w \in Writer, Rename(w)
      PROVE  Locking'
  <2>1. job[w] # "none" /\ ~Replacing(w)
    BY <1>9 DEF Rename, At, Replacing
  <2> QED
    BY <1>8, <1>9, <2>1 DEF Rename
<1>10. ASSUME NEW w \in Writer, Fail(w)
       PROVE  Locking'
  BY <1>8, <1>10 DEF Fail, fileVars
<1>11. ASSUME NEW w \in Writer, Kill(w)
       PROVE  Locking'
  <2>1. job[w] # "none"
    BY <1>11 DEF Kill, Holds
  <2> QED
    BY <1>8, <1>11, <2>1 DEF Kill, fileVars
<1>12. ASSUME UNCHANGED <<part, manifest, lock, runVars, abandoned, interrupted>>
       PROVE  Locking'
  <2>1. Typed'
    BY <1>1, <1>12 DEF Typed, runVars
  <2>2. ASSUME NEW v \in Writer
        PROVE  /\ (Holds(v)' <=> Holds(v)) /\ job'[v] = job[v]
               /\ Written(v)' /\ (Replacing(v) => Replacing(v)')
    <3>1. Now(v)' = Now(v) /\ job'[v] = job[v] /\ (Holds(v)' <=> Holds(v))
      BY <1>12 DEF Now, Holds, runVars
    <3> QED
      BY <1>1, <1>12, <3>1 DEF Written, At, Replacing, runVars
  <2> QED
    BY <1>12, <2>1, <2>2, LockingKept
<1>13. ASSUME NEW f \in Sources, Edit(f)
       PROVE  Locking'
  BY <1>12, <1>13 DEF Edit
<1>14. CASE UNCHANGED vars
  BY <1>12, <1>14 DEF vars, fileVars
<1>15. ASSUME NEW w \in Writer, Step(w)
       PROVE  Locking'
  BY <1>3, <1>4, <1>5, <1>7, <1>9, <1>15 DEF Step, Quiet
<1> QED
  BY <1>2, <1>10, <1>11, <1>13, <1>14, <1>15 DEF Next

\* A bundle is torn only while it is being replaced or since that was cut
\* short, by the one process that has its lock; a lock without a process is
\* a killed one's (the files are replaced one by one under .write.lock).
THEOREM TornOnlyWhileReplaced == Spec => []TornOnlyByInterruption
<1>1. Locking => TornOnlyByInterruption
  BY DEF Locking, Exclusive, Torn, TornOnlyByInterruption
<1> QED
  BY <1>1, LockingInit, LockingStep, PTL DEF Spec


----------------------------------------------------------------------------
(* The release.                                                             *)

\* The files of a release that have been copied: those of each name copied
\* so far, once.
CopiedUpTo(files, n) ==
    /\ \A x \in files : \E j \in 1..6 : 16 + j < n /\ x.of = CopyOf(j)
    /\ \A j \in 1..6 : 16 + j < n =>
          /\ \E x \in files : x.of = CopyOf(j)
          /\ CopyOf(j) \in Bundles =>
                \A p \in Parts :
                    \E y : {x \in files : x.of = CopyOf(j) /\ x.no = p} = {y}

Copying ==
    \A w \in Writer : /\ job[w] # "release" => copied[w] = {}
                      /\ job[w] = "release" => CopiedUpTo(copied[w], step[w])

LEMMA ReleaseAt ==
    ASSUME Typed, NEW w \in Writer, job[w] = "release"
    PROVE  /\ step[w] \in 1..23
           /\ Now(w).kind = "rename" => step[w] = 23
           /\ Now(w).kind = "copy"
                 => \E j \in 1..6 : step[w] = 16 + j /\ Now(w).of = CopyOf(j)
           /\ \A j \in 1..6 : step[w] = 16 + j => Now(w).kind = "copy"
<1> DEFINE R == RecipeOf["release"]
           i == step[w]
<1>1. /\ R \in Seq(Instructions) /\ Len(R) = 23
      /\ \A k \in 1..16 : R[k] = Locked \/ R[k].kind \in Before
      /\ \A j \in 1..6 : R[16 + j] = Do("copy", CopyOf(j))
      /\ R[23] = Do("rename", "own")
  BY ReleaseSteps
<1>2. i \in 1..Len(R) /\ Now(w) = R[i]
  BY Names DEF Typed, Now
<1> HIDE DEF R, i
<1>3. i \in 1..23
  BY <1>1, <1>2
<1>4. CASE i \in 1..16
  <2>1. R[i] = Locked \/ R[i].kind \in Before
    BY <1>1, <1>4
  <2>2. R[i].kind \notin {"copy", "rename"}
    BY <2>1 DEF Before, Locked, Do
  <2>3. \A j \in 1..6 : i # 16 + j
    BY <1>4
  <2> QED
    BY <1>2, <1>3, <2>2, <2>3 DEF i
<1>5. CASE i \in 17..22
  <2>1. PICK j \in 1..6 : i = 16 + j
    <3>1. i - 16 \in 1..6 /\ i = 16 + (i - 16)
      BY <1>5
    <3> QED
      BY <3>1
  <2>2. R[i] = Do("copy", CopyOf(j))
    BY <1>1, <2>1
  <2>3. R[i].kind = "copy" /\ R[i].of = CopyOf(j)
    BY <2>2 DEF Do
  <2> QED
    BY <1>2, <1>3, <2>1, <2>3 DEF i
<1>6. CASE i = 23
  <2>1. R[i].kind = "rename"
    BY <1>1, <1>6 DEF Do
  <2>2. \A j \in 1..6 : i # 16 + j
    BY <1>6
  <2> QED
    BY <1>2, <1>3, <1>6, <2>1, <2>2 DEF i
<1>7. i \in 1..16 \/ i \in 17..22 \/ i = 23
  BY <1>3
<1> QED
  BY <1>4, <1>5, <1>6, <1>7

\* One more name is copied.
LEMMA CopiesOne ==
    ASSUME NEW files, NEW j \in 1..6, CopiedUpTo(files, 16 + j)
    PROVE  CopiedUpTo(files \cup FilesOf(CopyOf(j)), 17 + j)
<1> DEFINE new == FilesOf(CopyOf(j))
           more == files \cup new
<1>1. /\ \A x \in new : x.of = CopyOf(j)
      /\ \E x \in new : x.of = CopyOf(j)
      /\ CopyOf(j) \in Bundles => \A p \in Parts :
            \E y : {x \in new : x.of = CopyOf(j) /\ x.no = p} = {y}
  <2>1. CASE j = 6
    <3>1. CopyOf(j) = "catalog" /\ CopyOf(j) \notin Bundles
      BY <2>1, Copied DEF Bundles
    <3> QED
      BY <3>1 DEF FilesOf
  <2>2. CASE j # 6
    <3>1. CopyOf(j) # "catalog"
      BY <2>2, Copied
    <3>2. new = {[of |-> CopyOf(j), no |-> p, content |-> part[CopyOf(j)][p]] : p \in Parts}
      BY <3>1 DEF FilesOf
    <3>3. ASSUME NEW p \in Parts
          PROVE  {x \in new : x.of = CopyOf(j) /\ x.no = p}
                     = {[of |-> CopyOf(j), no |-> p, content |-> part[CopyOf(j)][p]]}
      BY <3>2
    <3>4. "first" \in Parts
      BY Names
    <3> QED
      BY <3>2, <3>3, <3>4
  <2> QED
    BY <2>1, <2>2
<1> HIDE DEF new
<1>2. \A k \in 1..6 : 16 + k < 17 + j <=> (16 + k < 16 + j \/ k = j)
  OBVIOUS
<1>3. \A k \in 1..6 : 16 + k < 16 + j => CopyOf(k) # CopyOf(j)
  BY Copied
<1>4. \A x \in files : x.of # CopyOf(j)
  BY <1>3 DEF CopiedUpTo
<1>5. \A x \in more : \E k \in 1..6 : 16 + k < 17 + j /\ x.of = CopyOf(k)
  BY <1>1, <1>2 DEF CopiedUpTo
<1>6. ASSUME NEW k \in 1..6, 16 + k < 17 + j
      PROVE  /\ \E x \in more : x.of = CopyOf(k)
             /\ CopyOf(k) \in Bundles => \A p \in Parts :
                   \E y : {x \in more : x.of = CopyOf(k) /\ x.no = p} = {y}
  <2>1. CASE k = j
    <3>1. \A p : {x \in more : x.of = CopyOf(k) /\ x.no = p}
                    = {x \in new : x.of = CopyOf(k) /\ x.no = p}
      BY <1>4, <2>1
    <3> QED
      BY <1>1, <2>1, <3>1
  <2>2. CASE 16 + k < 16 + j
    <3>1. \A p : {x \in more : x.of = CopyOf(k) /\ x.no = p}
                    = {x \in files : x.of = CopyOf(k) /\ x.no = p}
      BY <1>1, <1>3, <2>2
    <3>2. \E x \in files : x.of = CopyOf(k)
      BY <2>2 DEF CopiedUpTo
    <3>3. ASSUME NEW p \in Parts, CopyOf(k) \in Bundles
          PROVE  \E y : {x \in more : x.of = CopyOf(k) /\ x.no = p} = {y}
      <4>1. PICK y : {x \in files : x.of = CopyOf(k) /\ x.no = p} = {y}
        BY <2>2, <3>3, Zenon DEF CopiedUpTo
      <4> QED
        BY <3>1, <4>1
    <3> QED
      BY <3>2, <3>3
  <2> QED
    BY <1>2, <1>6, <2>1, <2>2
<1> HIDE DEF more
<1>7. CopiedUpTo(more, 17 + j)
  BY <1>5, <1>6, Zenon DEF CopiedUpTo
<1> QED
  BY <1>7 DEF more, new

LEMMA CopyingStep ==
    ASSUME Typed, Copying, [Next]_vars
    PROVE  Copying'
<1>1. ASSUME NEW w \in Writer, NEW t \in Targets, Start(w, t)
      PROVE  Copying'
  <2>1. /\ job[w] = "none" /\ job'[w] = t /\ step'[w] = 1 /\ copied' = copied
        /\ \A v \in Writer \ {w} : job'[v] = job[v] /\ step'[v] = step[v]
    BY <1>1 DEF Start, Typed
  <2>2. copied[w] = {}
    BY <2>1 DEF Copying
  <2>3. CopiedUpTo({}, 1)
    BY DEF CopiedUpTo
  <2> QED
    BY <2>1, <2>2, <2>3 DEF Copying
<1>2. ASSUME NEW w \in Writer, job[w] # "none", job' = job,
             step' = [step EXCEPT ![w] = @ + 1],
             \/ Now(w).kind # "copy" /\ copied' = copied
             \/ Copy(w)
      PROVE  Copying'
  <2>1. /\ step'[w] = step[w] + 1 /\ step[w] \in Nat
        /\ \A v \in Writer \ {w} : step'[v] = step[v] /\ copied'[v] = copied[v]
    BY <1>2 DEF Typed, Copy
  <2>2. CASE Now(w).kind # "copy" /\ copied' = copied
    <3>1. CASE job[w] = "release"
      <4>1. \A j \in 1..6 : step[w] # 16 + j
        BY <2>2, <3>1, ReleaseAt
      <4>2. \A j \in 1..6 : 16 + j < step[w] + 1 <=> 16 + j < step[w]
        BY <2>1, <4>1
      <4>3. CopiedUpTo(copied[w], step[w])
        BY <3>1 DEF Copying
      <4>4. CopiedUpTo(copied[w], step[w] + 1)
        BY <4>2, <4>3 DEF CopiedUpTo
      <4> QED
        BY <1>2, <2>1, <2>2, <4>4 DEF Copying
    <3>2. CASE job[w] # "release"
      BY <1>2, <2>1, <2>2, <3>2 DEF Copying
    <3> QED
      BY <3>1, <3>2
  <2>3. CASE Copy(w)
    <3>1. Now(w).kind = "copy" /\ copied'[w] = copied[w] \cup FilesOf(Now(w).of)
      BY <2>3 DEF Copy, At, Typed
    <3>2. job[w] = "release"
      BY <1>2, <3>1, Position
    <3>3. PICK j \in 1..6 : step[w] = 16 + j /\ Now(w).of = CopyOf(j)
      BY <3>1, <3>2, ReleaseAt
    <3>4. CopiedUpTo(copied[w], 16 + j)
      BY <3>2, <3>3 DEF Copying
    <3>5. CopiedUpTo(copied[w] \cup FilesOf(CopyOf(j)), 17 + j)
      BY <3>4, CopiesOne
    <3>6. step'[w] = 17 + j
      BY <2>1, <3>3
    <3>7. CopiedUpTo(copied'[w], step'[w])
      BY <3>1, <3>3, <3>5, <3>6
    <3> QED
      BY <1>2, <2>1, <3>2, <3>7 DEF Copying
  <2> QED
    BY <1>2, <2>2, <2>3
<1>3. ASSUME NEW w \in Writer, Gone(w)
      PROVE  Copying'
  <2>1. /\ job'[w] = "none" /\ copied'[w] = {}
        /\ \A v \in Writer \ {w} :
              job'[v] = job[v] /\ step'[v] = step[v] /\ copied'[v] = copied[v]
    BY <1>3 DEF Gone, Typed
  <2> QED
    BY <2>1 DEF Copying
<1>4. ASSUME UNCHANGED runVars
      PROVE  Copying'
  BY <1>4 DEF Copying, runVars
<1>5. ASSUME NEW w \in Writer, Step(w)
      PROVE  Copying'
  <2>1. ASSUME Lock(w) PROVE Copying'
    BY <1>2, <2>1 DEF Lock, At
  <2>2. ASSUME Check(w) PROVE Copying'
    BY <1>2, <2>2 DEF Check, At, Advance
  <2>3. ASSUME Take(w) PROVE Copying'
    BY <1>2, <2>3 DEF Take, At, Advance
  <2>4. ASSUME Build(w) PROVE Copying'
    BY <1>2, <2>4 DEF Build, At, Advance
  <2>5. ASSUME Replace(w) PROVE Copying'
    BY <1>2, <2>5 DEF Replace, At, Advance
  <2>6. ASSUME Hash(w) PROVE Copying'
    BY <1>2, <2>6 DEF Hash, At, Advance
  <2>7. ASSUME Absent(w) PROVE Copying'
    BY <1>2, <2>7 DEF Absent, At, Advance
  <2>8. ASSUME Copy(w) PROVE Copying'
    BY <1>2, <2>8 DEF Copy, At, Advance
  <2>9. ASSUME Sign(w) \/ Rename(w) PROVE Copying'
    BY <1>3, <2>9 DEF Sign, Rename
  <2> QED
    BY <1>5, <2>1, <2>2, <2>3, <2>4, <2>5, <2>6, <2>7, <2>8, <2>9 DEF Step
<1>6. ASSUME NEW w \in Writer, Fail(w) \/ Kill(w)
      PROVE  Copying'
  BY <1>3, <1>6 DEF Fail, Kill
<1>7. ASSUME NEW f \in Sources, Edit(f)
      PROVE  Copying'
  BY <1>4, <1>7 DEF Edit
<1>8. CASE UNCHANGED vars
  BY <1>4, <1>8 DEF vars
<1> QED
  BY <1>1, <1>5, <1>6, <1>7, <1>8 DEF Next

\* Only the rename publishes.
LEMMA ReleaseByRename ==
    ASSUME [Next]_vars, release' # release
    PROVE  \E w \in Writer : Rename(w)
<1>1. ~UNCHANGED release
  OBVIOUS
<1>2. ASSUME NEW w \in Writer, Step(w)
      PROVE  Rename(w)
  BY <1>1, <1>2 DEF Step, Lock, Check, Take, Build, Replace, Sign, Hash, Absent,
                    Copy, fileVars
<1> QED
  BY <1>1, <1>2 DEF Next, Start, Fail, Kill, Edit, vars, fileVars

LEMMA RenamedWhole ==
    ASSUME Typed, Copying, NEW w \in Writer, Rename(w)
    PROVE  /\ release = {}
           /\ {x.of : x \in release'} =
                 {Released[i] : i \in 1..Len(Released)} \cup {"catalog"}
           /\ \A b \in Bundles : \A p \in Parts :
                 (\E x \in release' : x.of = b) =>
                    Cardinality({x \in release' : x.of = b /\ x.no = p}) = 1
           /\ Agree({x.content : x \in release'})
<1>1. /\ release = {} /\ release' = copied[w] /\ Agree(ContentsOf(copied[w]))
      /\ job[w] # "none" /\ Now(w).kind = "rename"
  BY DEF Rename, GenerationLoads, At
<1>2. job[w] = "release" /\ step[w] = 23
  BY <1>1, Position, ReleaseAt
<1>3. CopiedUpTo(release', 23)
  BY <1>1, <1>2 DEF Copying
<1>4. \A j \in 1..6 : 16 + j < 23
  OBVIOUS
<1>5. {x.of : x \in release'} = {CopyOf(j) : j \in 1..6}
  BY <1>3, <1>4 DEF CopiedUpTo
<1>6. {CopyOf(j) : j \in 1..6} = {Released[i] : i \in 1..Len(Released)} \cup {"catalog"}
  <2>1. Len(Released) = 5
    BY DEF Released
  <2>2. \A i \in 1..5 : Released[i] = CopyOf(i)
    BY DEF CopyOf
  <2>3. \A j \in 1..6 : j \in 1..5 \/ j = 6
    OBVIOUS
  <2> QED
    BY <2>1, <2>2, <2>3, Copied
<1>7. ASSUME NEW b \in Bundles, NEW p \in Parts, \E x \in release' : x.of = b
      PROVE  Cardinality({x \in release' : x.of = b /\ x.no = p}) = 1
  <2>1. PICK j \in 1..6 : b = CopyOf(j)
    BY <1>3, <1>7 DEF CopiedUpTo
  <2>2. \E y : {x \in release' : x.of = CopyOf(j) /\ x.no = p} = {y}
    <3>1. CopyOf(j) \in Bundles /\ 16 + j < 23
      BY <1>4, <2>1
    <3> QED
      BY <1>3, <3>1, Zenon DEF CopiedUpTo
  <2>3. PICK y : {x \in release' : x.of = b /\ x.no = p} = {y}
    BY <2>1, <2>2
  <2> QED
    BY <2>3, FS_Singleton
<1> QED
  BY <1>1, <1>5, <1>6, <1>7 DEF ContentsOf

\* A release appears once, whole, each of its files once and of one
\* provenance, and never changes (release/bundle.py publishes by one rename).
THEOREM ReleasesAreWhole == Spec => ReleaseWholeAndImmutable
<1>1. Init => Copying
  BY Names DEF Init, Copying
<1>2. Locking /\ Copying /\ [Next]_vars => Copying'
  BY CopyingStep DEF Locking
<1>3. Locking /\ Copying /\ [Next]_vars =>
        [release' # release =>
          /\ release = {}
          /\ {x.of : x \in release'} =
                {Released[i] : i \in 1..Len(Released)} \cup {"catalog"}
          /\ \A b \in Bundles : \A p \in Parts :
                (\E x \in release' : x.of = b) =>
                   Cardinality({x \in release' : x.of = b /\ x.no = p}) = 1
          /\ Agree({x.content : x \in release'})]_vars
  BY ReleaseByRename, RenamedWhole DEF Locking
<1> QED
  BY <1>1, <1>2, <1>3, LockingInit, LockingStep, PTL DEF Spec, ReleaseWholeAndImmutable


----------------------------------------------------------------------------
(* Validation, unfolded.                                                    *)

\* One level of Valid.
Validated(V, b) ==
    LET steps == {RebuildOf[b][i] : i \in DOMAIN RebuildOf[b]} IN
    /\ Whole(b)
    /\ \A d \in steps : /\ d.kind = "check" => V[d.of]
                        /\ d.kind = "load" => Whole(d.of)
    /\ Agree({manifest[b]} \cup UNION {Read(d) : d \in steps})

Validation(V) == V = [b \in Bundles |-> Validated(V, b)]

\* What a bundle's validation asks beyond the validity of others.
Own(b) ==
    /\ Whole(b)
    /\ \A d \in StepsIn(RebuildOf[b]) : d.kind = "load" => Whole(d.of)
    /\ Agree({manifest[b]} \cup UNION {Read(d) : d \in StepsIn(RebuildOf[b])})

Checked(b) == {d.of : d \in {e \in StepsIn(RebuildOf[b]) : e.kind = "check"}}

LEMMA CheckedBundles ==
    /\ Checked("category") = {}
    /\ Checked("profile") = {"category"}
    /\ Checked("gateA") = {"category", "profile"}
    /\ Checked("resolution") = {"category"}
    /\ Checked("review") = {"resolution"}
    /\ Checked("gateB") = {"review"}
    /\ Checked("runtime") = {"gateB"}
<1>1. Checked("category") = {}
  <2> DEFINE S == StepsIn(RebuildOf["category"])
  <2>1. S =
          {Do("source", "catalog")}
    BY RebuildSteps
  <2>2. {e \in S : e.kind = "check"} = {}
    <3> HIDE DEF S
    <3> QED
      BY <2>1 DEF Do
  <2>3. Checked("category") = {d.of : d \in {}}
    BY <2>2 DEF Checked
  <2> QED
    BY <2>3 DEF Do
<1>2. Checked("profile") = {"category"}
  <2> DEFINE S == StepsIn(RebuildOf["profile"])
  <2>1. S =
          {Do("check", "category"), Do("read", "category"),
           Do("source", "profileSelection"),
           Do("source", "catalog")}
    BY RebuildSteps
  <2>2. {e \in S : e.kind = "check"} = {Do("check", "category")}
    <3> HIDE DEF S
    <3> QED
      BY <2>1 DEF Do
  <2>3. Checked("profile") = {d.of : d \in {Do("check", "category")}}
    BY <2>2 DEF Checked
  <2> QED
    BY <2>3 DEF Do
<1>3. Checked("gateA") = {"category", "profile"}
  <2> DEFINE S == StepsIn(RebuildOf["gateA"])
  <2>1. S =
          {Do("check", "category"), Do("check", "profile"),
           Do("read", "category"), Do("pin", "profile"),
           Do("source", "gateASelection"), Do("source", "catalog")}
    BY RebuildSteps
  <2>2. {e \in S : e.kind = "check"} = {Do("check", "category"), Do("check", "profile")}
    <3> HIDE DEF S
    <3> QED
      BY <2>1 DEF Do
  <2>3. Checked("gateA") = {d.of : d \in {Do("check", "category"), Do("check", "profile")}}
    BY <2>2 DEF Checked
  <2> QED
    BY <2>3 DEF Do
<1>4. Checked("resolution") = {"category"}
  <2> DEFINE S == StepsIn(RebuildOf["resolution"])
  <2>1. S =
          {Do("check", "category"), Do("load", "gateA"),
           Do("read", "category"), Do("source", "catalog")}
    BY RebuildSteps
  <2>2. {e \in S : e.kind = "check"} = {Do("check", "category")}
    <3> HIDE DEF S
    <3> QED
      BY <2>1 DEF Do
  <2>3. Checked("resolution") = {d.of : d \in {Do("check", "category")}}
    BY <2>2 DEF Checked
  <2> QED
    BY <2>3 DEF Do
<1>5. Checked("review") = {"resolution"}
  <2> DEFINE S == StepsIn(RebuildOf["review"])
  <2>1. S =
          {Do("check", "resolution"), Do("read", "category"),
           Do("read", "resolution"), Do("load", "gateA"),
           Do("source", "publicSet")}
    BY RebuildSteps
  <2>2. {e \in S : e.kind = "check"} = {Do("check", "resolution")}
    <3> HIDE DEF S
    <3> QED
      BY <2>1 DEF Do
  <2>3. Checked("review") = {d.of : d \in {Do("check", "resolution")}}
    BY <2>2 DEF Checked
  <2> QED
    BY <2>3 DEF Do
<1>6. Checked("gateB") = {"review"}
  <2> DEFINE S == StepsIn(RebuildOf["gateB"])
  <2>1. S =
          {Do("check", "review"), Do("source", "gateBSelection"),
           Do("read", "category"), Do("read", "resolution"),
           Do("read", "review"), Do("load", "gateA")}
    BY RebuildSteps
  <2>2. {e \in S : e.kind = "check"} = {Do("check", "review")}
    <3> HIDE DEF S
    <3> QED
      BY <2>1 DEF Do
  <2>3. Checked("gateB") = {d.of : d \in {Do("check", "review")}}
    BY <2>2 DEF Checked
  <2> QED
    BY <2>3 DEF Do
<1>7. Checked("runtime") = {"gateB"}
  <2> DEFINE S == StepsIn(RebuildOf["runtime"])
  <2>1. S =
          {Do("check", "gateB"), Do("read", "category"),
           Do("load", "gateA"), Do("load", "gateB")}
    BY RebuildSteps
  <2>2. {e \in S : e.kind = "check"} = {Do("check", "gateB")}
    <3> HIDE DEF S
    <3> QED
      BY <2>1 DEF Do
  <2>3. Checked("runtime") = {d.of : d \in {Do("check", "gateB")}}
    BY <2>2 DEF Checked
  <2> QED
    BY <2>3 DEF Do
<1> QED
  BY <1>1, <1>2, <1>3, <1>4, <1>5, <1>6, <1>7

LEMMA ValidatedIs ==
    ASSUME NEW V, NEW b \in Bundles
    PROVE  Validated(V, b) <=> Own(b) /\ \A c \in Checked(b) : V[c]
<1>1. RebuildOf[b] \in Seq(Instructions)
  BY RebuildSteps
<1>2. {RebuildOf[b][i] : i \in DOMAIN RebuildOf[b]} = StepsIn(RebuildOf[b])
  BY <1>1 DEF StepsIn
<1>3. Validated(V, b) <=>
          /\ Whole(b)
          /\ \A d \in StepsIn(RebuildOf[b]) :
                /\ d.kind = "check" => V[d.of]
                /\ d.kind = "load" => Whole(d.of)
          /\ Agree({manifest[b]} \cup UNION {Read(d) : d \in StepsIn(RebuildOf[b])})
  BY <1>2 DEF Validated
<1>4. (\A c \in Checked(b) : V[c])
          <=> \A d \in StepsIn(RebuildOf[b]) : d.kind = "check" => V[d.of]
  BY DEF Checked
<1> QED
  BY <1>3, <1>4 DEF Own

LEMMA ValidationExists == \E V : Validation(V)
<1> DEFINE category == Own("category")
           profile == Own("profile") /\ category
           gateA == Own("gateA") /\ category /\ profile
           resolution == Own("resolution") /\ category
           review == Own("review") /\ resolution
           gateB == Own("gateB") /\ review
           runtime == Own("runtime") /\ gateB
           V == [b \in Bundles |->
                    \/ b = "category" /\ category
                    \/ b = "profile" /\ profile
                    \/ b = "gateA" /\ gateA
                    \/ b = "resolution" /\ resolution
                    \/ b = "review" /\ review
                    \/ b = "gateB" /\ gateB
                    \/ b = "runtime" /\ runtime]
<1> HIDE DEF category, profile, gateA, resolution, review, gateB, runtime
<1>1. /\ (V["category"] <=> category) /\ (V["profile"] <=> profile)
      /\ (V["gateA"] <=> gateA) /\ (V["resolution"] <=> resolution)
      /\ (V["review"] <=> review) /\ (V["gateB"] <=> gateB)
      /\ (V["runtime"] <=> runtime)
  <2>1. {"category", "profile", "gateA", "resolution", "review", "gateB", "runtime"}
            = Bundles
    BY DEF Bundles
  <2> QED
    BY <2>1
<1>5. V = [b \in Bundles |-> V[b]]
  OBVIOUS
<1> HIDE DEF V
<1>2. ASSUME NEW b \in Bundles
      PROVE  V[b] = Validated(V, b)
  <2>1. Validated(V, b) \in BOOLEAN /\ V[b] \in BOOLEAN
    BY DEF Validated, V
  <2>2. Validated(V, b) <=> Own(b) /\ \A c \in Checked(b) : V[c]
    BY ValidatedIs
  <2>3. CASE b = "category"
    BY <1>1, <2>1, <2>2, <2>3, CheckedBundles DEF category
  <2>4. CASE b = "profile"
    BY <1>1, <2>1, <2>2, <2>4, CheckedBundles DEF profile
  <2>5. CASE b = "gateA"
    BY <1>1, <2>1, <2>2, <2>5, CheckedBundles DEF gateA
  <2>6. CASE b = "resolution"
    BY <1>1, <2>1, <2>2, <2>6, CheckedBundles DEF resolution
  <2>7. CASE b = "review"
    BY <1>1, <2>1, <2>2, <2>7, CheckedBundles DEF review
  <2>8. CASE b = "gateB"
    BY <1>1, <2>1, <2>2, <2>8, CheckedBundles DEF gateB
  <2>9. CASE b = "runtime"
    BY <1>1, <2>1, <2>2, <2>9, CheckedBundles DEF runtime
  <2> QED
    BY <2>3, <2>4, <2>5, <2>6, <2>7, <2>8, <2>9 DEF Bundles
<1>3. [b \in Bundles |-> V[b]] = [b \in Bundles |-> Validated(V, b)]
  BY <1>2
<1>4. Validation(V)
  BY <1>3, <1>5 DEF Validation
<1> QED
  BY <1>4

LEMMA ValidUnfolds ==
    ASSUME NEW b \in Bundles
    PROVE  Valid[b] <=> Own(b) /\ \A c \in Checked(b) : Valid[c]
<1>1. Valid = CHOOSE V : Validation(V)
  BY Zenon DEF Valid, Validation, Validated
<1>2. Validation(Valid)
  BY <1>1, ValidationExists
<1> HIDE DEF Valid
<1>3. Valid[b] = Validated(Valid, b)
  BY <1>2, Zenon DEF Validation
<1> QED
  BY <1>3, ValidatedIs


----------------------------------------------------------------------------
(* Provenance: every file derives from the same sources as at the first.    *)

SourceOf(f) == DOMAIN FirstSource[f]
Derived(b) == DOMAIN FirstBundle[b]

\* The sources of what a step reads.
SourcesRead(d) ==
    CASE d.kind = "source"                  -> SourceOf(d.of)
      [] d.kind \in {"pin", "read", "load"} -> Derived(d.of)
      [] OTHER                              -> {}

SourcesOf(steps) == UNION {SourcesRead(d) : d \in steps}

SourcesBefore(t, n) == SourcesOf({RecipeOf[t][i] : i \in 1..(n - 1)})

Spanned(contents) == UNION {DOMAIN c : c \in contents}

Provenance ==
    /\ DOMAIN source = Sources /\ \A f \in Sources : DOMAIN source[f] = SourceOf(f)
    /\ \A b \in Bundles : /\ \A p \in Parts : DOMAIN part[b][p] = Derived(b)
                          /\ DOMAIN manifest[b] = Derived(b)
    /\ \A w \in Writer :
          /\ job[w] = "none" => got[w] = {}
          /\ job[w] \in Bundles => Spanned(got[w]) = SourcesBefore(job[w], step[w])

LEMMA Origins ==
    /\ SourceOf("catalog") = {"catalog"}
    /\ SourceOf("scopes") = {"catalog", "scopes"}
    /\ SourceOf("profileSelection") = {"catalog", "scopes", "profileSelection"}
    /\ SourceOf("gateASelection") =
          {"catalog", "scopes", "profileSelection", "gateASelection"}
    /\ SourceOf("publicSet") = {"publicSet"}
    /\ SourceOf("gateBSelection") = Sources
    /\ Derived("category") = SourceOf("scopes")
    /\ Derived("profile") = SourceOf("profileSelection")
    /\ Derived("gateA") = SourceOf("gateASelection")
    /\ Derived("resolution") = SourceOf("gateASelection")
    /\ Derived("review") = Sources \ {"gateBSelection"}
    /\ Derived("gateB") = Sources
    /\ Derived("runtime") = Sources
<1>1. /\ FirstSource["catalog"] = Origin({"catalog"})
      /\ FirstSource["scopes"] = Origin({"catalog", "scopes"})
      /\ FirstSource["profileSelection"]
            = Origin({"catalog", "scopes", "profileSelection"})
      /\ FirstSource["gateASelection"] = Origin(Sources \ {"publicSet", "gateBSelection"})
      /\ FirstSource["publicSet"] = Origin({"publicSet"})
      /\ FirstSource["gateBSelection"] = Origin(Sources)
  BY DEF FirstSource
<1>2. /\ FirstBundle["category"] = FirstSource["scopes"]
      /\ FirstBundle["profile"] = FirstSource["profileSelection"]
      /\ FirstBundle["gateA"] = FirstSource["gateASelection"]
      /\ FirstBundle["resolution"] = FirstSource["gateASelection"]
      /\ FirstBundle["review"] = Origin(Sources \ {"gateBSelection"})
      /\ FirstBundle["gateB"] = FirstSource["gateBSelection"]
      /\ FirstBundle["runtime"] = FirstSource["gateBSelection"]
  BY DEF FirstBundle
<1>3. \A S : DOMAIN Origin(S) = S
  BY DEF Origin
<1>4. Sources \ {"publicSet", "gateBSelection"}
        = {"catalog", "scopes", "profileSelection", "gateASelection"}
  BY DEF Sources
<1> QED
  BY <1>1, <1>2, <1>3, <1>4 DEF SourceOf, Derived

LEMMA SourcesReadBy ==
    /\ \A f \in Sources : SourcesRead(Do("source", f)) = SourceOf(f)
    /\ \A b \in Bundles : /\ SourcesRead(Do("read", b)) = Derived(b)
                          /\ SourcesRead(Do("load", b)) = Derived(b)
                          /\ SourcesRead(Do("pin", b)) = Derived(b)
    /\ \A d : d.kind \notin {"source", "pin", "read", "load"} => SourcesRead(d) = {}
    /\ SourcesRead(Locked) = {}
  BY DEF SourcesRead, Do, Locked

\* What is read to write a bundle are the sources it derives from.
LEMMA PreparedFrom ==
    ASSUME NEW b \in Bundles
    PROVE  /\ SourcesOf(StepsIn(Preparation(b))) = Derived(b)
           /\ \A d \in StepsIn(Preparation(b)) :
                 /\ d.kind = "source" => d.of \in Sources
                 /\ d.kind \in {"pin", "read", "load"} => d.of \in Bundles
<1>0. PICK S : S = StepsIn(Preparation(b))
  OBVIOUS
<1>1. CASE b = "category"
  <2>1. S = {Do("source", "catalog"), Do("source", "scopes"), Locked}
    BY <1>1, <1>0, Prepared, RebuildSteps
  <2>2. \A d \in S : SourcesRead(d) \subseteq Derived(b)
    BY <1>1, <2>1, SourcesReadBy, Origins DEF Sources, Bundles, Do
  <2>3. Derived(b) \subseteq SourcesOf(S)
    BY <1>1, <2>1, SourcesReadBy, Origins DEF SourcesOf, Sources, Bundles
  <2>4. \A d \in S : /\ d.kind = "source" => d.of \in Sources
                     /\ d.kind \in {"pin", "read", "load"} => d.of \in Bundles
    BY <2>1 DEF Sources, Bundles, Do, Locked
  <2>5. SourcesOf(S) = Derived(b)
    BY <2>2, <2>3 DEF SourcesOf
  <2> QED
    BY <1>0, <2>4, <2>5
<1>2. CASE b = "profile"
  <2>1. S = {Do("check", "category"), Do("read", "category"),
               Do("source", "profileSelection"), Do("source", "catalog"),
               Locked}
    BY <1>2, <1>0, Prepared, RebuildSteps
  <2>2. \A d \in S : SourcesRead(d) \subseteq Derived(b)
    BY <1>2, <2>1, SourcesReadBy, Origins DEF Sources, Bundles, Do
  <2>3. Derived(b) \subseteq SourcesOf(S)
    BY <1>2, <2>1, SourcesReadBy, Origins DEF SourcesOf, Sources, Bundles
  <2>4. \A d \in S : /\ d.kind = "source" => d.of \in Sources
                     /\ d.kind \in {"pin", "read", "load"} => d.of \in Bundles
    BY <2>1 DEF Sources, Bundles, Do, Locked
  <2>5. SourcesOf(S) = Derived(b)
    BY <2>2, <2>3 DEF SourcesOf
  <2> QED
    BY <1>0, <2>4, <2>5
<1>3. CASE b = "gateA"
  <2>1. S = {Do("check", "category"), Do("check", "profile"),
               Do("read", "category"), Do("pin", "profile"),
               Do("source", "gateASelection"), Do("source", "catalog"),
               Locked}
    BY <1>3, <1>0, Prepared, RebuildSteps
  <2>2. \A d \in S : SourcesRead(d) \subseteq Derived(b)
    BY <1>3, <2>1, SourcesReadBy, Origins DEF Sources, Bundles, Do
  <2>3. Derived(b) \subseteq SourcesOf(S)
    BY <1>3, <2>1, SourcesReadBy, Origins DEF SourcesOf, Sources, Bundles
  <2>4. \A d \in S : /\ d.kind = "source" => d.of \in Sources
                     /\ d.kind \in {"pin", "read", "load"} => d.of \in Bundles
    BY <2>1 DEF Sources, Bundles, Do, Locked
  <2>5. SourcesOf(S) = Derived(b)
    BY <2>2, <2>3 DEF SourcesOf
  <2> QED
    BY <1>0, <2>4, <2>5
<1>4. CASE b = "resolution"
  <2>1. S = {Do("check", "category"), Do("load", "gateA"),
               Do("read", "category"), Do("source", "catalog"), Locked}
    BY <1>4, <1>0, Prepared, RebuildSteps
  <2>2. \A d \in S : SourcesRead(d) \subseteq Derived(b)
    BY <1>4, <2>1, SourcesReadBy, Origins DEF Sources, Bundles, Do
  <2>3. Derived(b) \subseteq SourcesOf(S)
    BY <1>4, <2>1, SourcesReadBy, Origins DEF SourcesOf, Sources, Bundles
  <2>4. \A d \in S : /\ d.kind = "source" => d.of \in Sources
                     /\ d.kind \in {"pin", "read", "load"} => d.of \in Bundles
    BY <2>1 DEF Sources, Bundles, Do, Locked
  <2>5. SourcesOf(S) = Derived(b)
    BY <2>2, <2>3 DEF SourcesOf
  <2> QED
    BY <1>0, <2>4, <2>5
<1>5. CASE b = "review"
  <2>1. S = {Do("check", "resolution"), Do("read", "category"),
               Do("read", "resolution"), Do("load", "gateA"),
               Do("source", "publicSet"), Locked}
    BY <1>5, <1>0, Prepared, RebuildSteps
  <2>2. \A d \in S : SourcesRead(d) \subseteq Derived(b)
    BY <1>5, <2>1, SourcesReadBy, Origins DEF Sources, Bundles, Do
  <2>3. Derived(b) \subseteq SourcesOf(S)
    BY <1>5, <2>1, SourcesReadBy, Origins DEF SourcesOf, Sources, Bundles
  <2>4. \A d \in S : /\ d.kind = "source" => d.of \in Sources
                     /\ d.kind \in {"pin", "read", "load"} => d.of \in Bundles
    BY <2>1 DEF Sources, Bundles, Do, Locked
  <2>5. SourcesOf(S) = Derived(b)
    BY <2>2, <2>3 DEF SourcesOf
  <2> QED
    BY <1>0, <2>4, <2>5
<1>6. CASE b = "gateB"
  <2>1. S = {Do("check", "review"), Do("source", "gateBSelection"),
               Do("read", "category"), Do("read", "resolution"),
               Do("read", "review"), Do("load", "gateA"), Locked}
    BY <1>6, <1>0, Prepared, RebuildSteps
  <2>2. \A d \in S : SourcesRead(d) \subseteq Derived(b)
    BY <1>6, <2>1, SourcesReadBy, Origins DEF Sources, Bundles, Do
  <2>3. Derived(b) \subseteq SourcesOf(S)
    BY <1>6, <2>1, SourcesReadBy, Origins DEF SourcesOf, Sources, Bundles
  <2>4. \A d \in S : /\ d.kind = "source" => d.of \in Sources
                     /\ d.kind \in {"pin", "read", "load"} => d.of \in Bundles
    BY <2>1 DEF Sources, Bundles, Do, Locked
  <2>5. SourcesOf(S) = Derived(b)
    BY <2>2, <2>3 DEF SourcesOf
  <2> QED
    BY <1>0, <2>4, <2>5
<1>7. CASE b = "runtime"
  <2>1. S = {Do("check", "gateB"), Do("read", "category"),
               Do("load", "gateA"), Do("load", "gateB"), Locked}
    BY <1>7, <1>0, Prepared, RebuildSteps
  <2>2. \A d \in S : SourcesRead(d) \subseteq Derived(b)
    BY <1>7, <2>1, SourcesReadBy, Origins DEF Sources, Bundles, Do
  <2>3. Derived(b) \subseteq SourcesOf(S)
    BY <1>7, <2>1, SourcesReadBy, Origins DEF SourcesOf, Sources, Bundles
  <2>4. \A d \in S : /\ d.kind = "source" => d.of \in Sources
                     /\ d.kind \in {"pin", "read", "load"} => d.of \in Bundles
    BY <2>1 DEF Sources, Bundles, Do, Locked
  <2>5. SourcesOf(S) = Derived(b)
    BY <2>2, <2>3 DEF SourcesOf
  <2> QED
    BY <1>0, <2>4, <2>5
<1> QED
  BY <1>1, <1>2, <1>3, <1>4, <1>5, <1>6, <1>7 DEF Bundles

\* The steps after the reading add no source.
LEMMA ReadToBuild ==
    ASSUME NEW b \in Bundles, NEW i \in 1..Len(RecipeOf[b])
    PROVE  LET d == RecipeOf[b][i] IN
           /\ d.kind = "source" => d.of \in Sources
           /\ d.kind \in {"pin", "read", "load"} => d.of \in Bundles
           /\ d.kind # "hash"
           /\ d.kind \notin {"source", "pin", "read", "load"} => SourcesRead(d) = {}
           /\ d.kind \in {"replace", "sign"} => SourcesBefore(b, i) = Derived(b)
<1> DEFINE R == RecipeOf[b]
           S == StepsIn(Preparation(b))
           n == Len(Preparation(b))
           d == R[i]
<1>1. /\ Len(R) = n + 4 /\ n \in Nat \ {0}
      /\ R[n + 1] = Do("build", "own") /\ R[n + 2] = Do("replace", "first")
      /\ R[n + 3] = Do("replace", "second") /\ R[n + 4] = Do("sign", "own")
      /\ \A j \in 1..n : R[j] \in S
      /\ \A e \in S : e = Locked \/ e.kind \in Reading
      /\ S = {R[j] : j \in 1..n}
  BY BundleRecipes
<1>2. /\ SourcesOf(S) = Derived(b)
      /\ \A e \in S : /\ e.kind = "source" => e.of \in Sources
                      /\ e.kind \in {"pin", "read", "load"} => e.of \in Bundles
  BY PreparedFrom
<1>3. i \in 1..Len(R)
  OBVIOUS
<1> HIDE DEF R, S, n
<1>4. d.kind \notin {"source", "pin", "read", "load"} => SourcesRead(d) = {}
  BY SourcesReadBy
<1>5. CASE i \in 1..n
  <2>1. d \in S /\ (d = Locked \/ d.kind \in Reading)
    BY <1>1, <1>5
  <2>2. d.kind \notin {"hash", "replace", "sign"}
    BY <2>1 DEF Reading, Locked, Do
  <2> QED
    BY <1>2, <1>4, <2>1, <2>2 DEF R
<1>6. CASE i \in (n + 1)..(n + 4)
  <2>1. i \in {n + 1, n + 2, n + 3, n + 4}
    BY <1>1, <1>6
  <2>2. d \in {Do("build", "own"), Do("replace", "first"), Do("replace", "second"),
               Do("sign", "own")}
    BY <1>1, <2>1
  <2>3. d.kind \in {"build", "replace", "sign"}
    BY <2>2 DEF Do
  <2>4. ASSUME d.kind \in {"replace", "sign"}
        PROVE  SourcesBefore(b, i) = Derived(b)
    <3>1. i # n + 1
      BY <1>1, <2>4 DEF Do
    <3>2. \A j \in 1..(i - 1) : j \in 1..n \/ j \in {n + 1, n + 2, n + 3}
      BY <1>1, <1>6
    <3>3. \A j \in 1..n : j \in 1..(i - 1)
      BY <1>1, <2>1
    <3>4. \A j \in {n + 1, n + 2, n + 3} : SourcesRead(R[j]) = {}
      <4>1. \A j \in {n + 1, n + 2, n + 3} : R[j].kind \in {"build", "replace"}
        BY <1>1 DEF Do
      <4> QED
        BY <4>1, SourcesReadBy
    <3>5. SourcesOf({R[j] : j \in 1..(i - 1)}) = SourcesOf(S)
      <4>1. {R[j] : j \in 1..(i - 1)}
               = S \cup {R[j] : j \in {n + 1, n + 2, n + 3} \cap 1..(i - 1)}
        BY <1>1, <3>2, <3>3
      <4> QED
        BY <3>4, <4>1 DEF SourcesOf
    <3> QED
      BY <1>2, <3>5 DEF SourcesBefore, R
  <2> QED
    BY <1>4, <2>3, <2>4 DEF R
<1>7. i \in 1..n \/ i \in (n + 1)..(n + 4)
  BY <1>1, <1>3
<1> QED
  BY <1>5, <1>6, <1>7

LEMMA MergedSpans == \A contents : DOMAIN Merged(contents) = Spanned(contents)
  BY DEF Merged, Spanned

\* What a step reads derives from the sources that it names.
LEMMA ReadSpans ==
    ASSUME Provenance, NEW d,
           d.kind = "source" => d.of \in Sources,
           d.kind \in {"pin", "read", "load"} => d.of \in Bundles
    PROVE  Spanned(Read(d)) = SourcesRead(d)
<1>1. CASE d.kind = "source"
  BY <1>1 DEF Read, SourcesRead, Spanned, Provenance
<1>2. CASE d.kind = "pin"
  BY <1>2 DEF Read, SourcesRead, Spanned, Provenance
<1>3. CASE d.kind \in {"read", "load"}
  <2>1. Read(d) = {part[d.of][p] : p \in Parts} /\ SourcesRead(d) = Derived(d.of)
    BY <1>3 DEF Read, SourcesRead, PartsOf
  <2>2. \A p \in Parts : DOMAIN part[d.of][p] = Derived(d.of)
    BY <1>3 DEF Provenance
  <2>3. "first" \in Parts
    BY Names
  <2> QED
    BY <2>1, <2>2, <2>3 DEF Spanned
<1>4. CASE d.kind \notin {"source", "pin", "read", "load"}
  BY <1>4 DEF Read, SourcesRead, Spanned
<1> QED
  BY <1>1, <1>2, <1>3, <1>4

LEMMA ProvenanceInit == Init => Provenance
<1> SUFFICES ASSUME Init PROVE Provenance
  OBVIOUS
<1>1. DOMAIN source = Sources /\ \A f \in Sources : DOMAIN source[f] = SourceOf(f)
  BY DEF Init, FirstSource, Sources, SourceOf
<1>2. \A b \in Bundles : /\ \A p \in Parts : DOMAIN part[b][p] = Derived(b)
                         /\ DOMAIN manifest[b] = Derived(b)
  BY DEF Init, Derived
<1>3. \A w \in Writer : job[w] = "none" /\ got[w] = {}
  BY DEF Init
<1> QED
  BY <1>1, <1>2, <1>3, Names DEF Provenance

LEMMA SourcesGrow ==
    ASSUME NEW t, NEW i \in Nat \ {0}
    PROVE  SourcesBefore(t, i + 1)
           = SourcesBefore(t, i) \cup SourcesRead(RecipeOf[t][i])
<1>1. 1..((i + 1) - 1) = 1..(i - 1) \cup {i}
  OBVIOUS
<1>2. {RecipeOf[t][j] : j \in 1..((i + 1) - 1)}
         = {RecipeOf[t][j] : j \in 1..(i - 1)} \cup {RecipeOf[t][i]}
  BY <1>1
<1>3. \A S, d : SourcesOf(S \cup {d}) = SourcesOf(S) \cup SourcesRead(d)
  BY DEF SourcesOf
<1> QED
  BY <1>2, <1>3 DEF SourcesBefore

LEMMA ProvenanceStep ==
    ASSUME Typed, Provenance, [Next]_vars
    PROVE  Provenance'
<1>1. ASSUME NEW w \in Writer, NEW t \in Targets, Start(w, t)
      PROVE  Provenance'
  <2>1. /\ job[w] = "none" /\ job'[w] = t /\ step'[w] = 1 /\ got' = got
        /\ \A v \in Writer \ {w} : job'[v] = job[v] /\ step'[v] = step[v]
        /\ UNCHANGED <<source, part, manifest>>
    BY <1>1 DEF Start, Typed, fileVars
  <2>2. got'[w] = {}
    BY <2>1 DEF Provenance
  <2>3. Spanned({}) = {} /\ SourcesBefore(t, 1) = {}
    BY DEF Spanned, SourcesBefore, SourcesOf
  <2>4. t # "none"
    BY Names
  <2>5. \A v \in Writer : /\ job'[v] = "none" => got'[v] = {}
                          /\ job'[v] \in Bundles =>
                                Spanned(got'[v]) = SourcesBefore(job'[v], step'[v])
    BY <2>1, <2>2, <2>3, <2>4 DEF Provenance
  <2> QED
    BY <2>1, <2>5 DEF Provenance
<1>2. ASSUME NEW w \in Writer, job[w] # "none", job' = job,
             step' = [step EXCEPT ![w] = @ + 1],
             \A v \in Writer \ {w} : got'[v] = got[v],
             job[w] \in Bundles => got'[w] = got[w] \cup Read(Now(w))
      PROVE  \A v \in Writer : /\ job'[v] = "none" => got'[v] = {}
                               /\ job'[v] \in Bundles =>
                                     Spanned(got'[v]) = SourcesBefore(job'[v], step'[v])
  <2>1. /\ step'[w] = step[w] + 1 /\ step[w] \in Nat
        /\ \A v \in Writer \ {w} : step'[v] = step[v]
        /\ step[w] \in 1..Len(RecipeOf[job[w]])
    BY <1>2 DEF Typed
  <2>2. ASSUME job[w] \in Bundles
        PROVE  Spanned(got'[w]) = SourcesBefore(job[w], step[w] + 1)
    <3> DEFINE R == RecipeOf[job[w]]
               i == step[w]
    <3>1. Now(w) = R[i]
      BY DEF Now
    <3>2. /\ Now(w).kind = "source" => Now(w).of \in Sources
          /\ Now(w).kind \in {"pin", "read", "load"} => Now(w).of \in Bundles
      BY <2>1, <2>2, <3>1, ReadToBuild
    <3>3. Spanned(Read(Now(w))) = SourcesRead(R[i])
      BY <3>1, <3>2, ReadSpans
    <3>4. Spanned(got'[w]) = Spanned(got[w]) \cup Spanned(Read(Now(w)))
      BY <1>2, <2>2 DEF Spanned
    <3>5. SourcesBefore(job[w], i + 1) = SourcesBefore(job[w], i) \cup SourcesRead(R[i])
      <4>1. i \in Nat \ {0}
        BY <2>1
      <4> HIDE DEF i
      <4> QED
        BY <4>1, SourcesGrow
    <3>6. Spanned(got[w]) = SourcesBefore(job[w], i)
      BY <2>2 DEF Provenance
    <3> QED
      BY <3>3, <3>4, <3>5, <3>6
  <2> QED
    BY <1>2, <2>1, <2>2 DEF Provenance
<1>3. ASSUME NEW w \in Writer, Gone(w), source' = source, part' = part,
             \A b \in Bundles : DOMAIN manifest'[b] = Derived(b)
      PROVE  Provenance'
  <2>1. /\ job'[w] = "none" /\ got'[w] = {}
        /\ \A v \in Writer \ {w} :
              job'[v] = job[v] /\ step'[v] = step[v] /\ got'[v] = got[v]
    BY <1>3 DEF Gone, Typed
  <2>2. \A v \in Writer : /\ job'[v] = "none" => got'[v] = {}
                          /\ job'[v] \in Bundles =>
                                Spanned(got'[v]) = SourcesBefore(job'[v], step'[v])
    BY <2>1, Names DEF Provenance
  <2> QED
    BY <1>3, <2>2 DEF Provenance
<1>4. ASSUME NEW w \in Writer, job[w] # "none", job' = job,
             step' = [step EXCEPT ![w] = @ + 1],
             \A v \in Writer \ {w} : got'[v] = got[v],
             job[w] \in Bundles => got'[w] = got[w] \cup Read(Now(w)),
             UNCHANGED <<source, part, manifest>>
      PROVE  Provenance'
  BY <1>2, <1>4 DEF Provenance
<1>5. ASSUME NEW w \in Writer, Take(w)
      PROVE  Provenance'
  <2>1. /\ got' = [got EXCEPT ![w] = @ \cup Read(Now(w))] /\ job[w] # "none"
        /\ Advance(w) /\ UNCHANGED fileVars
    BY <1>5 DEF Take, At
  <2>2. got'[w] = got[w] \cup Read(Now(w)) /\ \A v \in Writer \ {w} : got'[v] = got[v]
    BY <2>1 DEF Typed
  <2> QED
    BY <1>4, <2>1, <2>2 DEF Advance, fileVars
<1>6. ASSUME NEW w \in Writer, At(w, "lock") \/ At(w, "check") \/ At(w, "build")
                               \/ At(w, "absent") \/ At(w, "copy") \/ At(w, "replace"),
             job' = job, step' = [step EXCEPT ![w] = @ + 1], got' = got
      PROVE  /\ job[w] # "none"
             /\ \A v \in Writer \ {w} : got'[v] = got[v]
             /\ job[w] \in Bundles => got'[w] = got[w] \cup Read(Now(w))
  <2>1. Read(Now(w)) = {}
    BY <1>6 DEF At, Read
  <2> QED
    BY <1>6, <2>1 DEF At
<1>7. ASSUME NEW w \in Writer, Lock(w)
      PROVE  Provenance'
  BY <1>4, <1>6, <1>7 DEF Lock, fileVars
<1>8. ASSUME NEW w \in Writer, Check(w) \/ Build(w) \/ Absent(w) \/ Copy(w)
      PROVE  Provenance'
  <2>1. /\ At(w, "check") \/ At(w, "build") \/ At(w, "absent") \/ At(w, "copy")
        /\ Advance(w) /\ got' = got /\ UNCHANGED fileVars
    BY <1>8 DEF Check, Build, Absent, Copy
  <2> QED
    BY <1>4, <1>6, <2>1 DEF Advance, fileVars
<1>9. ASSUME NEW w \in Writer, Hash(w)
      PROVE  Provenance'
  <2>1. /\ job[w] # "none" /\ Now(w).kind = "hash" /\ Advance(w) /\ UNCHANGED fileVars
        /\ \A v \in Writer \ {w} : got'[v] = got[v]
    BY <1>9 DEF Hash, At, Typed
  <2>2. job[w] \notin Bundles
    BY <2>1, Position, ReadToBuild DEF Now
  <2> QED
    BY <1>4, <2>1, <2>2 DEF Advance, fileVars
<1>10. ASSUME NEW w \in Writer, job[w] # "none", Now(w).kind \in {"replace", "sign"}
       PROVE  job[w] \in Bundles /\ DOMAIN Merged(got[w]) = Derived(job[w])
  <2>1. job[w] \in Bundles /\ step[w] \in 1..Len(RecipeOf[job[w]])
    BY <1>10, Position
  <2>2. SourcesBefore(job[w], step[w]) = Derived(job[w])
    BY <1>10, <2>1, ReadToBuild DEF Now
  <2>3. Spanned(got[w]) = Derived(job[w])
    BY <2>1, <2>2 DEF Provenance
  <2> QED
    BY <2>1, <2>3, MergedSpans
<1>11. ASSUME NEW w \in Writer, Replace(w)
       PROVE  Provenance'
  <2>1. /\ job[w] # "none" /\ Now(w).kind = "replace" /\ Advance(w) /\ got' = got
        /\ part' = [part EXCEPT ![job[w]][Now(w).of] = Merged(got[w])]
        /\ UNCHANGED <<source, manifest>>
    BY <1>11 DEF Replace, At
  <2>2. job[w] \in Bundles /\ Now(w).of \in Parts
    BY <2>1, Position
  <2>3. DOMAIN Merged(got[w]) = Derived(job[w])
    BY <1>10, <2>1
  <2>4. \A b \in Bundles, p \in Parts : DOMAIN part'[b][p] = Derived(b)
    <3> SUFFICES ASSUME NEW b \in Bundles, NEW p \in Parts
                 PROVE  DOMAIN part'[b][p] = Derived(b)
      OBVIOUS
    <3>1. part'[b][p] = IF b = job[w] /\ p = Now(w).of THEN Merged(got[w]) ELSE part[b][p]
      BY <2>1, <2>2 DEF Typed
    <3> QED
      BY <2>3, <3>1 DEF Provenance
  <2>5. \A v \in Writer : /\ job'[v] = "none" => got'[v] = {}
                          /\ job'[v] \in Bundles =>
                                Spanned(got'[v]) = SourcesBefore(job'[v], step'[v])
    BY <1>2, <1>6, <2>1 DEF Advance, At
  <2> QED
    BY <2>1, <2>4, <2>5 DEF Provenance
<1>12. ASSUME NEW w \in Writer, Sign(w)
       PROVE  Provenance'
  <2>1. /\ job[w] # "none" /\ Now(w).kind = "sign" /\ Gone(w)
        /\ manifest' = [manifest EXCEPT ![job[w]] = Merged(got[w])]
        /\ UNCHANGED <<source, part>>
    BY <1>12 DEF Sign, At
  <2>2. \A b \in Bundles :
            manifest'[b] = IF b = job[w] THEN Merged(got[w]) ELSE manifest[b]
    BY <2>1 DEF Typed
  <2>3. \A b \in Bundles : DOMAIN manifest'[b] = Derived(b)
    BY <1>10, <2>1, <2>2 DEF Provenance
  <2> QED
    BY <1>3, <2>1, <2>3
<1>13. ASSUME NEW w \in Writer, Rename(w) \/ Fail(w) \/ Kill(w)
       PROVE  Provenance'
  <2>1. Gone(w) /\ UNCHANGED <<source, part, manifest>>
    BY <1>13 DEF Rename, Fail, Kill, fileVars
  <2>2. \A b \in Bundles : DOMAIN manifest'[b] = Derived(b)
    BY <2>1 DEF Provenance
  <2> QED
    BY <1>3, <2>1, <2>2
<1>14. ASSUME NEW f \in Sources, Edit(f)
       PROVE  Provenance'
  <2>1. /\ source' = [source EXCEPT ![f] =
              [g \in DOMAIN Merged(Named(f)) \cup {f} |->
                  IF g = f THEN edits + 1 ELSE Merged(Named(f))[g]]]
        /\ UNCHANGED <<part, manifest, job, step, got>>
    BY <1>14 DEF Edit, runVars
  <2>2. DOMAIN source' = Sources /\ DOMAIN source'[f] = Spanned(Named(f)) \cup {f}
        /\ \A g \in Sources \ {f} : source'[g] = source[g]
    BY <2>1, MergedSpans DEF Provenance
  <2>3. Spanned(Named(f)) \cup {f} = SourceOf(f)
    <3>1. \A b \in Bundles : Spanned(PartsOf(b)) = Derived(b)
      <4> SUFFICES ASSUME NEW b \in Bundles PROVE Spanned(PartsOf(b)) = Derived(b)
        OBVIOUS
      <4>1. "first" \in Parts /\ \A p \in Parts : DOMAIN part[b][p] = Derived(b)
        BY Names DEF Provenance
      <4> QED
        BY <4>1 DEF Spanned, PartsOf
    <3>2. CASE f = "scopes"
      <4>1. Named(f) = {source["catalog"]} /\ DOMAIN source["catalog"] = SourceOf("catalog")
        BY <3>2 DEF Named, Provenance, Sources
      <4> QED
        BY <3>2, <4>1, Origins DEF Spanned
    <3>3. CASE f = "profileSelection"
      <4>1. Named(f) = PartsOf("category") /\ "category" \in Bundles
        BY <3>3 DEF Named, Bundles
      <4> QED
        BY <3>1, <3>3, <4>1, Origins
    <3>4. CASE f = "gateASelection"
      <4>1. /\ Named(f) = PartsOf("category") \cup {manifest["profile"]}
            /\ "category" \in Bundles /\ "profile" \in Bundles
        BY <3>4 DEF Named, Bundles
      <4>2. Spanned(Named(f)) = Spanned(PartsOf("category")) \cup DOMAIN manifest["profile"]
        BY <4>1 DEF Spanned
      <4>3. DOMAIN manifest["profile"] = Derived("profile")
        BY <4>1 DEF Provenance
      <4> QED
        BY <3>1, <3>4, <4>1, <4>2, <4>3, Origins
    <3>5. CASE f = "gateBSelection"
      <4>1. /\ Named(f) = PartsOf("resolution") \cup PartsOf("review")
            /\ "resolution" \in Bundles /\ "review" \in Bundles
        BY <3>5 DEF Named, Bundles
      <4>2. Spanned(Named(f)) = Spanned(PartsOf("resolution")) \cup Spanned(PartsOf("review"))
        BY <4>1 DEF Spanned
      <4>3. SourceOf("gateASelection") \subseteq Sources /\ "gateBSelection" \in Sources
        BY Origins DEF Sources
      <4> QED
        BY <3>1, <3>5, <4>1, <4>2, <4>3, Origins
    <3>6. CASE f \in {"catalog", "publicSet"}
      <4>1. Named(f) = {}
        BY <3>6 DEF Named
      <4> QED
        BY <3>6, <4>1, Origins DEF Spanned
    <3> QED
      BY <3>2, <3>3, <3>4, <3>5, <3>6 DEF Sources
  <2>4. \A g \in Sources : DOMAIN source'[g] = SourceOf(g)
    BY <2>2, <2>3 DEF Provenance
  <2> QED
    BY <2>1, <2>2, <2>4 DEF Provenance
<1>15. CASE UNCHANGED vars
  BY <1>15 DEF vars, fileVars, runVars, Provenance
<1> QED
  BY <1>1, <1>5, <1>7, <1>8, <1>9, <1>11, <1>12, <1>13, <1>14, <1>15 DEF Next, Step

----------------------------------------------------------------------------
(* The chain under a valid runtime bundle.                                  *)

LEMMA AgreeOn ==
    ASSUME NEW contents, Agree(contents), NEW c \in contents, NEW d \in contents,
           NEW f \in DOMAIN c \cap DOMAIN d
    PROVE  c[f] = d[f]
  BY DEF Agree

\* A valid bundle is whole, and its manifest agrees with each content its
\* build read.
LEMMA OwnAgrees ==
    ASSUME NEW b \in Bundles, Own(b),
           NEW d \in StepsIn(RebuildOf[b]), NEW c \in Read(d),
           NEW f \in DOMAIN manifest[b] \cap DOMAIN c
    PROVE  manifest[b][f] = c[f]
<1>1. manifest[b] \in {manifest[b]} \cup UNION {Read(e) : e \in StepsIn(RebuildOf[b])}
  OBVIOUS
<1>2. c \in {manifest[b]} \cup UNION {Read(e) : e \in StepsIn(RebuildOf[b])}
  OBVIOUS
<1> QED
  BY <1>1, <1>2, AgreeOn DEF Own

LEMMA WholeRead ==
    ASSUME NEW b \in Bundles, Whole(b)
    PROVE  /\ manifest[b] \in Read(Do("read", b))
           /\ manifest[b] \in Read(Do("load", b))
<1>1. "first" \in Parts /\ part[b]["first"] = manifest[b]
  BY Names DEF Whole
<1>2. manifest[b] \in PartsOf(b)
  BY <1>1 DEF PartsOf
<1> QED
  BY <1>2 DEF Read, Do

LEMMA SourceRead ==
    ASSUME NEW f \in Sources
    PROVE  source[f] \in Read(Do("source", f))
  BY DEF Read, Do

\* The bundles of the chain agree with the approval of the capabilities,
\* whose validation reads all of them; the runtime bundle was built from it.
LEMMA ValidChain ==
    ASSUME Provenance, Valid["runtime"]
    PROVE  LET chain == Bundles \ {"profile"} IN
           /\ \A b \in chain : Whole(b)
           /\ Agree({manifest[b] : b \in chain}
                    \cup {source[f] : f \in {"catalog", "publicSet", "gateBSelection"}})
<1> DEFINE chain == Bundles \ {"profile"}
           hub == manifest["gateB"]
<1>1. /\ {"category", "gateA", "resolution", "review", "gateB", "runtime"} = chain
      /\ chain \subseteq Bundles
      /\ {"catalog", "publicSet", "gateBSelection"} \subseteq Sources
  BY DEF Bundles, Sources
<1>2. Own("runtime") /\ Valid["gateB"]
  BY <1>1, ValidUnfolds, CheckedBundles
<1>3. Own("gateB") /\ Valid["review"]
  BY <1>1, <1>2, ValidUnfolds, CheckedBundles
<1>4. Own("review") /\ Valid["resolution"]
  BY <1>1, <1>3, ValidUnfolds, CheckedBundles
<1>5. Own("resolution") /\ Valid["category"]
  BY <1>1, <1>4, ValidUnfolds, CheckedBundles
<1>6. Own("category")
  BY <1>1, <1>5, ValidUnfolds, CheckedBundles
<1>7. Whole("gateA")
  <2>1. Do("load", "gateA") \in StepsIn(RebuildOf["gateB"])
    BY RebuildSteps
  <2> QED
    BY <1>3, <2>1 DEF Own, Do
<1>8. \A b \in chain : Whole(b)
  BY <1>1, <1>2, <1>3, <1>4, <1>5, <1>6, <1>7 DEF Own
<1>9. DOMAIN hub = Sources /\ \A b \in chain : DOMAIN manifest[b] \subseteq Sources
  BY <1>1, Origins DEF Provenance, Sources
<1>10. ASSUME NEW b \in {"category", "gateA", "resolution", "review"},
              NEW f \in DOMAIN manifest[b]
       PROVE  manifest[b][f] = hub[f]
  <2>1. Do("read", b) \in StepsIn(RebuildOf["gateB"])
           \/ Do("load", b) \in StepsIn(RebuildOf["gateB"])
    BY RebuildSteps
  <2>2. b \in Bundles /\ Whole(b) /\ "gateB" \in Bundles
    BY <1>1, <1>8
  <2>3. f \in DOMAIN hub \cap DOMAIN manifest[b]
    BY <1>1, <1>9
  <2> HIDE DEF hub
  <2> QED
    BY <1>3, <2>1, <2>2, <2>3, OwnAgrees, WholeRead DEF hub
<1>11. ASSUME NEW f \in DOMAIN manifest["runtime"]
       PROVE  manifest["runtime"][f] = hub[f]
  <2>1. Do("load", "gateB") \in StepsIn(RebuildOf["runtime"])
    BY RebuildSteps
  <2>2. "gateB" \in Bundles /\ Whole("gateB") /\ "runtime" \in Bundles
    BY <1>1, <1>8
  <2>3. f \in DOMAIN manifest["runtime"] \cap DOMAIN hub
    BY <1>1, <1>9
  <2> QED
    BY <1>2, <2>1, <2>2, <2>3, OwnAgrees, WholeRead
<1>12. ASSUME NEW f \in DOMAIN source["gateBSelection"]
       PROVE  f \in Sources /\ source["gateBSelection"][f] = hub[f]
  <2>1. Do("source", "gateBSelection") \in StepsIn(RebuildOf["gateB"])
    BY RebuildSteps
  <2>2. f \in DOMAIN hub \cap DOMAIN source["gateBSelection"] /\ f \in Sources
    BY <1>1, <1>9, Origins DEF Provenance
  <2>3. "gateB" \in Bundles
    BY <1>1
  <2> QED
    BY <1>1, <1>3, <2>1, <2>2, <2>3, OwnAgrees, SourceRead
<1>13. ASSUME NEW f \in DOMAIN source["catalog"]
       PROVE  f \in Sources /\ source["catalog"][f] = hub[f]
  <2>1. Do("source", "catalog") \in StepsIn(RebuildOf["category"])
    BY RebuildSteps
  <2>2. f \in DOMAIN manifest["category"] \cap DOMAIN source["catalog"] /\ f \in Sources
    BY <1>1, Origins DEF Provenance, Sources
  <2>3. manifest["category"][f] = source["catalog"][f]
    BY <1>1, <1>6, <2>1, <2>2, OwnAgrees, SourceRead
  <2> QED
    BY <1>10, <2>2, <2>3
<1>14. ASSUME NEW f \in DOMAIN source["publicSet"]
       PROVE  f \in Sources /\ source["publicSet"][f] = hub[f]
  <2>1. Do("source", "publicSet") \in StepsIn(RebuildOf["review"])
    BY RebuildSteps
  <2>2. f \in DOMAIN manifest["review"] \cap DOMAIN source["publicSet"] /\ f \in Sources
    BY <1>1, Origins DEF Provenance, Sources
  <2>3. manifest["review"][f] = source["publicSet"][f]
    BY <1>1, <1>4, <2>1, <2>2, OwnAgrees, SourceRead
  <2> QED
    BY <1>10, <2>2, <2>3
<1> DEFINE all == {manifest[b] : b \in chain}
                  \cup {source[f] : f \in {"catalog", "publicSet", "gateBSelection"}}
<1>15. ASSUME NEW c \in all, NEW f \in DOMAIN c
       PROVE  c[f] = hub[f]
  <2>1. CASE \E b \in {"category", "gateA", "resolution", "review"} : c = manifest[b]
    BY <1>10, <1>15, <2>1
  <2>2. CASE c = manifest["runtime"]
    BY <1>11, <1>15, <2>2
  <2>3. CASE c = manifest["gateB"]
    BY <2>3
  <2>4. CASE c = source["catalog"]
    BY <1>13, <1>15, <2>4
  <2>5. CASE c = source["publicSet"]
    BY <1>14, <1>15, <2>5
  <2>6. CASE c = source["gateBSelection"]
    BY <1>12, <1>15, <2>6
  <2> QED
    BY <1>1, <2>1, <2>2, <2>3, <2>4, <2>5, <2>6
<1>16. Agree(all)
  <2> HIDE DEF all, hub
  <2> QED
    BY <1>15 DEF Agree
<1> QED
  BY <1>8, <1>16

\* A valid runtime bundle vouches for the whole chain under it, whatever was
\* rebuilt or edited (runtime/bundle.py validates only the approval).
THEOREM RuntimeVouchesForChain == Spec => []ChainVouched
<1>1. Provenance => ChainVouched
  BY ValidChain DEF ChainVouched
<1>2. Locking /\ Provenance /\ [Next]_vars => Provenance'
  BY ProvenanceStep DEF Locking
<1> QED
  BY <1>1, <1>2, LockingInit, LockingStep, ProvenanceInit, PTL DEF Spec

=============================================================================
