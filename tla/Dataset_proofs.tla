--------------------------- MODULE Dataset_proofs --------------------------
(* Proofs about Dataset: the notebook is led to a data file that is at      *)
(* hand, and no member of a dataset is lost but to one that takes its name, *)
(* for any names and any datasets.                                          *)
EXTENDS Dataset, SequenceTheorems, TLAPS

-----------------------------------------------------------------------------
(* Paths.                                                                   *)

FileNames == DOMAIN Safe
Paths     == Seq(FileNames) \ {<<>>}

LEMMA PrefixByElement ==
    ASSUME NEW p \in Seq(FileNames), NEW q \in Seq(FileNames)
    PROVE  IsPrefix(p, q) <=> Len(p) <= Len(q) /\ \A i \in 1..Len(p) : p[i] = q[i]
<1>1. SubSeq(p, 1, Len(p)) = p
  BY SubSeqFull
<1>2. ASSUME Len(p) <= Len(q)
      PROVE  SubSeq(q, 1, Len(p)) = p <=> \A i \in 1..Len(p) : p[i] = q[i]
  <2>. DEFINE u == SubSeq(q, 1, Len(p))
  <2>1. Len(p) \in Nat /\ Len(q) \in Nat
    BY LenProperties
  <2>2. u \in Seq(FileNames) /\ Len(u) = Len(p) /\ \A i \in 1..Len(p) : u[i] = q[i]
    <3>1. \A i \in 1..Len(p) : q[i] \in FileNames
      BY <1>2, <2>1, ElementOfSeq
    <3>. QED
      BY <1>2, <2>1, <3>1, SubSeqProperties
  <2>. HIDE DEF u
  <2>3. u = p <=> \A i \in 1..Len(p) : u[i] = p[i]
    BY <2>2, SeqEqual
  <2>. QED
    BY <2>2, <2>3 DEF u
<1>. QED
  BY <1>1, <1>2 DEF IsPrefix

\* What lies in data/input, and what lies at or below one of its entries.
LEMMA BelowOne ==
    ASSUME NEW a \in FileNames, NEW p \in Paths
    PROVE  /\ IsPrefix(<<a>>, p) <=> p[1] = a
           /\ IsStrictPrefix(<<a>>, p) <=> Len(p) >= 2 /\ p[1] = a
<1>1. <<a>> \in Seq(FileNames) /\ Len(<<a>>) = 1 /\ <<a>>[1] = a
  OBVIOUS
<1>2. p \in Seq(FileNames) /\ Len(p) \in Nat /\ Len(p) >= 1
  BY EmptySeq, LenProperties DEF Paths
<1>3. IsPrefix(<<a>>, p) <=> 1 <= Len(p) /\ \A i \in 1..1 : <<a>>[i] = p[i]
  <2>. DEFINE s == <<a>>
  <2>1. s \in Seq(FileNames) /\ Len(s) = 1
    BY <1>1
  <2>. HIDE DEF s
  <2>2. IsPrefix(s, p) <=> Len(s) <= Len(p) /\ \A i \in 1..Len(s) : s[i] = p[i]
    BY <1>2, <2>1, PrefixByElement
  <2>. QED
    BY <2>1, <2>2 DEF s
<1>4. IsPrefix(<<a>>, p) <=> p[1] = a
  BY <1>1, <1>2, <1>3
<1>5. p[1] = a => (p = <<a>> <=> Len(p) = 1)
  BY <1>1, <1>2, SeqEqual
<1>6. IsStrictPrefix(<<a>>, p) <=> IsPrefix(<<a>>, p) /\ p # <<a>>
  BY DEF IsStrictPrefix
<1>7. Len(p) = 1 <=> ~(Len(p) >= 2)
  <2>1. \A n \in Nat : n >= 1 => (n = 1 <=> ~(n >= 2))
    OBVIOUS
  <2>. QED
    BY <1>2, <2>1, Zenon
<1>. QED
  BY <1>4, <1>5, <1>6, <1>7, Zenon

LEMMA BelowTwo ==
    ASSUME NEW a \in FileNames, NEW b \in FileNames, NEW p \in Paths
    PROVE  /\ IsPrefix(<<a, b>>, p) <=> Len(p) >= 2 /\ p[1] = a /\ p[2] = b
           /\ p = <<a, b>> <=> Len(p) = 2 /\ p[1] = a /\ p[2] = b
           /\ IsStrictPrefix(<<a, b>>, p) <=> Len(p) >= 3 /\ p[1] = a /\ p[2] = b
<1>1. <<a, b>> \in Seq(FileNames) /\ Len(<<a, b>>) = 2 /\ <<a, b>>[1] = a /\ <<a, b>>[2] = b
  OBVIOUS
<1>2. p \in Seq(FileNames) /\ Len(p) \in Nat
  BY LenProperties DEF Paths
<1>3. IsPrefix(<<a, b>>, p) <=> 2 <= Len(p) /\ \A i \in 1..2 : <<a, b>>[i] = p[i]
  <2>. DEFINE s == <<a, b>>
  <2>1. s \in Seq(FileNames) /\ Len(s) = 2
    BY <1>1
  <2>. HIDE DEF s
  <2>2. IsPrefix(s, p) <=> Len(s) <= Len(p) /\ \A i \in 1..Len(s) : s[i] = p[i]
    BY <1>2, <2>1, PrefixByElement
  <2>. QED
    BY <2>1, <2>2 DEF s
<1>4. 1..2 = {1, 2}
  OBVIOUS
<1>5. IsPrefix(<<a, b>>, p) <=> Len(p) >= 2 /\ p[1] = a /\ p[2] = b
  BY <1>1, <1>2, <1>3, <1>4
<1>6. p = <<a, b>> <=> Len(p) = 2 /\ p[1] = a /\ p[2] = b
  BY <1>1, <1>2, <1>4, SeqEqual
<1>7. IsStrictPrefix(<<a, b>>, p) <=> IsPrefix(<<a, b>>, p) /\ p # <<a, b>>
  BY DEF IsStrictPrefix
<1>8. Len(p) >= 3 <=> Len(p) >= 2 /\ Len(p) # 2
  <2>1. \A n \in Nat : n >= 3 <=> n >= 2 /\ n # 2
    OBVIOUS
  <2>. QED
    BY <1>2, <2>1, Zenon
<1>. QED
  BY <1>5, <1>6, <1>7, <1>8, Zenon

LEMMA BelowRoot ==
    ASSUME NEW p \in Paths
    PROVE  IsStrictPrefix(<<>>, p)
<1>1. p \in Seq(FileNames) /\ <<>> \in Seq(FileNames) /\ Len(<<>>) = 0 /\ Len(p) \in Nat
  BY LenProperties DEF Paths
<1>2. IsPrefix(<<>>, p)
  <2>1. SubSeq(<<>>, 1, 0) = <<>> /\ SubSeq(p, 1, 0) = <<>>
    BY SubSeqEmpty
  <2>. QED
    BY <1>1, <2>1 DEF IsPrefix
<1>. QED
  BY <1>2 DEF IsStrictPrefix, Paths

\* A file keeps its own name wherever the directories above it are moved.
LEMMA PutBelow ==
    ASSUME NEW t \in Paths, NEW p \in Paths, NEW k \in 0..Len(p)
    PROVE  LET q == t \o Rest(p, k) IN
           /\ q \in Paths /\ q[1] = t[1] /\ Len(q) = Len(t) + (Len(p) - k)
           /\ k < Len(p) => Last(q) = Last(p)
           /\ k = Len(p) => q = t
<1>. DEFINE r == Rest(p, k)
            q == t \o r
<1>1. /\ t \in Seq(FileNames) /\ p \in Seq(FileNames) /\ Len(t) \in Nat /\ Len(p) \in Nat
      /\ Len(t) >= 1 /\ Len(p) >= 1
  BY EmptySeq, LenProperties DEF Paths
<1>2. r \in Seq(FileNames) /\ Len(r) = Len(p) - k /\ \A i \in 1..(Len(p) - k) : r[i] = p[k + i]
  <2>1. \A i \in (k + 1)..Len(p) : p[i] \in FileNames
    BY <1>1, ElementOfSeq
  <2>2. CASE k + 1 <= Len(p)
    <3>1. r \in Seq(FileNames) /\ Len(r) = Len(p) - (k + 1) + 1
          /\ \A i \in 1..(Len(p) - (k + 1) + 1) : r[i] = p[(k + 1) + i - 1]
      BY <1>1, <2>1, <2>2, SubSeqProperties DEF Rest
    <3>. QED
      BY <1>1, <3>1
  <2>3. CASE k = Len(p)
    BY <1>1, <2>3, SubSeqEmpty, EmptySeq DEF Rest
  <2>. QED
    BY <1>1, <2>2, <2>3
<1>. HIDE DEF r
<1>3. /\ q \in Seq(FileNames) /\ Len(q) = Len(t) + Len(r)
      /\ \A i \in 1..(Len(t) + Len(r)) : q[i] = IF i <= Len(t) THEN t[i] ELSE r[i - Len(t)]
  BY <1>1, <1>2, ConcatProperties
<1>. HIDE DEF q
<1>4. q[1] = t[1] /\ Len(q) = Len(t) + (Len(p) - k) /\ q # <<>>
  BY <1>1, <1>2, <1>3
<1>5. ASSUME k < Len(p)
      PROVE  Last(q) = Last(p)
  <2>1. Len(q) \in 1..(Len(t) + Len(r)) /\ ~(Len(q) <= Len(t)) /\ Len(q) - Len(t) = Len(p) - k
    BY <1>1, <1>2, <1>4, <1>5
  <2>2. q[Len(q)] = r[Len(p) - k]
    BY <1>3, <2>1
  <2>3. r[Len(p) - k] = p[k + (Len(p) - k)] /\ k + (Len(p) - k) = Len(p)
    BY <1>1, <1>2, <1>5
  <2>. QED
    BY <2>2, <2>3 DEF Last
<1>6. ASSUME k = Len(p)
      PROVE  q = t
  <2>1. r = <<>>
    BY <1>1, <1>2, <1>6, EmptySeq
  <2>. QED
    BY <1>1, <2>1, ConcatEmptySeq DEF q
<1>. QED
  BY <1>3, <1>4, <1>5, <1>6 DEF q, r, Paths

LEMMA PutWhole ==
    ASSUME NEW t \in Paths, NEW m \in Paths
    PROVE  /\ t \o m \in Paths /\ (t \o m)[1] = t[1] /\ Len(t \o m) = Len(t) + Len(m)
           /\ Last(t \o m) = Last(m)
<1>1. m \in Seq(FileNames) /\ Len(m) \in Nat /\ 0 < Len(m) /\ 0 \in 0..Len(m) /\ Len(m) - 0 = Len(m)
  BY EmptySeq, LenProperties DEF Paths
<1>2. Rest(m, 0) = m
  BY <1>1, SubSeqFull DEF Rest
<1>. DEFINE q == t \o Rest(m, 0)
<1>3. q \in Paths /\ q[1] = t[1]
  BY <1>1, PutBelow
<1>4. Len(q) = Len(t) + (Len(m) - 0)
  BY <1>1, PutBelow
<1>5. Last(q) = Last(m)
  BY <1>1, PutBelow
<1>. QED
  BY <1>1, <1>2, <1>3, <1>4, <1>5

LEMMA Appended ==
    ASSUME NEW a \in FileNames, NEW n \in FileNames
    PROVE  Append(<<a>>, n) = <<a, n>>
<1>. DEFINE u == <<a>>
            v == <<n>>
            p == <<a, n>>
<1>1. u \in Seq(FileNames) /\ v \in Seq(FileNames) /\ p \in Seq(FileNames)
  OBVIOUS
<1>2. Len(u) = 1 /\ Len(v) = 1 /\ Len(p) = 2 /\ u[1] = a /\ v[1] = n /\ p[1] = a /\ p[2] = n
  OBVIOUS
<1>3. Append(u, n) = u \o v
  BY <1>1, AppendIsConcat
<1>. HIDE DEF u, v, p
<1>4. /\ u \o v \in Seq(FileNames) /\ Len(u \o v) = Len(u) + Len(v)
      /\ \A i \in 1..(Len(u) + Len(v)) : (u \o v)[i] = IF i <= Len(u) THEN u[i] ELSE v[i - Len(u)]
  BY <1>1, ConcatProperties
<1>5. Len(u \o v) = 2 /\ (u \o v)[1] = a /\ (u \o v)[2] = n
  BY <1>2, <1>4
<1>6. \A i \in 1..2 : (u \o v)[i] = p[i]
  <2>1. 1..2 = {1, 2}
    OBVIOUS
  <2>. QED
    BY <1>2, <1>5, <2>1
<1>7. u \o v = p
  BY <1>1, <1>2, <1>4, <1>5, <1>6, SeqEqual
<1>. QED
  BY <1>3, <1>7 DEF u, p

LEMMA EntryOfInput ==
    ASSUME NEW n \in FileNames
    PROVE  Append(Input, n) = <<"input", n>>
  BY Appended, DatasetAssumption DEF Input, FileNames

\* A member as it lies in data/input.
LEMMA InInput ==
    ASSUME NEW m \in Paths
    PROVE  /\ Input \o m \in Paths /\ (Input \o m)[1] = "input" /\ Len(Input \o m) = Len(m) + 1
           /\ Last(Input \o m) = Last(m)
           /\ Len(m) = 1 => Input \o m = <<"input", m[1]>>
<1>1. Input \in Paths /\ Input[1] = "input" /\ Len(Input) = 1
  BY DatasetAssumption DEF Paths, FileNames, Input
<1>2. m \in Seq(FileNames) /\ Len(m) \in Nat /\ Len(m) >= 1
  BY EmptySeq, LenProperties DEF Paths
<1>3. /\ Input \o m \in Paths /\ (Input \o m)[1] = "input" /\ Len(Input \o m) = Len(m) + 1
      /\ Last(Input \o m) = Last(m)
  <2>1. /\ Input \o m \in Paths /\ (Input \o m)[1] = Input[1]
        /\ Len(Input \o m) = Len(Input) + Len(m) /\ Last(Input \o m) = Last(m)
    BY <1>1, PutWhole
  <2>2. Len(Input) + Len(m) = Len(m) + 1
    BY <1>1, <1>2
  <2>. QED
    BY <1>1, <2>1, <2>2
<1>4. ASSUME Len(m) = 1
      PROVE  Input \o m = <<"input", m[1]>>
  <2>. DEFINE q == Input \o m
  <2>1. q \in Paths /\ Len(q) = 2 /\ q[1] = "input" /\ q[2] = m[1]
    BY <1>3, <1>4 DEF Last
  <2>2. m[1] \in FileNames /\ "input" \in FileNames
    BY <1>2, ElementOfSeq, DatasetAssumption DEF FileNames
  <2>. HIDE DEF q
  <2>3. \A a, b \in FileNames : q = <<a, b>> <=> Len(q) = 2 /\ q[1] = a /\ q[2] = b
    BY <2>1, BelowTwo
  <2>4. q = <<"input", m[1]>>
    BY <2>1, <2>2, <2>3
  <2>. QED
    BY <2>4 DEF q
<1>. QED
  BY <1>3, <1>4

-----------------------------------------------------------------------------
(* The invariant.                                                           *)

\* A file in data/input is the only one of its member, and has its name but for blanks.
Traced(F) ==
    \A f \in F :
        /\ f.at \in Paths /\ Len(f.at) >= 2 /\ f.at[1] = "input"
        /\ f.of \in contents /\ Safe[Last(f.at)] = Safe[Last(f.of)]
        /\ \A g \in F : g.of = f.of => g = f

Saved(F, m) ==
    \/ \E f \in F : f.of = m
    \/ m = <<FileName>>
    \/ \E k \in contents \ {m} : Safe[Last(k)] = Safe[Last(m)]

\* A data file lies at the top of data/input.
OnTop(F) == \E f \in F : \E n \in DataNames : f.at = <<"input", n>>

Late == pc \in {"sanitise", "find", "run"}

Inv ==
    /\ kind \in {"plain", "archive", "kaggle"}
    /\ contents \in Datasets /\ (contents = {} <=> kind = "plain")
    /\ pc = "extract" => kind = "archive"
    /\ pc = "normalise" => /\ kind = "kaggle" /\ Input \notin contents
                           /\ files = {File(m, m) : m \in contents}
    /\ Late /\ kind = "plain" => files = {File(<<"input", "input">>, Input)}
    /\ Late /\ kind # "plain" => Traced(files) /\ \A m \in contents : Saved(files, m)
    /\ Late /\ kind # "plain" /\ AtHand => OnTop(files)
    /\ PathLeads

LEMMA InvImplies == Inv => PathLeads /\ MembersKept
<1>1. ASSUME Inv, pc = "run", NEW m \in contents, NEW f \in files, f.of = m
      PROVE  IsPrefix(Input, f.at)
  <2>1. kind # "plain"
    BY <1>1 DEF Inv
  <2>2. f.at \in Paths /\ f.at[1] = "input"
    BY <1>1, <2>1 DEF Inv, Late, Traced
  <2>3. "input" \in FileNames
    BY DatasetAssumption DEF FileNames
  <2>. QED
    BY <2>2, <2>3, BelowOne DEF Input
<1>2. ASSUME Inv, pc = "run", NEW m \in contents
      PROVE  Saved(files, m)
  BY <1>2 DEF Inv, Late
<1>. QED
  BY <1>1, <1>2 DEF Inv, Saved, MembersKept

-----------------------------------------------------------------------------
(* Renaming one entry of data/input.                                        *)

LEMMA EntriesOfInput ==
    ASSUME NEW F, \A f \in F : f.at \in Paths, NEW n \in List(F, Input)
    PROVE  /\ n \in FileNames
           /\ \E f \in F : Len(f.at) >= 2 /\ f.at[1] = "input" /\ f.at[2] = n
<1>1. Len(Input) + 1 = 2 /\ "input" \in FileNames
  BY DatasetAssumption DEF Input, FileNames
<1>2. PICK f \in F : IsStrictPrefix(Input, f.at) /\ n = f.at[2]
  BY <1>1 DEF List
<1>3. Len(f.at) >= 2 /\ f.at[1] = "input"
  BY <1>1, <1>2, BelowOne DEF Input
<1>4. f.at[2] \in FileNames
  <2>1. f.at \in Seq(FileNames) /\ Len(f.at) \in Nat
    BY LenProperties DEF Paths
  <2>. QED
    BY <1>3, <2>1, ElementOfSeq
<1>. QED
  BY <1>2, <1>3, <1>4

LEMMA Renamed ==
    ASSUME NEW F, Traced(F), NEW n \in Blank(F),
           LET from == Append(Input, n)  to == Append(Input, Safe[n])
           IN  ~(Present(F, to) /\ (IsDir(F, from) \/ IsDir(F, to)))
    PROVE  LET G == Moved(F, Append(Input, n), Append(Input, Safe[n])) IN
           /\ Traced(G)
           /\ \A m \in contents : Saved(F, m) => Saved(G, m)
           /\ OnTop(F) => OnTop(G)
<1>. DEFINE s == Safe[n]
            from == <<"input", n>>
            to == <<"input", s>>
            New(f) == File(to \o Rest(f.at, 2), f.of)
            Under(f) == Len(f.at) >= 2 /\ f.at[1] = "input" /\ f.at[2] = n
            G == Moved(F, from, to)
<1>1. /\ n \in FileNames /\ s \in FileNames /\ s # n /\ Safe[s] = s /\ "input" \in FileNames
      /\ \E f \in F : Under(f)
  <2>1. n \in List(F, Input) /\ s # n
    BY DEF Blank
  <2>2. n \in FileNames /\ \E f \in F : Under(f)
    BY <2>1, EntriesOfInput DEF Traced
  <2>. QED
    BY <2>1, <2>2, DatasetAssumption DEF FileNames
<1>2. Append(Input, n) = from /\ Append(Input, Safe[n]) = to
  BY <1>1, EntryOfInput
<1>3. \A f \in F : /\ IsPrefix(from, f.at) <=> Under(f)
                   /\ f.at = to => IsPrefix(to, f.at)
  <2>. TAKE f \in F
  <2>1. f.at \in Paths
    BY DEF Traced
  <2>. QED
    BY <1>1, <2>1, BelowTwo
<1>4. \A f \in F : ~Under(f) /\ f.at # to => f \in G
  BY <1>3 DEF Moved
<1>5. \A f \in F : Under(f) => New(f) \in G
  <2>1. Len(from) = 2
    OBVIOUS
  <2>. QED
    BY <1>3, <2>1 DEF Moved
<1>6. \A g \in G : \E f \in F : (Under(f) /\ g = New(f)) \/ (~Under(f) /\ g = f)
  <2>1. Len(from) = 2
    OBVIOUS
  <2>. QED
    BY <1>3, <2>1 DEF Moved
<1>7. ASSUME NEW f \in F, Under(f)
      PROVE  /\ New(f).of = f.of /\ New(f).at \in Paths /\ Len(New(f).at) >= 2
             /\ New(f).at[1] = "input" /\ Safe[Last(New(f).at)] = Safe[Last(f.at)]
             /\ f.at = from => New(f).at = to
  <2>. DEFINE q == to \o Rest(f.at, 2)
  <2>1. f.at \in Paths /\ Len(f.at) \in Nat /\ 2 \in 0..Len(f.at)
    BY <1>7, LenProperties DEF Traced, Paths
  <2>2. to \in Paths /\ to[1] = "input" /\ Len(to) = 2 /\ Last(to) = s
    BY <1>1 DEF Paths, Last
  <2>. HIDE DEF to
  <2>3. /\ q \in Paths /\ q[1] = to[1] /\ Len(q) = Len(to) + (Len(f.at) - 2)
        /\ 2 < Len(f.at) => Last(q) = Last(f.at)
        /\ 2 = Len(f.at) => q = to
    BY <2>1, <2>2, PutBelow
  <2>. HIDE DEF q
  <2>4. Len(q) >= 2
    BY <2>1, <2>2, <2>3
  <2>5. Safe[Last(q)] = Safe[Last(f.at)]
    <3>1. CASE 2 < Len(f.at)
      BY <2>3, <3>1
    <3>2. CASE 2 = Len(f.at)
      <4>1. Last(f.at) = n
        BY <1>7, <3>2 DEF Last
      <4>. QED
        BY <1>1, <2>2, <2>3, <3>2, <4>1 DEF s
    <3>3. 2 < Len(f.at) \/ 2 = Len(f.at)
      <4>1. \A k \in Nat : k >= 2 => 2 < k \/ 2 = k
        OBVIOUS
      <4>. QED
        BY <1>7, <2>1, <4>1, Zenon
    <3>. QED
      BY <3>1, <3>2, <3>3
  <2>6. New(f).at = q /\ New(f).of = f.of
    BY DEF File, q
  <2>7. f.at = from => Len(f.at) = 2
    OBVIOUS
  <2>. QED
    BY <2>2, <2>3, <2>4, <2>5, <2>6, <2>7
\* What is overwritten is overwritten by the file that is renamed.
<1>8. ASSUME NEW f \in F, f.at = to
      PROVE  \E g \in F : Under(g) /\ g.at = from /\ Safe[Last(g.of)] = Safe[Last(f.of)] /\ g.of # f.of
  <2>1. PICK g \in F : Under(g)
    BY <1>1
  <2>2. ~IsDir(F, from)
    BY <1>2, <1>3, <1>8 DEF Present
  <2>3. g.at = from
    BY <1>3, <2>1, <2>2 DEF IsDir, IsStrictPrefix
  <2>4. Last(from) = n /\ Last(to) = s /\ from # to
    BY <1>1 DEF Last
  <2>5. Safe[Last(g.of)] = Safe[n] /\ Safe[Last(f.of)] = Safe[s]
    BY <1>8, <2>3, <2>4 DEF Traced
  <2>6. g.of # f.of
    BY <1>8, <2>3, <2>4 DEF Traced
  <2>. QED
    BY <1>1, <2>1, <2>3, <2>5, <2>6 DEF s
<1>. HIDE DEF G, New, to, from
<1>9. Traced(G)
  <2>. SUFFICES ASSUME NEW g \in G
                PROVE  /\ g.at \in Paths /\ Len(g.at) >= 2 /\ g.at[1] = "input"
                       /\ g.of \in contents /\ Safe[Last(g.at)] = Safe[Last(g.of)]
                       /\ \A h \in G : h.of = g.of => h = g
    BY DEF Traced
  <2>1. PICK f \in F : (Under(f) /\ g = New(f)) \/ (~Under(f) /\ g = f)
    BY <1>6
  <2>2. /\ f.at \in Paths /\ Len(f.at) >= 2 /\ f.at[1] = "input"
        /\ f.of \in contents /\ Safe[Last(f.at)] = Safe[Last(f.of)]
        /\ \A h \in F : h.of = f.of => h = f
    BY DEF Traced
  <2>3. g.of = f.of /\ g.at \in Paths /\ Len(g.at) >= 2 /\ g.at[1] = "input"
        /\ Safe[Last(g.at)] = Safe[Last(f.at)]
    <3>1. CASE Under(f) /\ g = New(f)
      BY <1>7, <3>1
    <3>2. CASE g = f
      BY <2>2, <3>2
    <3>. QED
      BY <2>1, <3>1, <3>2
  <2>4. ASSUME NEW h \in G, h.of = g.of
        PROVE  h = g
    <3>1. PICK e \in F : (Under(e) /\ h = New(e)) \/ (~Under(e) /\ h = e)
      BY <1>6
    <3>2. h.of = e.of
      BY <1>7, <3>1
    <3>3. e = f
      BY <2>2, <2>3, <2>4, <3>2
    <3>. HIDE DEF Under
    <3>. QED
      BY <2>1, <3>1, <3>3
  <2>. QED
    BY <2>2, <2>3, <2>4
<1>10. ASSUME NEW m \in contents, Saved(F, m)
       PROVE  Saved(G, m)
  <2>1. ASSUME NEW f \in F, f.of = m
        PROVE  Saved(G, m)
    <3>1. CASE Under(f)
      BY <1>5, <1>7, <2>1, <3>1 DEF Saved
    <3>2. CASE f.at = to
      <4>1. PICK g \in F : Safe[Last(g.of)] = Safe[Last(f.of)] /\ g.of # f.of
        BY <1>8, <3>2
      <4>2. g.of \in contents
        BY DEF Traced
      <4>. QED
        BY <2>1, <4>1, <4>2 DEF Saved
    <3>3. CASE ~Under(f) /\ f.at # to
      BY <1>4, <2>1, <3>3 DEF Saved
    <3>. QED
      BY <3>1, <3>2, <3>3
  <2>. QED
    BY <1>10, <2>1 DEF Saved
<1>11. ASSUME OnTop(F)
       PROVE  OnTop(G)
  <2>1. PICK f \in F : \E b \in DataNames : f.at = <<"input", b>>
    BY <1>11 DEF OnTop
  <2>2. PICK b \in DataNames : f.at = <<"input", b>>
    BY <2>1
  <2>3. ASSUME NEW g \in F, Under(g), g.at = from, s \in DataNames
        PROVE  OnTop(G)
    <3>1. New(g) \in G /\ New(g).at = to
      BY <1>5, <1>7, <2>3
    <3>. QED
      BY <2>3, <3>1 DEF OnTop, to
  <2>4. CASE b = n
    <3>1. f.at = from /\ Under(f)
      BY <2>2, <2>4 DEF from
    <3>2. s \in DataNames
      BY <2>4, DatasetAssumption DEF s
    <3>. QED
      BY <2>3, <3>1, <3>2
  <2>5. CASE b = s
    <3>1. f.at = to
      BY <2>2, <2>5 DEF to
    <3>2. PICK g \in F : Under(g) /\ g.at = from
      BY <1>8, <3>1
    <3>. QED
      BY <2>3, <2>5, <3>2
  <2>6. CASE b # n /\ b # s
    <3>1. ~Under(f) /\ f.at # to
      BY <2>2, <2>6 DEF to
    <3>. QED
      BY <1>4, <2>2, <3>1 DEF OnTop
  <2>. QED
    BY <2>4, <2>5, <2>6
<1>. QED
  BY <1>2, <1>9, <1>10, <1>11 DEF G

-----------------------------------------------------------------------------
(* Flattening a Kaggle dataset.                                             *)

Unpacked ==
    contents \in Datasets /\ Input \notin contents /\ files = {File(m, m) : m \in contents}

Dir    == ToFlatten(files)
Listed == List(files, Dir) \ (IF Dir = <<>> THEN {"input"} ELSE {})

Outside(m) == m[1] # "input"

LEMMA MemberTypes ==
    ASSUME contents \in Datasets, NEW m \in contents
    PROVE  /\ m \in Paths /\ m \in Seq(FileNames) /\ Len(m) \in Nat /\ Len(m) >= 1
           /\ m[1] \in FileNames
           /\ Len(m) >= 2 => m[2] \in FileNames
<1>1. m \in Paths
  BY DatasetAssumption DEF Datasets, Paths, FileNames
<1>2. m \in Seq(FileNames) /\ Len(m) \in Nat /\ Len(m) >= 1
  BY <1>1, EmptySeq, LenProperties DEF Paths
<1>. QED
  BY <1>1, <1>2, ElementOfSeq

LEMMA UnpackedFiles ==
    ASSUME Unpacked
    PROVE  /\ \A m \in contents : \E f \in files : f.at = m /\ f.of = m
           /\ \A f \in files : f.at \in contents /\ f.of = f.at
           /\ \A p : IsDir(files, p) <=> \E m \in contents : IsStrictPrefix(p, m)
           /\ \A p : List(files, p) = {m[Len(p) + 1] : m \in {k \in contents : IsStrictPrefix(p, k)}}
<1>1. \A m \in contents : \E f \in files : f.at = m /\ f.of = m
  <2>1. \A m \in contents : File(m, m) \in files /\ File(m, m).at = m /\ File(m, m).of = m
    BY DEF Unpacked, File
  <2>. QED
    BY <2>1
<1>2. \A f \in files : f.at \in contents /\ f.of = f.at
  BY DEF Unpacked, File
<1>3. \A p : IsDir(files, p) <=> \E m \in contents : IsStrictPrefix(p, m)
  BY <1>1, <1>2 DEF IsDir
<1>4. ASSUME NEW p
      PROVE  List(files, p) = {m[Len(p) + 1] : m \in {k \in contents : IsStrictPrefix(p, k)}}
  <2>1. \A x \in List(files, p) : \E f \in files : IsStrictPrefix(p, f.at) /\ x = f.at[Len(p) + 1]
    BY DEF List
  <2>2. \A f \in files : IsStrictPrefix(p, f.at) => f.at[Len(p) + 1] \in List(files, p)
    BY DEF List
  <2>. QED
    BY <1>1, <1>2, <2>1, <2>2
<1>. QED
  BY <1>1, <1>2, <1>3, <1>4

LEMMA DirIs ==
    ASSUME Unpacked
    PROVE  /\ \/ Dir = <<>>
              \/ \E d \in FileNames :
                   /\ Dir = <<d>> /\ d # "input"
                   /\ \A m \in contents : Outside(m) => m[1] = d /\ Len(m) >= 2
           /\ \A d \in FileNames :
                d # "input" /\ (\A m \in contents : m[1] = d) /\ (\E m \in contents : Len(m) >= 2)
                   => Dir = <<d>>
<1>. DEFINE entries == List(files, <<>>) \ {"input"}
            only == {n \in entries : entries = {n} /\ IsDir(files, <<n>>)}
<1>1. List(files, <<>>) = {m[1] : m \in contents}
  <2>1. \A m \in contents : IsStrictPrefix(<<>>, m)
    BY MemberTypes, BelowRoot DEF Unpacked
  <2>2. Len(<<>>) + 1 = 1
    OBVIOUS
  <2>. QED
    BY <2>1, <2>2, UnpackedFiles
<1>2. \A n \in FileNames : IsDir(files, <<n>>) <=> \E m \in contents : Len(m) >= 2 /\ m[1] = n
  <2>1. \A n \in FileNames, m \in contents : IsStrictPrefix(<<n>>, m) <=> Len(m) >= 2 /\ m[1] = n
    BY MemberTypes, BelowOne DEF Unpacked
  <2>. QED
    BY <2>1, UnpackedFiles
<1>3. Dir = IF only # {} THEN <<CHOOSE n \in only : TRUE>> ELSE <<>>
  BY DEF Dir, ToFlatten
<1>4. ASSUME only # {}
      PROVE  \E d \in FileNames :
                /\ Dir = <<d>> /\ d # "input"
                /\ \A m \in contents : Outside(m) => m[1] = d /\ Len(m) >= 2
  <2>. DEFINE d == CHOOSE n \in only : TRUE
  <2>1. d \in only /\ Dir = <<d>>
    <3>. HIDE DEF only
    <3>. QED
      BY <1>3, <1>4
  <2>. HIDE DEF d
  <2>2. entries = {d} /\ IsDir(files, <<d>>) /\ d # "input"
    BY <2>1
  <2>3. d \in FileNames
    BY <1>1, <2>2, MemberTypes DEF Unpacked
  <2>4. PICK k \in contents : Len(k) >= 2 /\ k[1] = d
    BY <1>2, <2>2, <2>3
  <2>5. ASSUME NEW m \in contents, Outside(m)
        PROVE  m[1] = d /\ Len(m) >= 2
    <3>1. m[1] = d
      BY <1>1, <2>2, <2>5 DEF Outside
    <3>2. ASSUME Len(m) = 1
          PROVE  FALSE
      <4>1. m = <<d>>
        <5>1. ~IsStrictPrefix(<<d>>, m) /\ IsPrefix(<<d>>, m)
          <6>1. m \in Paths
            BY MemberTypes DEF Unpacked
          <6>2. IsPrefix(<<d>>, m)
            BY <2>3, <3>1, <6>1, BelowOne
          <6>3. ~(1 >= 2)
            OBVIOUS
          <6>. QED
            BY <2>3, <3>2, <6>1, <6>2, <6>3, BelowOne
        <5>. QED
          BY <5>1 DEF IsStrictPrefix
      <4>2. IsStrictPrefix(<<d>>, k)
        BY <2>3, <2>4, BelowOne, MemberTypes DEF Unpacked
      <4>. QED
        BY <4>1, <4>2 DEF Unpacked, Datasets
    <3>3. \A j \in Nat : j >= 1 /\ j # 1 => j >= 2
      OBVIOUS
    <3>4. Len(m) \in Nat /\ Len(m) >= 1
      BY MemberTypes DEF Unpacked
    <3>. QED
      BY <3>1, <3>2, <3>3, <3>4
  <2>. QED
    BY <2>1, <2>2, <2>3, <2>5
<1>5. ASSUME NEW d \in FileNames, d # "input", \A m \in contents : m[1] = d,
             \E m \in contents : Len(m) >= 2
      PROVE  Dir = <<d>>
  <2>1. entries = {d}
    BY <1>1, <1>5
  <2>2. IsDir(files, <<d>>)
    BY <1>2, <1>5
  <2>3. only = {d}
    BY <2>1, <2>2
  <2>. HIDE DEF only
  <2>. QED
    BY <1>3, <2>3
<1>. HIDE DEF only, entries
<1>. QED
  BY <1>3, <1>4, <1>5

LEMMA Listing ==
    ASSUME Unpacked
    PROVE  /\ Len(Dir) \in Nat
           /\ \A m \in contents : /\ Outside(m) <=> (IsStrictPrefix(Dir, m) /\ m[Len(Dir) + 1] \in Listed)
                                  /\ Outside(m) => Len(m) >= Len(Dir) + 1
           /\ \A n \in Listed :
                /\ n \in FileNames
                /\ \E m \in contents : Outside(m)
                                       /\ (~IsDir(files, Append(Dir, n)) => Last(m) = n)
<1>1. CASE Dir = <<>>
  <2>1. Len(Dir) = 0 /\ Len(Dir) + 1 = 1
    BY <1>1
  <2>2. \A m \in contents : IsStrictPrefix(Dir, m)
    BY <1>1, MemberTypes, BelowRoot DEF Unpacked
  <2>3. Listed = {m[1] : m \in contents} \ {"input"}
    BY <1>1, <2>1, <2>2, UnpackedFiles DEF Listed
  <2>4. ASSUME NEW n \in Listed
        PROVE  /\ n \in FileNames
               /\ \E m \in contents : Outside(m)
                                      /\ (~IsDir(files, Append(Dir, n)) => Last(m) = n)
    <3>1. PICK m \in contents : n = m[1] /\ n # "input"
      BY <2>3
    <3>2. n \in FileNames /\ m \in Paths /\ Len(m) \in Nat /\ Len(m) >= 1
      BY <3>1, MemberTypes DEF Unpacked
    <3>3. Append(Dir, n) = <<n>>
      BY <1>1
    <3>4. Len(m) >= 2 => IsDir(files, <<n>>)
      <4>1. IsStrictPrefix(<<n>>, m) <=> Len(m) >= 2 /\ m[1] = n
        BY <3>2, BelowOne
      <4>. QED
        BY <3>1, <4>1, UnpackedFiles
    <3>5. Len(m) = 1 => Last(m) = n
      BY <3>1 DEF Last
    <3>6. Len(m) >= 2 \/ Len(m) = 1
      <4>1. \A j \in Nat : j >= 1 => j >= 2 \/ j = 1
        OBVIOUS
      <4>. QED
        BY <3>2, <4>1
    <3>. QED
      BY <3>1, <3>2, <3>3, <3>4, <3>5, <3>6 DEF Outside
  <2>5. \A m \in contents : Len(m) >= 1
    BY MemberTypes DEF Unpacked
  <2>. QED
    BY <2>1, <2>2, <2>3, <2>4, <2>5 DEF Outside
<1>2. ASSUME NEW d \in FileNames, Dir = <<d>>, d # "input",
             \A m \in contents : Outside(m) => m[1] = d /\ Len(m) >= 2
      PROVE  /\ Len(Dir) \in Nat
             /\ \A m \in contents : /\ Outside(m) <=> (IsStrictPrefix(Dir, m) /\ m[Len(Dir) + 1] \in Listed)
                                    /\ Outside(m) => Len(m) >= Len(Dir) + 1
             /\ \A n \in Listed :
                  /\ n \in FileNames
                  /\ \E m \in contents : Outside(m)
                                         /\ (~IsDir(files, Append(Dir, n)) => Last(m) = n)
  <2>1. Len(Dir) = 1 /\ Len(Dir) + 1 = 2 /\ Dir # <<>>
    BY <1>2
  <2>2. \A m \in contents : Outside(m) <=> IsStrictPrefix(Dir, m)
    <3>. TAKE m \in contents
    <3>1. m \in Paths
      BY MemberTypes DEF Unpacked
    <3>2. IsStrictPrefix(Dir, m) <=> Len(m) >= 2 /\ m[1] = d
      BY <1>2, <3>1, BelowOne
    <3>. QED
      BY <1>2, <3>2 DEF Outside
  <2>3. Listed = {m[2] : m \in {k \in contents : Outside(k)}}
    <3>1. Listed = List(files, Dir)
      BY <2>1 DEF Listed
    <3>2. {k \in contents : Outside(k)} = {k \in contents : IsStrictPrefix(Dir, k)}
      BY <2>2
    <3>3. List(files, Dir) = {m[Len(Dir) + 1] : m \in {k \in contents : IsStrictPrefix(Dir, k)}}
      BY UnpackedFiles
    <3>. QED
      BY <2>1, <3>1, <3>2, <3>3
  <2>4. ASSUME NEW n \in Listed
        PROVE  /\ n \in FileNames
               /\ \E m \in contents : Outside(m)
                                      /\ (~IsDir(files, Append(Dir, n)) => Last(m) = n)
    <3>1. PICK m \in contents : Outside(m) /\ n = m[2]
      BY <2>3
    <3>2. n \in FileNames /\ m \in Paths /\ Len(m) \in Nat /\ Len(m) >= 2 /\ m[1] = d
      BY <1>2, <3>1, MemberTypes DEF Unpacked
    <3>3. Append(Dir, n) = <<d, n>>
      BY <1>2, <3>2, Appended
    <3>4. Len(m) >= 3 => IsDir(files, <<d, n>>)
      <4>1. IsStrictPrefix(<<d, n>>, m) <=> Len(m) >= 3 /\ m[1] = d /\ m[2] = n
        BY <1>2, <3>2, BelowTwo
      <4>. QED
        BY <3>1, <3>2, <4>1, UnpackedFiles
    <3>5. Len(m) = 2 => Last(m) = n
      BY <3>1 DEF Last
    <3>6. Len(m) >= 3 \/ Len(m) = 2
      <4>1. \A j \in Nat : j >= 2 => j >= 3 \/ j = 2
        OBVIOUS
      <4>. QED
        BY <3>2, <4>1
    <3>. QED
      BY <3>1, <3>2, <3>3, <3>4, <3>5, <3>6
  <2>. QED
    BY <1>2, <2>1, <2>2, <2>3, <2>4
<1>. QED
  BY <1>1, <1>2, DirIs

\* Where an entry goes, and that it replaces at most a file of its own name.
LEMMA TargetIs ==
    ASSUME \A f \in files : f.at \in Paths, NEW dir, NEW n \in FileNames
    PROVE  LET t == Target(files, n) IN
           /\ t \in Paths /\ Len(t) >= 2 /\ t[1] = "input" /\ Last(t) = n
           /\ ~IsDir(files, <<"input", n>>) => t = <<"input", n>>
           /\ CanMove(files, dir, n) /\ (\E f \in files : f.at = t) => ~IsDir(files, Append(dir, n))
<1>1. "input" \in FileNames /\ Append(Input, n) = <<"input", n>>
  BY EntryOfInput, DatasetAssumption DEF FileNames
<1>2. <<"input", n>> \in Paths /\ Len(<<"input", n>>) = 2 /\ <<"input", n>>[1] = "input"
      /\ Last(<<"input", n>>) = n
  BY <1>1 DEF Paths, Last
<1>3. Input \o <<n, n>> \in Paths /\ Len(Input \o <<n, n>>) = 3 /\ (Input \o <<n, n>>)[1] = "input"
      /\ Last(Input \o <<n, n>>) = n
  <2>. DEFINE m == <<n, n>>
  <2>1. m \in Paths /\ Len(m) = 2 /\ Last(m) = n
    BY DEF Paths, Last
  <2>. HIDE DEF m
  <2>2. Input \o m \in Paths /\ (Input \o m)[1] = "input" /\ Len(Input \o m) = Len(m) + 1
        /\ Last(Input \o m) = Last(m)
    BY <2>1, InInput
  <2>3. Input \o m \in Paths /\ Len(Input \o m) = 3 /\ (Input \o m)[1] = "input" /\ Last(Input \o m) = n
    BY <2>1, <2>2
  <2>. QED
    BY <2>3 DEF m
<1>4. CASE IsDir(files, <<"input", n>>)
  <2>1. Target(files, n) = Input \o <<n, n>>
    BY <1>1, <1>4 DEF Target
  <2>2. ASSUME NEW f \in files, f.at = Input \o <<n, n>>, CanMove(files, dir, n)
        PROVE  FALSE
    <3>1. ~IsPrefix(f.at, f.at)
      BY <1>1, <1>4, <2>2 DEF CanMove, Present
    <3>2. f.at \in Seq(FileNames) /\ Len(f.at) \in Nat
      BY LenProperties DEF Paths
    <3>. QED
      BY <3>1, <3>2 DEF IsPrefix
  <2>3. 3 >= 2
    OBVIOUS
  <2>. QED
    BY <1>3, <1>4, <2>1, <2>2, <2>3, Zenon
<1>5. CASE ~IsDir(files, <<"input", n>>)
  <2>1. Target(files, n) = <<"input", n>>
    BY <1>1, <1>5 DEF Target
  <2>2. ASSUME NEW f \in files, f.at = <<"input", n>>, CanMove(files, dir, n)
        PROVE  ~IsDir(files, Append(dir, n))
    BY <1>1, <2>2 DEF CanMove, IsFile
  <2>. QED
    BY <1>2, <2>1, <2>2
<1>. QED
  BY <1>4, <1>5

LEMMA Flattened ==
    ASSUME Unpacked, \A n \in Listed : CanMove(files, Dir, n)
    PROVE  LET G == MovedAll(files, Dir, Listed) IN
           /\ Traced(G)
           /\ \A m \in contents : Saved(G, m)
           /\ kind = "kaggle" /\ AtHand => OnTop(G)
<1>. DEFINE G == MovedAll(files, Dir, Listed)
            k == Len(Dir) + 1
            New(f) == File(Target(files, f.at[k]) \o Rest(f.at, k), f.of)
<1>1. /\ \A m \in contents : \E f \in files : f.at = m /\ f.of = m
      /\ \A f \in files : f.at \in contents /\ f.of = f.at
      /\ \A p : IsDir(files, p) <=> \E m \in contents : IsStrictPrefix(p, m)
  BY UnpackedFiles
<1>2. /\ k \in Nat /\ k >= 1
      /\ \A f \in files : Outside(f.at) <=> (IsStrictPrefix(Dir, f.at) /\ f.at[k] \in Listed)
      /\ \A f \in files : Outside(f.at) => Len(f.at) >= k
  BY <1>1, Listing
<1>3. \A f \in files : f.at \in Paths /\ Len(f.at) \in Nat /\ Len(f.at) >= 1
  BY <1>1, MemberTypes DEF Unpacked
<1>4. \A g \in G : \/ \E f \in files : Outside(f.at) /\ g = New(f)
                   \/ g \in files /\ ~Outside(g.at)
  BY <1>2 DEF MovedAll
<1>5. \A f \in files : Outside(f.at) => New(f) \in G
  BY <1>2 DEF MovedAll
<1>6. \A f \in files : ~Outside(f.at) /\ (\A n \in Listed : f.at # Target(files, n)) => f \in G
  BY <1>2 DEF MovedAll
<1>7. ASSUME NEW f \in files, Outside(f.at)
      PROVE  /\ New(f).of = f.of /\ New(f).at \in Paths /\ Len(New(f).at) >= 2
             /\ New(f).at[1] = "input" /\ Last(New(f).at) = Last(f.at)
             /\ Len(f.at) = k => New(f).at = Target(files, f.at[k])
  <2>. DEFINE n == f.at[k]
              t == Target(files, n)
              q == t \o Rest(f.at, k)
  <2>1. n \in FileNames
    BY <1>2, <1>7, Listing
  <2>2. t \in Paths /\ Len(t) >= 2 /\ t[1] = "input" /\ Last(t) = n
    BY <1>3, <2>1, TargetIs
  <2>3. k \in 0..Len(f.at) /\ (k < Len(f.at) \/ k = Len(f.at)) /\ Len(t) \in Nat
    <3>1. Len(t) \in Nat
      BY <2>2, LenProperties DEF Paths
    <3>2. Len(f.at) >= k /\ Len(f.at) \in Nat /\ k \in Nat
      BY <1>2, <1>3, <1>7
    <3>. HIDE DEF k
    <3>3. \A a, b \in Nat : a >= b => b \in 0..a /\ (b < a \/ b = a)
      OBVIOUS
    <3>. QED
      BY <3>1, <3>2, <3>3
  <2>4. Len(f.at) \in Nat /\ f.at \in Paths /\ k \in Nat
    BY <1>2, <1>3
  <2>. HIDE DEF n, t, k
  <2>5. /\ q \in Paths /\ q[1] = t[1] /\ Len(q) = Len(t) + (Len(f.at) - k)
        /\ k < Len(f.at) => Last(q) = Last(f.at)
        /\ k = Len(f.at) => q = t
    BY <2>2, <2>3, <2>4, PutBelow
  <2>. HIDE DEF q
  <2>6. Len(q) >= 2
    <3>1. \A a, b, c \in Nat : c >= 2 /\ b \in 0..a => c + (a - b) >= 2
      OBVIOUS
    <3>. QED
      BY <2>2, <2>3, <2>4, <2>5, <3>1
  <2>7. Last(q) = Last(f.at)
    <3>1. ASSUME k = Len(f.at)
          PROVE  Last(q) = Last(f.at)
      BY <2>2, <2>5, <3>1 DEF Last, n
    <3>. QED
      BY <2>3, <2>5, <3>1
  <2>8. New(f).at = q /\ New(f).of = f.of
    BY DEF File, q, t, n, k
  <2>. QED
    BY <2>2, <2>5, <2>6, <2>7, <2>8 DEF t, n, k
\* What is overwritten is overwritten by a file of its own name.
<1>8. ASSUME NEW f \in files, ~Outside(f.at), NEW n \in Listed, f.at = Target(files, n)
      PROVE  \E g \in files : g.of # f.of /\ Last(g.of) = Last(f.of)
  <2>1. n \in FileNames
    BY Listing
  <2>2. Last(f.at) = n /\ ~IsDir(files, Append(Dir, n))
    BY <1>3, <1>8, <2>1, TargetIs
  <2>3. PICK m \in contents : Outside(m) /\ Last(m) = n
    BY <2>2, Listing
  <2>4. PICK g \in files : g.at = m /\ g.of = m
    BY <1>1
  <2>. QED
    BY <1>1, <1>8, <2>2, <2>3, <2>4
<1>. HIDE DEF New, G, k
<1>9. Traced(G)
  <2>. SUFFICES ASSUME NEW g \in G
                PROVE  /\ g.at \in Paths /\ Len(g.at) >= 2 /\ g.at[1] = "input"
                       /\ g.of \in contents /\ Safe[Last(g.at)] = Safe[Last(g.of)]
                       /\ \A h \in G : h.of = g.of => h = g
    BY DEF Traced
  <2>1. \A h \in G : \E f \in files : /\ h.of = f.of
                                      /\ (Outside(f.at) /\ h = New(f)) \/ (~Outside(f.at) /\ h = f)
    BY <1>4, <1>7
  <2>2. PICK f \in files : /\ g.of = f.of
                           /\ (Outside(f.at) /\ g = New(f)) \/ (~Outside(f.at) /\ g = f)
    BY <2>1
  <2>3. g.of \in contents
    BY <1>1, <2>2
  <2>4. g.at \in Paths /\ Len(g.at) >= 2 /\ g.at[1] = "input" /\ Last(g.at) = Last(f.at)
    <3>1. CASE Outside(f.at) /\ g = New(f)
      BY <1>7, <3>1
    <3>2. CASE ~Outside(f.at) /\ g = f
      <4>1. g.at \in Paths /\ g.at[1] = "input" /\ Len(g.at) \in Nat /\ Len(g.at) >= 1
        BY <1>3, <3>2 DEF Outside
      <4>2. ASSUME Len(g.at) = 1
            PROVE  FALSE
        <5>1. "input" \in FileNames /\ ~(1 >= 2)
          BY DatasetAssumption DEF FileNames
        <5>2. IsPrefix(<<"input">>, g.at) /\ ~IsStrictPrefix(<<"input">>, g.at)
          BY <4>1, <4>2, <5>1, BelowOne
        <5>3. g.at = Input
          BY <5>2 DEF IsStrictPrefix, Input
        <5>. QED
          BY <1>1, <3>2, <5>3 DEF Unpacked
      <4>3. \A j \in Nat : j >= 1 /\ j # 1 => j >= 2
        OBVIOUS
      <4>4. Len(g.at) >= 2
        BY <4>1, <4>2, <4>3
      <4>. QED
        BY <3>2, <4>1, <4>4
    <3>. QED
      BY <2>2, <3>1, <3>2
  <2>5. ASSUME NEW h \in G, h.of = g.of
        PROVE  h = g
    <3>1. PICK e \in files : /\ h.of = e.of
                             /\ (Outside(e.at) /\ h = New(e)) \/ (~Outside(e.at) /\ h = e)
      BY <2>1
    <3>2. e.of = f.of /\ e.at = f.at
      BY <1>1, <2>2, <2>5, <3>1
    <3>3. e = f
      BY <3>2 DEF Unpacked, File
    <3>. QED
      BY <2>2, <3>1, <3>3
  <2>6. Safe[Last(g.at)] = Safe[Last(g.of)]
    BY <1>1, <2>2, <2>4
  <2>. QED
    BY <2>3, <2>4, <2>5, <2>6
<1>10. ASSUME NEW m \in contents
       PROVE  Saved(G, m)
  <2>1. PICK f \in files : f.at = m /\ f.of = m
    BY <1>1
  <2>2. CASE Outside(f.at)
    BY <1>5, <1>7, <2>1, <2>2 DEF Saved
  <2>3. CASE ~Outside(f.at) /\ \E n \in Listed : f.at = Target(files, n)
    <3>1. PICK g \in files : g.of # f.of /\ Last(g.of) = Last(f.of)
      BY <1>8, <2>3
    <3>2. g.of \in contents \ {m} /\ Safe[Last(g.of)] = Safe[Last(m)]
      BY <1>1, <2>1, <3>1
    <3>. QED
      BY <3>2 DEF Saved
  <2>4. CASE ~Outside(f.at) /\ \A n \in Listed : f.at # Target(files, n)
    BY <1>6, <2>1, <2>4 DEF Saved
  <2>. QED
    BY <2>2, <2>3, <2>4
<1>11. ASSUME kind = "kaggle", AtHand
       PROVE  OnTop(G)
  <2>1. ASSUME NEW f \in files, Outside(f.at), Len(f.at) = k, f.at[k] \in DataNames,
               ~IsDir(files, <<"input", f.at[k]>>)
        PROVE  OnTop(G)
    <3>1. f.at[k] \in FileNames
      BY <2>1, DatasetAssumption DEF FileNames
    <3>2. Target(files, f.at[k]) = <<"input", f.at[k]>>
      BY <1>3, <2>1, <3>1, TargetIs
    <3>3. New(f) \in G /\ New(f).at = <<"input", f.at[k]>>
      BY <1>5, <1>7, <2>1, <3>2
    <3>. QED
      BY <2>1, <3>3 DEF OnTop
  <2>2. ASSUME NEW m \in contents, Len(m) = 1, m[1] \in DataNames,
               \A j \in contents : ~IsStrictPrefix(Input \o m, j)
        PROVE  OnTop(G)
    <3>1. PICK f \in files : f.at = m
      BY <1>1
    <3>2. Outside(m)
      BY <2>2, DatasetAssumption DEF Outside
    <3>3. Dir = <<>>
      <4>1. ~(1 >= 2)
        OBVIOUS
      <4>. QED
        BY <2>2, <3>2, <4>1, DirIs
    <3>4. k = 1
      BY <3>3 DEF k
    <3>5. Input \o m = <<"input", m[1]>>
      BY <2>2, InInput, MemberTypes DEF Unpacked
    <3>6. ~IsDir(files, <<"input", m[1]>>)
      BY <1>1, <2>2, <3>5
    <3>. QED
      BY <2>1, <2>2, <3>1, <3>2, <3>4, <3>6
  <2>3. ASSUME NEW m \in contents, Len(m) = 2, m[2] \in DataNames, \A j \in contents : j[1] = m[1]
        PROVE  OnTop(G)
    <3>1. PICK f \in files : f.at = m
      BY <1>1
    <3>2. "input" \in FileNames /\ m[2] \in FileNames /\ m[1] \in FileNames /\ m \in Paths
      <4>1. m \in Paths /\ m[1] \in FileNames
        BY MemberTypes DEF Unpacked
      <4>. QED
        BY <2>3, <4>1, DatasetAssumption DEF FileNames
    <3>3. CASE m[1] = "input"
      <4>1. \A n \in Listed : FALSE
        BY <2>3, <3>3, Listing DEF Outside
      <4>2. f \in G
        BY <1>6, <3>1, <3>3, <4>1 DEF Outside
      <4>3. m = <<"input", m[2]>>
        <5>1. \A b \in FileNames : m = <<"input", b>> <=> Len(m) = 2 /\ m[1] = "input" /\ m[2] = b
          BY <3>2, BelowTwo
        <5>. QED
          BY <2>3, <3>2, <3>3, <5>1
      <4>. QED
        BY <2>3, <3>1, <4>2, <4>3 DEF OnTop
    <3>4. CASE m[1] # "input"
      <4>1. Dir = <<m[1]>>
        <5>1. 2 >= 2
          OBVIOUS
        <5>. QED
          BY <2>3, <3>2, <3>4, <5>1, DirIs
      <4>2. k = 2
        BY <4>1 DEF k
      <4>3. ~IsDir(files, <<"input", m[2]>>)
        <5>1. \A j \in contents : j \in Paths /\ j[1] # "input"
          BY <2>3, <3>4, MemberTypes DEF Unpacked
        <5>. QED
          BY <1>1, <3>2, <5>1, BelowTwo
      <4>. QED
        BY <2>1, <2>3, <3>1, <3>4, <4>2, <4>3 DEF Outside
    <3>. QED
      BY <3>3, <3>4
  <2>. QED
    BY <1>11, <2>2, <2>3 DEF AtHand
<1>. QED
  BY <1>9, <1>10, <1>11 DEF G

-----------------------------------------------------------------------------
(* The steps.                                                               *)

LEMMA InvInit == Init => Inv
  BY DEF Init, Inv, Late, PathLeads

LEMMA RefuseKeeps == Inv /\ Refuse => Inv'
  BY DEF Inv, Refuse, Goto, Late, PathLeads

LEMMA StreamKeeps == Inv /\ Stream => Inv'
<1>. SUFFICES ASSUME Inv, Stream PROVE Inv'
  OBVIOUS
<1>1. /\ pc = "download" /\ kind # "kaggle" /\ UNCHANGED <<kind, contents, dataPath>>
      /\ pc' = IF kind = "archive" THEN "extract" ELSE "sanitise"
      /\ files' = {File(Append(Input, FileName), Input)}
  BY DEF Stream, Goto
<1>2. Append(Input, FileName) = <<"input", "input">>
  BY EntryOfInput, DatasetAssumption DEF FileName, FileNames
<1>3. kind = "plain" \/ pc' = "extract"
  BY <1>1 DEF Inv
<1>. QED
  BY <1>1, <1>2, <1>3 DEF Inv, Late, PathLeads

LEMMA ExtractKeeps == Inv /\ Extract => Inv'
<1>. SUFFICES ASSUME Inv, Extract PROVE Inv'
  OBVIOUS
<1>1. kind = "archive" /\ UNCHANGED <<kind, contents, dataPath>> /\ contents \in Datasets
  BY DEF Inv, Extract, Goto
<1>2. CASE pc' = "failed"
  BY <1>1, <1>2 DEF Inv, Late, PathLeads
<1>3. CASE pc' = "sanitise" /\ files' = {File(Input \o m, m) : m \in contents \ {<<FileName>>}}
  <2>1. ASSUME NEW f \in files'
        PROVE  /\ f.of \in contents \ {Input} /\ f = File(Input \o f.of, f.of)
               /\ f.at \in Paths /\ Len(f.at) >= 2 /\ f.at[1] = "input" /\ Last(f.at) = Last(f.of)
    <3>1. PICK m \in contents \ {Input} : f = File(Input \o m, m)
      BY <1>3 DEF FileName, Input
    <3>2. m \in Paths /\ Len(m) \in Nat /\ Len(m) >= 1
      BY <1>1, <3>1, MemberTypes
    <3>3. /\ Input \o m \in Paths /\ (Input \o m)[1] = "input" /\ Len(Input \o m) = Len(m) + 1
          /\ Last(Input \o m) = Last(m)
      BY <3>2, InInput
    <3>4. \A j \in Nat : j >= 1 => j + 1 >= 2
      OBVIOUS
    <3>5. f.at = Input \o m /\ f.of = m
      BY <3>1 DEF File
    <3>. QED
      BY <3>1, <3>2, <3>3, <3>4, <3>5
  <2>2. Traced(files)'
    <3>1. ASSUME NEW f \in files', NEW g \in files', g.of = f.of
          PROVE  g = f
      BY <2>1, <3>1
    <3>. QED
      BY <1>1, <2>1, <3>1 DEF Traced
  <2>3. ASSUME NEW m \in contents
        PROVE  Saved(files', m)
    <3>1. CASE m = <<FileName>>
      BY <3>1 DEF Saved
    <3>2. CASE m # <<FileName>>
      <4>1. File(Input \o m, m) \in files' /\ File(Input \o m, m).of = m
        BY <1>3, <3>2 DEF File
      <4>. QED
        BY <4>1 DEF Saved
    <3>. QED
      BY <3>1, <3>2
  <2>4. (\A m \in contents : Saved(files, m))'
    BY <1>1, <2>3 DEF Saved
  <2>5. ASSUME AtHand
        PROVE  OnTop(files')
    <3>1. PICK m \in contents : Len(m) = 1 /\ m[1] \in DataNames
      BY <1>1, <2>5 DEF AtHand
    <3>2. m # <<FileName>>
      BY <3>1, DatasetAssumption DEF FileName
    <3>3. Input \o m = <<"input", m[1]>>
      BY <1>1, <3>1, InInput, MemberTypes
    <3>4. File(Input \o m, m) \in files' /\ File(Input \o m, m).at = <<"input", m[1]>>
      BY <1>3, <3>2, <3>3 DEF File
    <3>. QED
      BY <3>1, <3>4 DEF OnTop
  <2>6. AtHand' => OnTop(files)'
    BY <1>1, <2>5 DEF AtHand, OnTop
  <2>. QED
    BY <1>1, <1>3, <2>2, <2>4, <2>6 DEF Inv, Late, PathLeads
<1>. QED
  BY <1>2, <1>3 DEF Extract, Goto

LEMMA KaggleKeeps == Inv /\ Kaggle => Inv'
  BY DEF Inv, Kaggle, Goto, Late, PathLeads, Input

LEMMA NormaliseKeeps == Inv /\ Normalise => Inv'
<1>. SUFFICES ASSUME Inv, Normalise PROVE Inv'
  OBVIOUS
<1>1. kind = "kaggle" /\ UNCHANGED <<kind, contents, dataPath>> /\ Unpacked
  BY DEF Inv, Normalise, Goto, Unpacked
<1>2. \/ pc' = "failed"
      \/ /\ pc' = "sanitise" /\ \A n \in Listed : CanMove(files, Dir, n)
         /\ files' = MovedAll(files, Dir, Listed)
  BY DEF Normalise, Goto, Dir, Listed
<1>3. CASE pc' = "failed"
  BY <1>1, <1>3 DEF Inv, Late, PathLeads
<1>4. CASE /\ pc' = "sanitise" /\ \A n \in Listed : CanMove(files, Dir, n)
           /\ files' = MovedAll(files, Dir, Listed)
  <2>1. /\ Traced(files')
        /\ \A m \in contents : Saved(files', m)
        /\ kind = "kaggle" /\ AtHand => OnTop(files')
    BY <1>1, <1>4, Flattened
  <2>2. Traced(files)' /\ (\A m \in contents : Saved(files, m))' /\ (AtHand' => OnTop(files)')
    BY <1>1, <2>1 DEF Traced, Saved, OnTop, AtHand
  <2>. QED
    BY <1>1, <1>4, <2>2 DEF Inv, Late, PathLeads
<1>. QED
  BY <1>2, <1>3, <1>4

LEMMA PlainStays ==
    ASSUME files = {File(<<"input", "input">>, Input)}
    PROVE  Blank(files) = {}
<1>1. "input" \in FileNames /\ Safe["input"] = "input"
  BY DatasetAssumption DEF FileNames
<1>2. \A f \in files : f.at = <<"input", "input">>
  BY DEF File
<1>3. <<"input", "input">> \in Paths /\ <<"input", "input">>[2] = "input"
  BY <1>1 DEF Paths
<1>4. ASSUME NEW n \in List(files, Input)
      PROVE  n = "input"
  BY <1>2, <1>3, EntriesOfInput
<1>. QED
  BY <1>1, <1>4 DEF Blank

LEMMA SanitiseKeeps == Inv /\ Sanitise => Inv'
<1>. SUFFICES ASSUME Inv, Sanitise PROVE Inv'
  OBVIOUS
<1>1. pc = "sanitise" /\ UNCHANGED <<kind, contents, dataPath>>
  BY DEF Sanitise, Goto
<1>2. \/ pc' = "failed"
      \/ pc' = "find" /\ files' = files
      \/ \E n \in Blank(files) :
           LET from == Append(Input, n)  to == Append(Input, Safe[n])
           IN  /\ ~(Present(files, to) /\ (IsDir(files, from) \/ IsDir(files, to)))
               /\ pc' = "sanitise" /\ files' = Moved(files, from, to)
  BY DEF Sanitise, Goto
<1>3. CASE pc' = "failed"
  BY <1>1, <1>3 DEF Inv, Late, PathLeads
<1>4. CASE pc' = "find" /\ files' = files
  <2>1. Late /\ Late'
    BY <1>1, <1>4 DEF Late
  <2>. QED
    BY <1>1, <1>4, <2>1 DEF Inv, PathLeads, Traced, Saved, OnTop, AtHand
<1>5. ASSUME NEW n \in Blank(files),
             LET from == Append(Input, n)  to == Append(Input, Safe[n])
             IN  /\ ~(Present(files, to) /\ (IsDir(files, from) \/ IsDir(files, to)))
                 /\ pc' = "sanitise" /\ files' = Moved(files, from, to)
      PROVE  Inv'
  <2>1. kind # "plain"
    BY <1>1, <1>5, PlainStays DEF Inv, Late
  <2>2. Traced(files) /\ (\A m \in contents : Saved(files, m)) /\ (AtHand => OnTop(files))
    BY <1>1, <2>1 DEF Inv, Late
  <2>3. /\ Traced(files')
        /\ \A m \in contents : Saved(files, m) => Saved(files', m)
        /\ OnTop(files) => OnTop(files')
    BY <1>5, <2>2, Renamed
  <2>4. Traced(files)' /\ (\A m \in contents : Saved(files, m))' /\ (AtHand' => OnTop(files)')
    BY <1>1, <2>2, <2>3 DEF Traced, Saved, OnTop, AtHand
  <2>. QED
    BY <1>1, <1>5, <2>1, <2>4 DEF Inv, Late, PathLeads
<1>. QED
  BY <1>2, <1>3, <1>4, <1>5

\* If a data file lies at the top of data/input, the one that is found lies there too.
LEMMA FoundOnTop ==
    ASSUME Traced(files), OnTop(files)
    PROVE  /\ FindDataFile(files) # {}
           /\ \A p \in FindDataFile(files) : IsFile(files, Input \o <<Last(p)>>)
<1>1. "input" \in FileNames
  BY DatasetAssumption DEF FileNames
<1>2. \A f \in files : f.at \in Paths /\ Len(f.at) \in Nat /\ Len(f.at) >= 2 /\ f.at[1] = "input"
  BY LenProperties DEF Traced, Paths
<1>3. ASSUME NEW f \in files
      PROVE  /\ DirOf(f.at) \in Paths /\ DirOf(f.at)[1] = "input" /\ Len(DirOf(f.at)) = Len(f.at) - 1
             /\ Len(f.at) = 2 => DirOf(f.at) = Input
  <2>. DEFINE p == f.at
              n == Len(p) - 1
              d == SubSeq(p, 1, n)
  <2>1. p \in Seq(FileNames) /\ n \in Nat /\ n >= 1 /\ p[1] = "input" /\ Len(p) \in Nat
    BY <1>2 DEF Paths
  <2>2. \A i \in 1..n : p[i] \in FileNames
    BY <2>1, ElementOfSeq
  <2>. HIDE DEF p, n
  <2>3. /\ d \in Seq(FileNames) /\ Len(d) = IF 1 <= n THEN n - 1 + 1 ELSE 0
        /\ \A i \in 1..(n - 1 + 1) : d[i] = p[1 + i - 1]
    BY <2>1, <2>2, SubSeqProperties
  <2>. HIDE DEF d
  <2>4. Len(d) = n /\ d[1] = "input" /\ d # <<>>
    BY <2>1, <2>3, EmptySeq
  <2>5. ASSUME n = 1
        PROVE  d = Input
    <3>1. Input \in Seq(FileNames) /\ Len(Input) = 1 /\ Input[1] = "input"
      BY <1>1 DEF Input
    <3>2. \A i \in 1..1 : d[i] = Input[i]
      BY <2>4, <3>1
    <3>. QED
      BY <2>3, <2>4, <2>5, <3>1, <3>2, SeqEqual
  <2>6. Len(p) = 2 => n = 1
    BY DEF n
  <2>. QED
    BY <2>3, <2>4, <2>5, <2>6 DEF p, n, d, DirOf, Paths
<1>4. PICK f \in files : \E b \in DataNames : f.at = <<"input", b>>
  BY DEF OnTop
<1>5. Len(f.at) = 2 /\ Last(f.at) \in DataNames
  BY <1>4 DEF Last
<1>6. \A g \in files : IsPrefix(Input, g.at)
  BY <1>1, <1>2, BelowOne DEF Input
<1>7. IsData(files, f.at)
  BY <1>5 DEF IsData, IsFile
<1>8. f.at \in FindDataFile(files)
  <2>1. ASSUME NEW g \in files, IsStrictPrefix(DirOf(g.at), DirOf(f.at))
        PROVE  FALSE
    <3>1. DirOf(f.at) = Input
      BY <1>3, <1>5
    <3>2. Len(DirOf(g.at)) <= Len(Input) /\ Len(Input) = 1 /\ DirOf(g.at) # Input
      BY <2>1, <3>1 DEF IsStrictPrefix, IsPrefix, Input
    <3>3. Len(g.at) - 1 <= 1 /\ Len(g.at) >= 2 /\ Len(g.at) \in Nat
      BY <1>2, <1>3, <3>2
    <3>4. \A j \in Nat : j - 1 <= 1 /\ j >= 2 => j = 2
      OBVIOUS
    <3>. QED
      BY <1>3, <3>2, <3>3, <3>4
  <2>. QED
    BY <1>6, <1>7, <2>1 DEF FindDataFile
<1>9. ASSUME NEW p \in FindDataFile(files)
      PROVE  IsFile(files, Input \o <<Last(p)>>)
  <2>1. PICK g \in files : p = g.at
    BY DEF FindDataFile
  <2>2. ~IsStrictPrefix(Input, DirOf(p))
    <3>1. DirOf(f.at) = Input
      BY <1>3, <1>5
    <3>. QED
      BY <1>6, <1>7, <3>1 DEF FindDataFile
  <2>3. ~(Len(DirOf(p)) >= 2)
    BY <1>1, <1>3, <2>1, <2>2, BelowOne DEF Input
  <2>4. Len(p) = 2
    <3>1. \A j \in Nat : j >= 2 /\ ~(j - 1 >= 2) => j = 2
      OBVIOUS
    <3>. QED
      BY <1>2, <1>3, <2>1, <2>3, <3>1
  <2>5. p \in Paths /\ p[1] = "input" /\ p[2] \in FileNames /\ Last(p) = p[2]
    <3>1. p \in Paths /\ p[1] = "input" /\ p \in Seq(FileNames) /\ 2 \in 1..Len(p)
      BY <1>2, <2>1, <2>4 DEF Paths
    <3>. QED
      BY <2>4, <3>1, ElementOfSeq DEF Last
  <2>6. p = <<"input", p[2]>>
    <3>1. \A b \in FileNames : p = <<"input", b>> <=> Len(p) = 2 /\ p[1] = "input" /\ p[2] = b
      BY <1>1, <2>5, BelowTwo
    <3>. QED
      BY <2>4, <2>5, <3>1
  <2>7. \A b \in FileNames : Input \o <<b>> = <<"input", b>>
    <3>. TAKE b \in FileNames
    <3>. DEFINE m == <<b>>
    <3>1. m \in Paths /\ Len(m) = 1 /\ m[1] = b
      BY DEF Paths
    <3>. HIDE DEF m
    <3>2. Input \o m = <<"input", m[1]>>
      BY <3>1, InInput
    <3>. QED
      BY <3>1, <3>2 DEF m
  <2>. QED
    BY <2>1, <2>5, <2>6, <2>7 DEF IsFile
<1>. QED
  BY <1>8, <1>9

LEMMA FindKeeps == Inv /\ Find => Inv'
<1>. SUFFICES ASSUME Inv, Find PROVE Inv'
  OBVIOUS
<1>1. /\ pc = "find" /\ pc' = "run" /\ UNCHANGED <<kind, contents, files>>
      /\ dataPath' \in {<<Last(p)>> : p \in IF FindDataFile(files) = {} THEN {Input}
                                                                        ELSE FindDataFile(files)}
  BY DEF Find, Goto
<1>2. Late /\ Late'
  BY <1>1 DEF Late
<1>3. PathLeads'
  <2>1. ASSUME AtHand, kind = "plain"
        PROVE  IsFile(files, Input \o dataPath')
    <3>1. files = {File(<<"input", "input">>, Input)}
      BY <1>2, <2>1 DEF Inv
    <3>2. \A f \in files : f.at = <<"input", "input">> /\ Last(f.at) = "input"
      BY <3>1 DEF File, Last
    <3>3. FindDataFile(files) = {}
      BY <3>2, DatasetAssumption DEF FindDataFile, IsData
    <3>4. dataPath' = Input
      <4>1. Last(Input) = "input"
        BY DEF Last, Input
      <4>. QED
        BY <1>1, <3>3, <4>1 DEF Input
    <3>5. Input \o Input = <<"input", "input">>
      <4>1. Input \in Paths /\ Len(Input) = 1 /\ Input[1] = "input"
        BY DatasetAssumption DEF Paths, FileNames, Input
      <4>. QED
        BY <4>1, InInput
    <3>. QED
      BY <3>1, <3>2, <3>4, <3>5 DEF IsFile
  <2>2. ASSUME AtHand, kind # "plain"
        PROVE  IsFile(files, Input \o dataPath')
    <3>1. Traced(files) /\ OnTop(files)
      BY <1>2, <2>2 DEF Inv
    <3>2. PICK p \in FindDataFile(files) : dataPath' = <<Last(p)>>
      BY <1>1, <3>1, FoundOnTop
    <3>. QED
      BY <3>1, <3>2, FoundOnTop
  <2>3. AtHand' = AtHand
    BY <1>1 DEF AtHand
  <2>. QED
    BY <1>1, <2>1, <2>2, <2>3 DEF PathLeads, IsFile
<1>. QED
  BY <1>1, <1>2, <1>3 DEF Inv, Traced, Saved, OnTop, AtHand

LEMMA InvStep == Inv /\ [Next]_vars => Inv'
<1>1. Inv /\ UNCHANGED vars => Inv'
  BY DEF vars, Inv, Late, PathLeads, Traced, Saved, OnTop, AtHand, IsFile
<1>. QED
  BY <1>1, RefuseKeeps, StreamKeeps, ExtractKeeps, KaggleKeeps, NormaliseKeeps, SanitiseKeeps,
     FindKeeps DEF Next

-----------------------------------------------------------------------------

\* The notebook of a dataset with a data file at hand is given the path of a file
\* that is there.
THEOREM PathLeadsCorrect == Spec => []PathLeads
  BY InvInit, InvStep, InvImplies, PTL DEF Spec

\* A member of a dataset is lost only to another that takes its name, or if it is
\* called like the download.
THEOREM MembersKeptCorrect == Spec => []MembersKept
  BY InvInit, InvStep, InvImplies, PTL DEF Spec
=============================================================================
