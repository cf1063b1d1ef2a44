------------------------------ MODULE TreeProofs ------------------------------
(***************************************************************************)
(* Proofs about Parser, for every family of texts and every bound: what    *)
(* the tree that it makes has to do with the text.                         *)
(***************************************************************************)
EXTENDS ParserProofs

USE DEF Place, PrivateHeads, ImportHeads, NotInImport, PrivateBefore, VarRead, BeforeFun,
        FunRead, ImportRead, Braces, InBody, IdRead, Named, Starts, NodeDue, NodeRead,
        FunDue, FunSoFar, Sees, On, NeedsNode, MakesNode, MakesFun

-----------------------------------------------------------------------------
(* The next token: what was read before it stays as it was. *)

LEMMA CountStep ==
  ASSUME NEW t, NEW k \in Nat, NEW tag
  PROVE  /\ Count(t, k, tag) \in Nat
         /\ Count(t, k + 1, tag) = Count(t, k, tag) + IF t[k + 1] = tag THEN 1 ELSE 0
<1>. DEFINE S == {j \in 1..k : t[j] = tag}
            T == {j \in 1..(k + 1) : t[j] = tag}
<1>1. IsFiniteSet(S) /\ Cardinality(S) \in Nat
  <2>1. IsFiniteSet(1..k) /\ S \subseteq 1..k
    BY FS_Interval
  <2>2. IsFiniteSet(S)
    BY <2>1, FS_Subset
  <2>. QED
    BY <2>2, FS_CardinalityType
<1>2. CASE t[k + 1] = tag
  <2>1. T = S \cup {k + 1} /\ k + 1 \notin S
    BY <1>2
  <2>. HIDE DEF S, T
  <2>2. Cardinality(S \cup {k + 1}) = Cardinality(S) + 1
    BY <1>1, <2>1, FS_AddElement
  <2>3. Cardinality(T) = Cardinality(S) + 1
    BY <2>1, <2>2
  <2>. QED
    BY <1>1, <1>2, <2>3 DEF Count, S, T
<1>3. CASE t[k + 1] # tag
  <2>1. T = S
    BY <1>3
  <2>. QED
    BY <1>1, <1>3, <2>1 DEF Count
<1>. QED
  BY <1>2, <1>3

LEMMA DepthStep ==
  ASSUME NEW t, NEW k \in Nat
  PROVE  /\ Depth(t, k) \in Int
         /\ t[k + 1] = "LPG" => Depth(t, k + 1) = Depth(t, k) + 1
         /\ t[k + 1] = "RPG" => Depth(t, k + 1) = Depth(t, k) - 1
         /\ t[k + 1] \notin {"LPG", "RPG"} => Depth(t, k + 1) = Depth(t, k)
<1>1. /\ Count(t, k, "LPG") \in Nat /\ Count(t, k, "RPG") \in Nat
      /\ Count(t, k + 1, "LPG") = Count(t, k, "LPG") + IF t[k + 1] = "LPG" THEN 1 ELSE 0
      /\ Count(t, k + 1, "RPG") = Count(t, k, "RPG") + IF t[k + 1] = "RPG" THEN 1 ELSE 0
  BY CountStep
<1>. QED
  BY <1>1 DEF Depth

LEMMA IsLater ==
  ASSUME NEW t \in Seq(Tag), NEW tag \in Tag, NEW k \in Int, k <= Len(t)
  PROVE  LET u == Append(t, tag) IN
         /\ \A x : Is(u, k, x) <=> Is(t, k, x)
         /\ \A x : Count(u, k, x) = Count(t, k, x)
         /\ Depth(u, k) = Depth(t, k)
<1>. DEFINE u == Append(t, tag)
<1>1. /\ Len(t) \in Nat /\ Len(u) = Len(t) + 1
      /\ \A j \in 1..Len(t) : u[j] = t[j]
  OBVIOUS
<1>. HIDE DEF u
<1>2. \A x : Is(u, k, x) <=> Is(t, k, x)
  BY <1>1 DEF Is
<1>3. \A x : Count(u, k, x) = Count(t, k, x)
  <2>1. \A j \in 1..k : j \in 1..Len(t)
    BY <1>1
  <2>2. ASSUME NEW x PROVE {j \in 1..k : u[j] = x} = {j \in 1..k : t[j] = x}
    BY <1>1, <2>1
  <2>. QED
    BY <2>2 DEF Count
<1>. QED
  BY <1>2, <1>3 DEF Depth, u

LEMMA NamesLater ==
  ASSUME NEW t \in Seq(Tag), NEW tag \in Tag, NEW name, Names(t, name)
  PROVE  /\ Names(Append(t, tag), name)
         /\ name[1] \in Nat /\ LastOf(name) \in Nat
         /\ name[1] <= Len(t) /\ name[1] <= LastOf(name) /\ LastOf(name) <= Len(t)
<1>. DEFINE u == Append(t, tag)
            m == Len(name)
<1>1. name \in Seq(Nat) /\ m \in Nat /\ 1 \in 1..m /\ m \in 1..m /\ Len(t) \in Nat
  BY DEF Names, Name
<1>2. \A n \in 1..m : /\ name[n] = name[1] + 2 * (n - 1) /\ name[n] \in 1..Len(t)
                      /\ Is(t, name[n], "ID")
  BY DEF Names, Is
<1>3. \A n \in 1..m : Is(u, name[n], "ID")
  BY <1>1, <1>2, IsLater
<1>4. ASSUME NEW n \in 1..(m - 1) PROVE Is(u, name[n] + 1, "DOT")
  <2>1. n \in 1..m /\ Is(t, name[n] + 1, "DOT")
    BY <1>1 DEF Names
  <2>2. name[n] + 1 \in Int /\ name[n] + 1 <= Len(t)
    BY <1>1, <1>2, <2>1 DEF Is
  <2>. QED
    BY <2>1, <2>2, IsLater
<1>5. name[1] <= name[m]
  <2>1. name[m] = name[1] + 2 * (m - 1) /\ name[1] \in Nat
    BY <1>1, <1>2
  <2>. QED
    BY <1>1, <2>1
<1>6. name[1] \in 1..Len(t) /\ name[m] \in 1..Len(t)
  BY <1>1, <1>2
<1>. QED
  BY <1>1, <1>2, <1>3, <1>4, <1>5, <1>6 DEF Names, LastOf

LEMMA WholeLater ==
  ASSUME NEW t \in Seq(Tag), NEW tag \in Tag, NEW name, Whole(t, name)
  PROVE  Whole(Append(t, tag), name)
<1>1. Names(t, name) /\ LastOf(name) < Len(t) /\ ~Is(t, LastOf(name) + 1, "DOT")
  BY DEF Whole
<1>2. Names(Append(t, tag), name) /\ LastOf(name) \in Nat
  BY <1>1, NamesLater
<1>3. /\ Len(t) \in Nat /\ Len(Append(t, tag)) = Len(t) + 1
      /\ LastOf(name) + 1 \in Int /\ LastOf(name) + 1 <= Len(t)
  BY <1>1, <1>2
<1>. QED
  BY <1>1, <1>2, <1>3, IsLater DEF Whole

LEMMA StatLater ==
  ASSUME NEW t \in Seq(Tag), NEW tag \in Tag, NEW node_ \in Stat, StatRead(t, node_)
  PROVE  LET u == Append(t, tag) IN
         /\ StatRead(u, node_)
         /\ IsPrivateStat(u, node_) <=> IsPrivateStat(t, node_)
         /\ StatFlag(u, node_) <=> StatFlag(t, node_)
         /\ Depth(u, FirstName(node_)) = Depth(t, FirstName(node_))
         /\ FirstName(node_) < Len(u)
<1>. DEFINE u == Append(t, tag)
<1>1. Len(t) \in Nat /\ Len(u) = Len(t) + 1
  OBVIOUS
<1>2. FirstName(node_) \in Nat /\ FirstName(node_) < Len(t)
  BY StatInText
<1>3. Depth(u, FirstName(node_)) = Depth(t, FirstName(node_)) /\ FirstName(node_) < Len(u)
  BY <1>1, <1>2, IsLater
<1>. HIDE DEF u
<1>4. CASE node_.type = "STAT_VAR_DECL"
  <2>. DEFINE k == node_.name
  <2>1. k \in Nat /\ k < Len(t)
    BY <1>2, <1>4 DEF FirstName
  <2>. HIDE DEF k
  <2>2. k \in Int /\ k <= Len(t) /\ k - 1 \in Int /\ k - 1 <= Len(t)
        /\ k - 2 \in Int /\ k - 2 <= Len(t) /\ k < Len(u)
    BY <1>1, <2>1
  <2>3. \A x : /\ Is(u, k, x) <=> Is(t, k, x)
               /\ Is(u, k - 1, x) <=> Is(t, k - 1, x)
               /\ Is(u, k - 2, x) <=> Is(t, k - 2, x)
    BY <2>2, IsLater DEF u
  <2>. QED
    BY <1>3, <1>4, <2>2, <2>3 DEF StatRead, IsPrivateStat, StatFlag, k, u
<1>5. CASE node_.type # "STAT_VAR_DECL"
  <2>. DEFINE k == LastOf(node_.name)
  <2>1. Whole(t, node_.name) /\ Whole(u, node_.name)
    BY <1>5, WholeLater DEF StatRead, u
  <2>2. k \in Nat /\ k < Len(t)
    BY <2>1, NamesLater DEF Whole
  <2>. HIDE DEF k
  <2>3. k + 1 \in Int /\ k + 1 <= Len(t)
    BY <1>1, <2>2
  <2>4. \A x : Is(u, k + 1, x) <=> Is(t, k + 1, x)
    BY <2>3, IsLater DEF u
  <2>. QED
    BY <1>3, <1>5, <2>1, <2>4 DEF StatRead, IsPrivateStat, StatFlag, k, u
<1>. QED
  BY <1>4, <1>5

LEMMA FunLater ==
  ASSUME NEW t \in Seq(Tag), NEW tag \in Tag, NEW f \in FunDef,
         SignatureRead(t, f), BodyRead(t, f)
  PROVE  LET u == Append(t, tag) IN
         /\ SignatureRead(u, f) /\ BodyRead(u, f)
         /\ IsNativeFun(u, f) <=> IsNativeFun(t, f)
         /\ IsPrivateFun(u, f) <=> IsPrivateFun(t, f)
<1>. DEFINE u == Append(t, tag)
            k == f.name
<1>1. /\ Len(t) \in Nat /\ Len(u) = Len(t) + 1 /\ k \in Nat /\ k < Len(t)
      /\ f.stats \in Seq(Stat)
  BY DEF SignatureRead, FunDef, Name
<1>2. /\ k \in Int /\ k <= Len(t) /\ k < Len(u) /\ k - 1 \in Int /\ k - 1 <= Len(t)
      /\ k - 2 \in Int /\ k - 2 <= Len(t) /\ k - 3 \in Int /\ k - 3 <= Len(t)
  BY <1>1
<1>. HIDE DEF u, k
<1>3. \A x : /\ Is(u, k, x) <=> Is(t, k, x)
             /\ Is(u, k - 1, x) <=> Is(t, k - 1, x)
             /\ Is(u, k - 2, x) <=> Is(t, k - 2, x)
             /\ Is(u, k - 3, x) <=> Is(t, k - 3, x)
  BY <1>2, IsLater DEF u
<1>4. IsNativeFun(u, f) <=> IsNativeFun(t, f)
  BY <1>3 DEF IsNativeFun, k
<1>5. IsPrivateFun(u, f) <=> IsPrivateFun(t, f)
  BY <1>3, <1>4 DEF IsPrivateFun, k
<1>6. SignatureRead(u, f)
  BY <1>2, <1>3 DEF SignatureRead, k
<1>7. ASSUME NEW j \in 1..Len(f.stats)
      PROVE  /\ StatRead(u, f.stats[j]) /\ StatFlag(u, f.stats[j])
             /\ Depth(u, FirstName(f.stats[j])) # 0
             /\ FirstName(f.stats[j]) < Len(u)
  <2>1. f.stats[j] \in Stat
    BY <1>1
  <2>. QED
    BY <2>1, StatLater DEF BodyRead, u
<1>8. BodyRead(u, f)
  BY <1>4, <1>7 DEF BodyRead
<1>. QED
  BY <1>4, <1>5, <1>6, <1>8 DEF u

LEMMA ListsLater ==
  ASSUME NEW t \in Seq(Tag), NEW tag \in Tag, NEW list \in Seq(Stat \cup FunDef),
         NEW imported, ImportsRead(t, imported), ProgramRead(t, list)
  PROVE  ImportsRead(Append(t, tag), imported) /\ ProgramRead(Append(t, tag), list)
<1>. DEFINE u == Append(t, tag)
<1>1. Len(t) \in Nat /\ Len(u) = Len(t) + 1
  OBVIOUS
<1>2. ImportsRead(u, imported)
  <2>. SUFFICES ASSUME NEW i \in 1..Len(imported)
                PROVE  Whole(u, imported[i]) /\ Is(u, imported[i][1] - 1, "IMPORT")
    BY DEF ImportsRead
  <2>1. Whole(t, imported[i]) /\ Is(t, imported[i][1] - 1, "IMPORT")
    BY DEF ImportsRead
  <2>2. imported[i][1] \in Nat /\ imported[i][1] <= Len(t)
    BY <2>1, NamesLater DEF Whole
  <2>3. imported[i][1] - 1 \in Int /\ imported[i][1] - 1 <= Len(t)
    BY <1>1, <2>2
  <2>. QED
    BY <2>1, <2>3, WholeLater, IsLater
<1>3. ASSUME NEW i \in 1..Len(list) PROVE ElementRead(u, list[i])
  <2>1. ElementRead(t, list[i]) /\ list[i] \in Stat \cup FunDef
    BY DEF ProgramRead
  <2>2. CASE list[i].type = "PROGRAM_FUNDEF"
    <3>1. list[i] \in FunDef
      BY <2>1, <2>2 DEF Stat, VarDecl
    <3>. QED
      BY <2>1, <2>2, <3>1, FunLater DEF ElementRead, FunFlags
  <2>3. CASE list[i].type # "PROGRAM_FUNDEF"
    <3>1. list[i] \in Stat
      BY <2>1, <2>3 DEF FunDef
    <3>. QED
      BY <2>1, <2>3, <3>1, StatLater DEF ElementRead
  <2>. QED
    BY <2>2, <2>3
<1>. HIDE DEF u
<1>4. Old(list, Len(u) - 1)
  <2>. SUFFICES ASSUME NEW i \in 1..Len(list) PROVE FirstName(list[i]) <= Len(u) - 1
    BY DEF Old
  <2>1. FirstName(list[i]) \in Nat /\ FirstName(list[i]) <= Len(t) - 1
    BY StartsAre DEF ProgramRead, Old
  <2>. QED
    BY <1>1, <2>1
<1>. QED
  BY <1>2, <1>3, <1>4 DEF ProgramRead, u

LEMMA SeesLater ==
  ASSUME NEW s, NEW t \in Seq(Tag), NEW tag \in Tag, NEW k \in Nat, k <= Len(t),
         NEW name, NEW node_, NEW f, NEW list,
         NodeDue(s) => node_ \in Stat, FunDue(s) => f \in FunDef,
         Sees(t, s, k, name, node_, f, list)
  PROVE  Sees(Append(t, tag), s, k, name, node_, f, list)
<1>. DEFINE u == Append(t, tag)
<1>1. /\ k \in Int /\ k - 1 \in Int /\ k - 1 <= Len(t) /\ k - 2 \in Int /\ k - 2 <= Len(t)
      /\ k - 3 \in Int /\ k - 3 <= Len(t) /\ (k - 2) - 1 = k - 3 /\ (k - 1) - 1 = k - 2
      /\ Len(t) \in Nat
  OBVIOUS
<1>2. /\ \A x : Is(u, k, x) <=> Is(t, k, x)
      /\ \A x : Is(u, k - 1, x) <=> Is(t, k - 1, x)
      /\ \A x : Is(u, k - 2, x) <=> Is(t, k - 2, x)
      /\ \A x : Is(u, k - 3, x) <=> Is(t, k - 3, x)
      /\ Depth(u, k) = Depth(t, k)
  BY <1>1, IsLater
<1>3. ASSUME Names(t, name)
      PROVE  /\ Names(u, name) /\ Depth(u, name[1]) = Depth(t, name[1])
             /\ Is(u, name[1] - 1, "IMPORT") <=> Is(t, name[1] - 1, "IMPORT")
             /\ Whole(t, name) => Whole(u, name)
  <2>1. Names(u, name) /\ name[1] \in Nat /\ name[1] <= Len(t)
    BY <1>3, NamesLater
  <2>2. name[1] \in Int /\ name[1] - 1 \in Int /\ name[1] - 1 <= Len(t)
    BY <1>1, <2>1
  <2>. QED
    BY <2>1, <2>2, IsLater, WholeLater
<1>. HIDE DEF u
<1>4. Place(s) /\ VarRead(u, s, k) /\ FunRead(u, s, k) /\ ImportRead(u, s, k) /\ Braces(u, s, k)
  BY <1>1, <1>2
<1>5. IdRead(u, s, k, name, list)
  BY <1>2, <1>3
<1>6. NodeDue(s) => NodeRead(u, s, node_, list)
  BY StatLater DEF u
<1>7. FunDue(s) => FunSoFar(u, s, f, list)
  BY FunLater DEF u
<1>. QED
  BY <1>4, <1>5, <1>6, <1>7 DEF u

\* Only one item of a level, but for that of expressions, is on the stack.
LEMMA OneOf ==
  ASSUME NEW s, Shaped(s), NEW x \in Item \ Tag, NEW y \in Item \ Tag, x # y,
         Level(x) = Level(y), Level(x) # 3, Below(s, x)
  PROVE  ~Below(s, y)
<1>. SUFFICES ASSUME Below(s, y) PROVE FALSE
  OBVIOUS
<1>1. PICK i \in 2..Len(s) : s[i] = x
  BY DEF Below
<1>2. PICK j \in 2..Len(s) : s[j] = y
  BY DEF Below
<1>3. Len(s) \in Nat /\ i \in 1..Len(s) /\ j \in 1..Len(s) /\ (i < j \/ j < i)
  BY <1>1, <1>2 DEF Shaped
<1>4. Above(x, y) \/ Above(y, x)
  BY <1>1, <1>2, <1>3 DEF Shaped, Ordered
<1>. QED
  BY <1>4, LevelIsNat DEF Above

\* The code after the ID of a name, of which one at most is on the stack
NameCode ==
  {"qid:id", "qidp:id", "statvardecl:const", "statvardecl:var", "funsig:fun", "funarg:arg"}

LEMMA OneCode ==
  ASSUME NEW s, Shaped(s), NEW x \in NameCode, NEW y \in NameCode, Below(s, x), Below(s, y)
  PROVE  x = y
<1>1. \A z \in NameCode : z \in Item \ Tag /\ Level(z) = 1
  BY Levels, ItemsAre DEF NameCode
<1>. QED
  BY <1>1, OneOf

\* A tag that is matched is read.
Read(s, n, t, k, list) ==
  /\ Shaped(s) /\ s # << >> /\ Returns(s, n)
  /\ k \in Nat /\ Is(t, k + 1, s[1]) /\ Old(list, k)

Seen(s, n, t, k, list) ==
  \A name, node_, f :
    Sees(t, s, k, name, node_, f, list) => Sees(t, n, k + 1, name, node_, f, list)

LEMMA ReadIs ==
  ASSUME NEW s, NEW n, NEW t, NEW k, NEW list, Read(s, n, t, k, list)
  PROVE  /\ k \in Int /\ (k + 1) - 1 = k /\ (k + 1) - 2 = k - 1 /\ (k + 1) - 3 = k - 2
         /\ n[1] \in NextTo(s[1])
         /\ \A x : Below(s, x) <=> x = n[1] \/ Below(n, x)
         /\ \A x : Is(t, k + 1, x) <=> x = s[1]
         /\ Old(list, k)
         /\ Depth(t, k) \in Int
         /\ s[1] = "LPG" => Depth(t, k + 1) = Depth(t, k) + 1
         /\ s[1] = "RPG" => Depth(t, k + 1) = Depth(t, k) - 1
         /\ s[1] \notin {"LPG", "RPG"} => Depth(t, k + 1) = Depth(t, k)
<1>1. t[k + 1] = s[1] /\ \A x : Is(t, k + 1, x) <=> x = s[1]
  BY DEF Read, Is
<1>2. k \in Nat
  BY DEF Read
<1>. QED
  BY <1>1, <1>2, DepthStep DEF Read, Returns, Returned

LEMMA PlainSeen ==
  ASSUME NEW s, NEW n, NEW t, NEW k, NEW list, Read(s, n, t, k, list),
         s[1] \in {"COMMA", "LPT", "RPT", "NUM", "ASSIGN"}
  PROVE  Seen(s, n, t, k, list)
<1>1. n[1] \in AfterExpr \cup {"statlist", "nativefundef:fun", "expr", "funarglistp:min",
                             "funarg", "invokearglist", "funarglist"}
  BY ReadIs DEF NextTo
<1>. QED
  BY <1>1, ReadIs DEF AfterExpr, Seen

LEMMA ImportSeen ==
  ASSUME NEW s, NEW n, NEW t, NEW k, NEW list, Read(s, n, t, k, list),
         s[1] = "IMPORT"
  PROVE  Seen(s, n, t, k, list)
<1>1. n[1] = "qid"
  BY ReadIs DEF NextTo
<1>. QED
  BY <1>1, ReadIs DEF Seen

LEMMA PrivateSeen ==
  ASSUME NEW s, NEW n, NEW t, NEW k, NEW list, Read(s, n, t, k, list),
         s[1] = "PRIVATE"
  PROVE  Seen(s, n, t, k, list)
<1>1. n[1] = "privatefilep"
  BY ReadIs DEF NextTo
<1>. QED
  BY <1>1, ReadIs DEF Seen

LEMMA NativeSeen ==
  ASSUME NEW s, NEW n, NEW t, NEW k, NEW list, Read(s, n, t, k, list),
         s[1] = "NATIVE"
  PROVE  Seen(s, n, t, k, list)
<1>1. n[1] = "funsig"
  BY ReadIs DEF NextTo
<1>. QED
  BY <1>1, ReadIs DEF Seen

LEMMA LpgSeen ==
  ASSUME NEW s, NEW n, NEW t, NEW k, NEW list, Read(s, n, t, k, list),
         s[1] = "LPG"
  PROVE  Seen(s, n, t, k, list)
<1>1. n[1] = "statlistp"
  BY ReadIs DEF NextTo
<1>. QED
  BY <1>1, ReadIs DEF Seen

LEMMA ConstSeen ==
  ASSUME NEW s, NEW n, NEW t, NEW k, NEW list, Read(s, n, t, k, list),
         s[1] = "CONST"
  PROVE  Seen(s, n, t, k, list)
<1>1. n[1] = "ID"
  BY ReadIs DEF NextTo
<1>2. ASSUME Place(s)
      PROVE  /\ ~Below(s, "qid:id")
             /\ ~Below(s, "qidp:id")
             /\ ~Below(s, "statvardecl:var")
             /\ ~Below(s, "funsig:fun")
  BY <1>2, OneCode DEF NameCode, Read
<1>. QED
  BY <1>1, <1>2, ReadIs DEF Seen

LEMMA VarSeen ==
  ASSUME NEW s, NEW n, NEW t, NEW k, NEW list, Read(s, n, t, k, list),
         s[1] = "VAR"
  PROVE  Seen(s, n, t, k, list)
<1>1. n[1] = "ID"
  BY ReadIs DEF NextTo
<1>2. ASSUME Place(s)
      PROVE  /\ ~Below(s, "qid:id")
             /\ ~Below(s, "qidp:id")
             /\ ~Below(s, "statvardecl:const")
             /\ ~Below(s, "funsig:fun")
  BY <1>2, OneCode DEF NameCode, Read
<1>. QED
  BY <1>1, <1>2, ReadIs DEF Seen

LEMMA FunSeen ==
  ASSUME NEW s, NEW n, NEW t, NEW k, NEW list, Read(s, n, t, k, list),
         s[1] = "FUN"
  PROVE  Seen(s, n, t, k, list)
<1>1. n[1] = "ID"
  BY ReadIs DEF NextTo
<1>2. ASSUME Place(s)
      PROVE  /\ ~Below(s, "qid:id")
             /\ ~Below(s, "qidp:id")
             /\ ~Below(s, "statvardecl:const")
             /\ ~Below(s, "statvardecl:var")
  BY <1>2, OneCode DEF NameCode, Read
<1>. QED
  BY <1>1, <1>2, ReadIs DEF Seen

LEMMA DotSeen ==
  ASSUME NEW s, NEW n, NEW t, NEW k, NEW list, Read(s, n, t, k, list),
         s[1] = "DOT"
  PROVE  Seen(s, n, t, k, list)
<1>1. n[1] = "ID"
  BY ReadIs DEF NextTo
<1>2. ASSUME Place(s)
      PROVE  /\ ~Below(s, "qid:id")
             /\ ~Below(s, "statvardecl:const")
             /\ ~Below(s, "statvardecl:var")
             /\ ~Below(s, "funsig:fun")
  BY <1>2, OneCode DEF NameCode, Read
<1>. QED
  BY <1>1, <1>2, ReadIs DEF Seen

LEMMA RpgSeen ==
  ASSUME NEW s, NEW n, NEW t, NEW k, NEW list, Read(s, n, t, k, list),
         s[1] = "RPG"
  PROVE  Seen(s, n, t, k, list)
<1>1. n[1] \in {"filep:add_fundef", "privatefilep:fundef"}
  BY ReadIs DEF NextTo
<1>2. \A x : Below(n, x) => Above(n[1], x)
  BY Apart DEF Read, Returns
<1>3. ~Below(n, "statlistp")
  BY <1>1, <1>2, Levels, ItemsAre DEF Above
<1>. QED
  BY <1>1, <1>3, ReadIs DEF Seen

LEMMA IdSeen ==
  ASSUME NEW s, NEW n, NEW t, NEW k, NEW list, Read(s, n, t, k, list),
         s[1] = "ID"
  PROVE  Seen(s, n, t, k, list)
<1>1. n[1] \in {"qid:id", "qidp:id", "statvardecl:const", "statvardecl:var",
               "funsig:fun", "funarg:arg"}
  BY ReadIs DEF NextTo
<1>. QED
  BY <1>1, ReadIs DEF Seen

HIDE DEF Place, PrivateHeads, ImportHeads, NotInImport, PrivateBefore, VarRead, BeforeFun,
         FunRead, ImportRead, Braces, InBody, IdRead, Named, Starts, NodeDue, NodeRead,
         FunDue, FunSoFar, Sees, On, NeedsNode, MakesNode, MakesFun

-----------------------------------------------------------------------------
(* The steps *)

\* A statement or a definition that is due has been made.
LEMMA DueTyped ==
  ASSUME TypeInv, stack # << >>
  PROVE  /\ NodeDue(stack) => node \in Stat
         /\ FunDue(stack) => fun \in FunDef
<1>s. stack \in Seq(Item) /\ Len(stack) \in Nat /\ 1 \in 1..Len(stack)
  BY StackTyped DEF TypeInv
<1>1. ASSUME NEW x, On(stack, x) PROVE \E i \in 1..Len(stack) : stack[i] = x
  <2>1. CASE stack[1] = x
    BY <1>s, <2>1
  <2>2. CASE Below(stack, x)
    BY <1>s, <2>2 DEF Below
  <2>. QED
    BY <1>1, <2>1, <2>2 DEF On
<1>2. ASSUME NEW i \in 1..Len(stack), NEW S, Before(stack, i, S)
      PROVE  \E x \in S : On(stack, x)
  <2>1. PICK j \in 1..(i - 1) : stack[j] \in S
    BY <1>2 DEF Before
  <2>2. j = 1 \/ j \in 2..Len(stack)
    BY <1>s
  <2>. QED
    BY <2>1, <2>2 DEF On, Below
<1>3. ASSUME NodeDue(stack) PROVE node \in Stat
  <2>1. PICK x \in NeedsNode : On(stack, x)
    BY <1>3 DEF NodeDue
  <2>2. PICK i \in 1..Len(stack) : stack[i] = x
    BY <1>1, <2>1
  <2>3. ~Before(stack, i, MakesNode)
    BY <1>2, <1>3 DEF NodeDue
  <2>. QED
    BY <2>1, <2>2, <2>3 DEF TypeInv, StackReady, WaitsFor
<1>4. ASSUME FunDue(stack) PROVE fun \in FunDef
  <2>1. "filep:add_fundef" \in NeedsFun /\ On(stack, "filep:add_fundef")
    BY <1>4 DEF FunDue, NeedsFun
  <2>2. PICK i \in 1..Len(stack) : stack[i] = "filep:add_fundef"
    BY <1>1, <2>1
  <2>3. ~Before(stack, i, MakesFun)
    BY <1>2, <1>4 DEF FunDue
  <2>. QED
    BY <2>1, <2>2, <2>3 DEF TypeInv, StackReady, WaitsFor
<1>. QED
  BY <1>3, <1>4

SeesHere == Sees(tokens, stack, prev, id, node, fun, stats)

\* A step of a function, which reads nothing
LEMMA TurnKept ==
  ASSUME TreeInv, NEW p, At(p), tokens' = tokens, mismatch' = mismatch, Shaped(stack'),
         mismatch = 0 /\ SeesHere =>
           /\ ImportsRead(tokens, imports') /\ ProgramRead(tokens, stats')
           /\ stack' # << >> => Sees(tokens, stack', prev, id', node', fun', stats')
  PROVE  TreeInv'
<1>1. outcome = "parsing" /\ stack # << >>
  BY DEF At
<1>2. prev' = prev
  BY DEF prev
<1>3. mismatch = 0 => SeesHere
  BY <1>1 DEF TreeInv, SeesHere
<1>. QED
  BY <1>2, <1>3 DEF TreeInv

LEMMA EndKept ==
  ASSUME TreeInv, UNCHANGED <<tokens, stack, imports, stats, mismatch>>, outcome' # "parsing"
  PROVE  TreeInv'
BY DEF TreeInv

LEMMA StopKeepsTree ==
  ASSUME TreeInv, NEW how, how # "parsing", Stop(how)
  PROVE  TreeInv'
BY EndKept DEF Stop, tree

LEMMA DefaultKeepsTree ==
  ASSUME TreeInv, NEW p, NEW tags, Default(p, tags)
  PROVE  TreeInv'
<1>1. PICK how : how = "unexpected token"
  OBVIOUS
<1>2. how # "parsing"
  BY <1>1
<1>3. Stop(how)
  BY <1>1 DEF Default
<1>. QED
  BY <1>2, <1>3, StopKeepsTree

LEMMA AtIs ==
  ASSUME TreeInv, NEW p, At(p)
  PROVE  /\ Shaped(stack) /\ stack # << >> /\ stack[1] = p
         /\ Shaped(<< >> \o Tail(stack)) /\ Returned(stack, << >> \o Tail(stack))
         /\ mismatch = 0 =>
              SeesHere /\ ImportsRead(tokens, imports) /\ ProgramRead(tokens, stats)
<1>1. Shaped(stack) /\ stack # << >> /\ Head(stack) = p
  BY DEF TreeInv, At
<1>2. stack \in Seq(Item)
  BY <1>1 DEF Shaped
<1>3. stack[1] = p
  BY <1>1, <1>2
<1>4. << >> \in Seq(Item) /\ << >> = << >>
  OBVIOUS
<1>5. Shaped(<< >> \o Tail(stack))
  BY <1>1, <1>4, ShapedKept
<1>. QED
  BY <1>1, <1>3, <1>5, ReturnedIs DEF TreeInv, SeesHere, At

\* A case that calls
LEMMA CallsKept ==
  ASSUME TreeInv, NEW p, NEW tags, NEW todo, Case(p, tags, todo),
         Shaped(stack) /\ stack # << >> /\ stack[1] = p => Carries(stack, todo \o Tail(stack))
  PROVE  TreeInv'
<1>1. At(p) /\ stack' = todo \o Tail(stack) /\ UNCHANGED <<tokens, tree, mismatch>>
  BY DEF Case, Then, Keep
<1>2. Carries(stack, stack')
  BY <1>1, AtIs
<1>3. Shaped(stack')
  BY <1>2 DEF Carries
<1>4. mismatch = 0 /\ SeesHere => Sees(tokens, stack', prev, id, node, fun, stats)
  BY <1>2 DEF Carries, SeesHere
<1>. QED
  BY <1>1, <1>3, <1>4, AtIs, TurnKept DEF tree

\* A case that returns
LEMMA ReturnKept ==
  ASSUME TreeInv, NEW p, NEW tags, Case(p, tags, << >>),
         \A n : Shaped(stack) /\ stack # << >> /\ stack[1] = p /\ Returns(stack, n) =>
                  Carries(stack, n)
  PROVE  TreeInv'
<1>1. At(p) /\ stack' = << >> \o Tail(stack) /\ UNCHANGED <<tokens, tree, mismatch>>
  BY DEF Case, Then, Keep
<1>2. stack' # << >> => Returns(stack, stack')
  BY <1>1, AtIs DEF Returns
<1>3. Shaped(stack')
  BY <1>1, AtIs
<1>4. mismatch = 0 /\ SeesHere /\ stack' # << >> =>
        Sees(tokens, stack', prev, id, node, fun, stats)
  BY <1>1, <1>2, AtIs DEF Carries, SeesHere
<1>. QED
  BY <1>1, <1>3, <1>4, AtIs, TurnKept DEF tree

\* p->curr, once parse has got the first token
LEMMA CurrIs ==
  ASSUME TypeInv, NEW p, At(p), p # "parse"
  PROVE  /\ tokens \in Seq(Tag) /\ Len(tokens) \in Nat /\ curr = tokens[Len(tokens)]
         /\ prev = Len(tokens) - 1 /\ prev \in Nat /\ prev < Len(tokens)
         /\ curr \in Tag \ {"EOF"}
<1>1. tokens \in Seq(Tag \ {"EOF"}) /\ tokens # << >>
  <2>1. ASSUME tokens = << >> PROVE FALSE
    <3>1. stack = <<"parse", "file">>
      BY <2>1 DEF TypeInv, Ready
    <3>. QED
      BY <3>1 DEF At
  <2>. QED
    BY <2>1 DEF TypeInv, Ready
<1>2. Len(tokens) \in Nat /\ Len(tokens) \in 1..Len(tokens)
  BY <1>1
<1>. QED
  BY <1>1, <1>2 DEF prev, curr

\* Code after a call, which leaves the parser where it was in the text
LEMMA AfterKept ==
  ASSUME TreeInv, NEW code, After(code),
         stack[1] = code /\ Returns(stack, stack') /\ mismatch = 0 /\ SeesHere =>
           Sees(tokens, stack', prev, id', node', fun', stats'),
         stack[1] = code /\ Shaped(stack) /\ stack # << >> /\ mismatch = 0 /\ SeesHere
           /\ ImportsRead(tokens, imports) /\ ProgramRead(tokens, stats) =>
           ImportsRead(tokens, imports') /\ ProgramRead(tokens, stats')
  PROVE  TreeInv'
<1>1. At(code) /\ stack' = << >> \o Tail(stack) /\ UNCHANGED <<tokens, mismatch>>
  BY DEF After, Then
<1>2. stack' # << >> => Returns(stack, stack')
  BY <1>1, AtIs DEF Returns
<1>3. Shaped(stack')
  BY <1>1, AtIs
<1>. QED
  BY <1>1, <1>2, <1>3, AtIs, TurnKept

\* The functions whose cases call, and return, and do nothing else
LEMMA PlainKept ==
  ASSUME TypeInv, TreeInv,
         \/ file \/ stat \/ statvardeclp \/ assign \/ expr \/ literal \/ qidexprp
         \/ invokeargs \/ invokearglist \/ invokearglistp \/ fundef \/ funarglist
         \/ statlist
  PROVE  TreeInv'
<1>1. CASE file
  BY <1>1, CallsKept, FileCarries, DefaultKeepsTree DEF file
<1>2. CASE stat
  BY <1>2, CallsKept, StatCarries DEF stat
<1>3. CASE statvardeclp
  BY <1>3, CallsKept, StatvardeclpCarries, ReturnKept, PlainReturns, DefaultKeepsTree
     DEF statvardeclp, Returns
<1>4. CASE assign
  BY <1>4, CallsKept, AssignCarries, DefaultKeepsTree DEF assign
<1>5. CASE expr
  BY <1>5, CallsKept, ExprCarries, DefaultKeepsTree DEF expr
<1>6. CASE literal
  BY <1>6, CallsKept, LiteralCarries DEF literal
<1>7. CASE qidexprp
  BY <1>7, CallsKept, QidexprpCarries, ReturnKept, PlainReturns, DefaultKeepsTree
     DEF qidexprp, Returns
<1>8. CASE invokeargs
  BY <1>8, CallsKept, InvokeargsCarries DEF invokeargs
<1>9. CASE invokearglist
  BY <1>9, CallsKept, InvokearglistCarries, ReturnKept, PlainReturns, DefaultKeepsTree
     DEF invokearglist, Returns
<1>10. CASE invokearglistp
  <2>1. ASSUME After("invokearglistp:add"), UNCHANGED tree
        PROVE  TreeInv'
    <3>1. Shaped(stack) /\ stack # << >> /\ stack[1] = "invokearglistp:add"
      BY <2>1, AtIs DEF After
    <3>2. Returns(stack, stack') => Carries(stack, stack')
      BY <3>1, CodeReturns
    <3>3. UNCHANGED <<id, node, fun, imports, stats>>
      BY <2>1 DEF tree
    <3>. QED
      BY <2>1, <3>2, <3>3, AfterKept DEF Carries, SeesHere
  <2>2. Stop("crash") => TreeInv'
    BY StopKeepsTree
  <2>. QED
    BY <1>10, <2>1, <2>2, CallsKept, InvokearglistpCarries, ReturnKept, PlainReturns,
       DefaultKeepsTree DEF invokearglistp, Returns
<1>11. CASE fundef
  BY <1>11, CallsKept, FundefCarries DEF fundef
<1>12. CASE funarglist
  BY <1>12, CallsKept, FunarglistCarries, ReturnKept, PlainReturns, DefaultKeepsTree
     DEF funarglist, Returns
<1>13. CASE statlist
  BY <1>13, CallsKept, StatlistCarries, DefaultKeepsTree DEF statlist
<1>. QED
  BY <1>1, <1>2, <1>3, <1>4, <1>5, <1>6, <1>7, <1>8, <1>9, <1>10, <1>11, <1>12, <1>13

LEMMA ImportlistKept ==
  ASSUME TypeInv, TreeInv, importlist
  PROVE  TreeInv'
<1>1. CASE /\ After("importlist:add")
           /\ imports' = Append(imports, id)
           /\ UNCHANGED <<id, node, arg, fun, stats>>
  <2>1. id \in Seq(Name) /\ imports \in Seq(Seq(Name))
    BY TypeIs DEF TypeInv, TreeOK
  <2>2. Shaped(stack) /\ stack # << >>
    BY <1>1, AtIs DEF After
  <2>3. stack[1] = "importlist:add" /\ Returns(stack, stack') =>
          Carries(stack, stack')
    BY <2>2, CodeReturns
  <2>. QED
    BY <1>1, <2>1, <2>3, ImportAdded, AfterKept DEF Carries, SeesHere
<1>2. At("importlist:add") /\ Stop("abort") => TreeInv'
  BY StopKeepsTree
<1>. QED
  BY <1>1, <1>2, CallsKept, ImportlistCarries, ReturnKept, ImportlistReturns,
     DefaultKeepsTree DEF importlist, Returns

LEMMA FilepKept ==
  ASSUME TypeInv, TreeInv, filep
  PROVE  TreeInv'
<1>1. CASE Case("filep", {"PRIVATE"}, <<"PRIVATE", "privatefilep", "filep">>)
  BY <1>1, CallsKept, FilepCarries
<1>2. CASE Case("filep", {"NATIVE", "FUN"},
                <<IF curr = "NATIVE" THEN "nativefundef" ELSE "fundef",
                  "filep:add_fundef", "filep">>)
  <2>1. CASE curr = "NATIVE"
    BY <1>2, <2>1, CallsKept, FilepCarries
  <2>2. CASE curr # "NATIVE"
    BY <1>2, <2>2, CallsKept, FilepCarries
  <2>. QED
    BY <2>1, <2>2
<1>3. CASE Case("filep", {"CONST", "VAR", "ID", "EOF"},
                IF curr = "EOF" THEN << >> ELSE <<"stat", "filep:add_stat", "filep">>)
  <2>1. curr # "EOF"
    BY <1>3, CurrIs DEF Case
  <2>. QED
    BY <1>3, <2>1, CallsKept, FilepCarries
<1>4. ASSUME NEW code \in {"filep:add_fundef", "filep:add_stat"}, After(code),
             stats' = Append(stats, IF code = "filep:add_stat" THEN node ELSE fun),
             UNCHANGED <<id, node, arg, fun, imports>>
      PROVE  TreeInv'
  <2>1. Shaped(stack) /\ stack # << >> /\ stack[1] = code /\ Head(stack) = code
    BY <1>4, AtIs DEF After, At
  <2>2. /\ tokens \in Seq(Tag) /\ stats \in Seq(Stat \cup FunDef)
        /\ code = "filep:add_stat" => node \in Stat
        /\ code = "filep:add_fundef" => fun \in FunDef
    BY <1>4, <2>1, HeadNeeds, TypeIs DEF TypeInv, TreeOK, NeedsFun, NeedsNode
  <2>3. ASSUME SeesHere, Returns(stack, stack')
        PROVE  Sees(tokens, stack', prev, id, node, fun, stats')
    BY <1>4, <2>1, <2>3, AddedSees DEF SeesHere
  <2>4. ASSUME SeesHere, ProgramRead(tokens, stats) PROVE ProgramRead(tokens, stats')
    <3>1. CASE code = "filep:add_stat"
      BY <1>4, <2>1, <2>2, <2>4, <3>1, StatAdded DEF SeesHere
    <3>2. CASE code = "filep:add_fundef"
      BY <1>4, <2>1, <2>2, <2>4, <3>2, FunAdded DEF SeesHere
    <3>. QED
      BY <3>1, <3>2
  <2>. QED
    BY <1>4, <2>3, <2>4, AfterKept
<1>5. /\ At("filep:add_fundef") /\ Stop("abort") => TreeInv'
      /\ At("filep:add_stat") /\ Stop("abort") => TreeInv'
  BY StopKeepsTree
<1>. QED
  BY <1>1, <1>2, <1>3, <1>4, <1>5, DefaultKeepsTree DEF filep

LEMMA PrivatefilepKept ==
  ASSUME TypeInv, TreeInv, privatefilep
  PROVE  TreeInv'
<1>1. CASE Case("privatefilep", {"CONST", "VAR"},
                <<"statvardecl", "privatefilep:var", "filep:add_stat">>)
  BY <1>1, CallsKept, PrivatefilepCarries
<1>2. CASE Case("privatefilep", {"NATIVE", "FUN"},
                <<IF curr = "NATIVE" THEN "nativefundef" ELSE "fundef",
                  "privatefilep:fundef", "filep:add_fundef">>)
  <2>1. CASE curr = "NATIVE"
    BY <1>2, <2>1, CallsKept, PrivatefilepCarries
  <2>2. CASE curr # "NATIVE"
    BY <1>2, <2>2, CallsKept, PrivatefilepCarries
  <2>. QED
    BY <2>1, <2>2
<1>3. CASE /\ After("privatefilep:var")
           /\ node' = [node EXCEPT !.is_private = TRUE]
           /\ UNCHANGED <<id, arg, fun, imports, stats>>
  <2>1. Shaped(stack) /\ stack # << >> /\ stack[1] = "privatefilep:var"
    BY <1>3, AtIs DEF After
  <2>2. node \in Stat
    BY <1>3, HeadNeeds DEF After, At, NeedsNode
  <2>3. /\ node'.type = node.type /\ node'.name = node.name
        /\ node.type = "STAT_VAR_DECL" =>
             node'.is_const = node.is_const /\ node'.is_private = TRUE
    <3>1. CASE node \in VarDecl
      BY <1>3, <3>1 DEF VarDecl
    <3>2. CASE node \in [type : {"STAT_VAR_ASSIGN", "STAT_INVOKE"}, name : Seq(Name)]
      <4>1. [node EXCEPT !.is_private = TRUE] = node
        BY <3>2
      <4>. QED
        BY <1>3, <3>2, <4>1
    <3>. QED
      BY <2>2, <3>1, <3>2 DEF Stat
  <2>4. ASSUME SeesHere, Returns(stack, stack')
        PROVE  Sees(tokens, stack', prev, id', node', fun', stats')
    BY <1>3, <2>1, <2>3, <2>4, PrivateStatSees DEF SeesHere
  <2>. QED
    BY <1>3, <2>4, AfterKept
<1>4. CASE /\ After("privatefilep:fundef")
           /\ fun' = [fun EXCEPT !.is_private = TRUE]
           /\ UNCHANGED <<id, node, arg, imports, stats>>
  <2>1. Shaped(stack) /\ stack # << >> /\ stack[1] = "privatefilep:fundef"
    BY <1>4, AtIs DEF After
  <2>2. fun \in FunDef
    BY <1>4, HeadNeeds DEF After, At, NeedsFun
  <2>3. /\ fun'.name = fun.name /\ fun'.stats = fun.stats
        /\ fun'.is_native = fun.is_native /\ fun'.is_private = TRUE
    BY <1>4, <2>2 DEF FunDef
  <2>4. ASSUME SeesHere, Returns(stack, stack')
        PROVE  Sees(tokens, stack', prev, id', node', fun', stats')
    BY <1>4, <2>1, <2>3, <2>4, PrivateFunSees DEF SeesHere
  <2>. QED
    BY <1>4, <2>4, AfterKept
<1>. QED
  BY <1>1, <1>2, <1>3, <1>4, DefaultKeepsTree DEF privatefilep

LEMMA NativefundefKept ==
  ASSUME TypeInv, TreeInv, nativefundef
  PROVE  TreeInv'
<1>1. CASE Case("nativefundef", {"NATIVE"}, <<"NATIVE", "funsig", "nativefundef:fun">>)
  BY <1>1, CallsKept, NativefundefCarries
<1>2. CASE /\ After("nativefundef:fun")
           /\ fun' = [fun EXCEPT !.is_native = TRUE]
           /\ UNCHANGED <<id, node, arg, imports, stats>>
  <2>1. Shaped(stack) /\ stack # << >> /\ stack[1] = "nativefundef:fun"
    BY <1>2, AtIs DEF After
  <2>2. fun \in FunDef
    BY <1>2, HeadNeeds DEF After, At, NeedsFun
  <2>3. /\ fun'.name = fun.name /\ fun'.stats = fun.stats
        /\ fun'.is_native = TRUE /\ fun'.is_private = fun.is_private
    BY <1>2, <2>2 DEF FunDef
  <2>4. ASSUME SeesHere, Returns(stack, stack')
        PROVE  Sees(tokens, stack', prev, id', node', fun', stats')
    BY <1>2, <2>1, <2>3, <2>4, NativeFunSees DEF SeesHere
  <2>. QED
    BY <1>2, <2>4, AfterKept
<1>. QED
  BY <1>1, <1>2 DEF nativefundef

LEMMA QidKept ==
  ASSUME TypeInv, TreeInv, qid
  PROVE  TreeInv'
<1>1. CASE After("qid:id") /\ id' = <<prev>> /\ UNCHANGED <<node, arg, fun, imports, stats>>
  <2>1. /\ Shaped(stack) /\ stack # << >> /\ stack[1] = "qid:id" /\ prev \in Nat
    BY <1>1, AtIs, CurrIs DEF After
  <2>2. ASSUME SeesHere, Returns(stack, stack')
        PROVE  Sees(tokens, stack', prev, id', node', fun', stats')
    BY <1>1, <2>1, <2>2, QidSees DEF SeesHere
  <2>. QED
    BY <1>1, <2>2, AfterKept
<1>. QED
  BY <1>1, CallsKept, QidCarries, DefaultKeepsTree DEF qid

LEMMA QidpKept ==
  ASSUME TypeInv, TreeInv, qidp
  PROVE  TreeInv'
<1>1. CASE /\ After("qidp:id") /\ id' = Append(id, prev)
           /\ UNCHANGED <<node, arg, fun, imports, stats>>
  <2>1. /\ Shaped(stack) /\ stack # << >> /\ stack[1] = "qidp:id" /\ prev \in Nat
    BY <1>1, AtIs, CurrIs DEF After
  <2>2. ASSUME SeesHere, Returns(stack, stack')
        PROVE  Sees(tokens, stack', prev, id', node', fun', stats')
    BY <1>1, <2>1, <2>2, QidpSees DEF SeesHere
  <2>. QED
    BY <1>1, <2>2, AfterKept
<1>2. ASSUME NEW tags, Case("qidp", tags, << >>), "DOT" \notin tags
      PROVE  TreeInv'
  <2>1. At("qidp") /\ stack' = << >> \o Tail(stack) /\ UNCHANGED <<tokens, tree, mismatch>>
    BY <1>2 DEF Case, Then, Keep
  <2>2. /\ tokens \in Seq(Tag) /\ tokens[Len(tokens)] # "DOT" /\ prev = Len(tokens) - 1
    BY <1>2, <2>1, CurrIs DEF Case
  <2>3. /\ Shaped(stack) /\ stack # << >> /\ stack[1] = "qidp" /\ Shaped(stack')
        /\ stack' # << >> => Returned(stack, stack')
    BY <2>1, AtIs
  <2>4. SeesHere /\ stack' # << >> => Sees(tokens, stack', prev, id, node, fun, stats)
    BY <2>2, <2>3, QidpReturns DEF SeesHere
  <2>. QED
    BY <2>1, <2>3, <2>4, AtIs, TurnKept DEF tree
<1>3. At("qidp:id") /\ Stop("exit") => TreeInv'
  BY StopKeepsTree
<1>. QED
  BY <1>1, <1>2, <1>3, CallsKept, QidpCarries, DefaultKeepsTree DEF qidp

LEMMA StatvardeclKept ==
  ASSUME TypeInv, TreeInv, statvardecl
  PROVE  TreeInv'
<1>1. ASSUME NEW const \in BOOLEAN,
             NEW code, code = IF const THEN "statvardecl:const" ELSE "statvardecl:var",
             After(code),
             node' = [type |-> "STAT_VAR_DECL", is_const |-> const,
                      is_private |-> FALSE, name |-> prev],
             UNCHANGED <<id, arg, fun, imports, stats>>
      PROVE  TreeInv'
  <2>1. /\ Shaped(stack) /\ stack # << >> /\ stack[1] = code
        /\ tokens \in Seq(Tag) /\ prev \in Nat /\ prev < Len(tokens)
    BY <1>1, AtIs, CurrIs DEF After
  <2>2. ASSUME SeesHere, Returns(stack, stack')
        PROVE  Sees(tokens, stack', prev, id', node', fun', stats')
    BY <1>1, <2>1, <2>2, ConstSees DEF SeesHere
  <2>. QED
    BY <1>1, <2>2, AfterKept
<1>. QED
  BY <1>1, CallsKept, StatvardeclCarries DEF statvardecl

LEMMA QidstatpKept ==
  ASSUME TypeInv, TreeInv, qidstatp
  PROVE  TreeInv'
<1>1. ASSUME NEW type \in {"STAT_VAR_ASSIGN", "STAT_INVOKE"}, At("qidstatp"),
             curr = IF type = "STAT_INVOKE" THEN "LPT" ELSE "ASSIGN",
             node' = [type |-> type, name |-> id],
             UNCHANGED <<tokens, id, arg, fun, imports, stats, mismatch, outcome>>,
             NEW a, a = IF type = "STAT_INVOKE" THEN "invokeargs" ELSE "assign",
             Then(<<a>>)
      PROVE  TreeInv'
  <2>1. /\ Shaped(stack) /\ stack # << >> /\ stack[1] = "qidstatp"
        /\ stack' = <<a>> \o Tail(stack)
    BY <1>1, AtIs DEF Then
  <2>2. Makes(stack, stack', a, {})
    <3>1. CASE type = "STAT_INVOKE"
      BY <1>1, <2>1, <3>1, QidstatpCalls
    <3>2. CASE type = "STAT_VAR_ASSIGN"
      BY <1>1, <2>1, <3>2, QidstatpCalls
    <3>. QED
      BY <3>1, <3>2
  <2>3. tokens \in Seq(Tag) /\ tokens[Len(tokens)] = curr /\ prev = Len(tokens) - 1
    BY <1>1, CurrIs
  <2>4. SeesHere => Sees(tokens, stack', prev, id, node', fun, stats)
    BY <1>1, <2>1, <2>2, <2>3, QidstatpSees DEF SeesHere
  <2>5. Shaped(stack')
    BY <2>2 DEF Makes
  <2>. QED
    BY <1>1, <2>4, <2>5, AtIs, TurnKept
<1>. QED
  BY <1>1, DefaultKeepsTree DEF qidstatp

LEMMA FunsigKept ==
  ASSUME TypeInv, TreeInv, funsig
  PROVE  TreeInv'
<1>1. CASE /\ After("funsig:fun")
           /\ fun' = [type |-> "PROGRAM_FUNDEF", is_private |-> FALSE,
                      is_native |-> FALSE, name |-> prev, min_args_count |-> 0,
                      args |-> << >>, dropped |-> 0, stats |-> << >>, lost |-> {}]
           /\ UNCHANGED <<id, node, arg, imports, stats>>
  <2>1. /\ Shaped(stack) /\ stack # << >> /\ stack[1] = "funsig:fun"
        /\ tokens \in Seq(Tag) /\ prev \in Nat /\ prev < Len(tokens)
    BY <1>1, AtIs, CurrIs DEF After
  <2>2. /\ fun'.name = prev /\ fun'.stats = << >>
        /\ fun'.is_native = FALSE /\ fun'.is_private = FALSE
    BY <1>1
  <2>3. UNCHANGED <<id, node, imports, stats>> /\ After("funsig:fun")
    BY <1>1
  <2>4. PICK f : f = fun'
    OBVIOUS
  <2>5. ASSUME SeesHere, Returns(stack, stack')
        PROVE  Sees(tokens, stack', prev, id, node, f, stats)
    BY <2>1, <2>2, <2>4, <2>5, FunSees DEF SeesHere
  <2>6. ASSUME SeesHere, Returns(stack, stack')
        PROVE  Sees(tokens, stack', prev, id', node', fun', stats')
    BY <2>3, <2>4, <2>5, <2>6
  <2>. QED
    BY <2>3, <2>6, AfterKept
<1>. QED
  BY <1>1, CallsKept, FunsigCarries, DefaultKeepsTree DEF funsig

LEMMA FunargKept ==
  ASSUME TypeInv, TreeInv, funarg
  PROVE  TreeInv'
<1>1. CASE After("funarg:arg") /\ UNCHANGED <<id, node, fun, imports, stats>>
  <2>1. Shaped(stack) /\ stack # << >> /\ stack[1] = "funarg:arg"
    BY <1>1, AtIs DEF After
  <2>2. Returns(stack, stack') => Carries(stack, stack')
    BY <2>1, CodeReturns
  <2>. QED
    BY <1>1, <2>2, AfterKept DEF Carries, SeesHere
<1>. QED
  BY <1>1, CallsKept, FunargCarries, DefaultKeepsTree DEF funarg

\* What al_add and the counter change is not looked at here.
LEMMA ArgumentsSame ==
  ASSUME TypeInv, stack # << >>, Head(stack) \in NeedsFun, NEW argument \in Name,
         NEW def \in Argued(argument) \cup {fun}, NEW g \in {def, Mandatory(def)}
  PROVE  /\ g.name = fun.name /\ g.stats = fun.stats
         /\ g.is_native = fun.is_native /\ g.is_private = fun.is_private
<1>1. fun \in FunDef
  BY HeadNeeds
<1>2. def \in FunDef
  BY <1>1, ArguedTyped
<1>3. /\ def.name = fun.name /\ def.stats = fun.stats
      /\ def.is_native = fun.is_native /\ def.is_private = fun.is_private
  BY <1>1 DEF Argued, FunDef
<1>4. /\ Mandatory(def).name = def.name /\ Mandatory(def).stats = def.stats
      /\ Mandatory(def).is_native = def.is_native
      /\ Mandatory(def).is_private = def.is_private
  BY <1>2 DEF Mandatory, FunDef
<1>. QED
  BY <1>3, <1>4

LEMMA ArgumentsKept ==
  ASSUME TypeInv, TreeInv, countMandatory \/ fundefarglistp
  PROVE  TreeInv'
<1>1. ASSUME NEW code \in {"funarglistp:min", "fundefarglistp:add"}, After(code),
             fun' \in Argued(0) \cup {Mandatory(fun)},
             UNCHANGED <<id, node, arg, imports, stats>>
      PROVE  TreeInv'
  <2>1. Shaped(stack) /\ stack # << >> /\ stack[1] = code /\ Head(stack) = code
    BY <1>1, AtIs DEF After, At
  <2>2. /\ fun'.name = fun.name /\ fun'.stats = fun.stats
        /\ fun'.is_native = fun.is_native /\ fun'.is_private = fun.is_private
    BY <1>1, <2>1, ArgumentsSame DEF NeedsFun, Name
  <2>3. Returns(stack, stack') => Carries(stack, stack')
    BY <1>1, <2>1, CodeReturns
  <2>4. ASSUME SeesHere, Returns(stack, stack')
        PROVE  Sees(tokens, stack', prev, id', node', fun', stats')
    <3>1. Sees(tokens, stack', prev, id, node, fun, stats)
      BY <2>3, <2>4 DEF Carries, SeesHere
    <3>. QED
      BY <1>1, <2>2, <3>1, SameFun
  <2>. QED
    BY <1>1, <2>4, AfterKept
<1>2. CASE countMandatory
  BY <1>1, <1>2 DEF countMandatory
<1>3. CASE fundefarglistp
  <2>1. AddCrash("fundefarglistp:add", "args") => TreeInv'
    BY StopKeepsTree DEF AddCrash
  <2>. QED
    BY <1>1, <1>3, <2>1, CallsKept, FundefarglistpCarries, ReturnKept, PlainReturns,
       DefaultKeepsTree DEF fundefarglistp, Returns
<1>. QED
  BY <1>2, <1>3

LEMMA FunarglistpKept ==
  ASSUME TypeInv, TreeInv, funarglistp
  PROVE  TreeInv'
<1>0. CASE AddCrash("funarglistp", "args")
  BY <1>0, StopKeepsTree DEF AddCrash
<1>. SUFFICES ASSUME ~AddCrash("funarglistp", "args")
              PROVE  TreeInv'
  BY <1>0
<1>1. /\ At("funarglistp") /\ UNCHANGED <<tokens, id, node, arg, imports, stats, mismatch>>
      /\ Head(stack) \in NeedsFun /\ stack # << >> /\ arg \in Name
  BY TypeIs DEF funarglistp, At, NeedsFun, TypeInv, TreeOK
<1>2. Shaped(stack) /\ stack[1] = "funarglistp"
  BY <1>1, AtIs
<1>3. PICK def \in Argued(arg) :
        \/ fun' = def /\ Then(<<"COMMA", "funarglistp:min", "funarg", "funarglistp">>)
        \/ fun' = def /\ Then(<<"assign", "fundefarglistp">>)
        \/ fun' = Mandatory(def) /\ Then(<< >>)
        \/ outcome' = "unexpected token" /\ UNCHANGED stack
  BY DEF funarglistp
<1>4. ASSUME fun' \in {def, Mandatory(def)}, Shaped(stack'),
             stack' # << >> => Carries(stack, stack')
      PROVE  TreeInv'
  <2>1. /\ fun'.name = fun.name /\ fun'.stats = fun.stats
        /\ fun'.is_native = fun.is_native /\ fun'.is_private = fun.is_private
    BY <1>1, <1>4, ArgumentsSame
  <2>3. ASSUME SeesHere, stack' # << >>
        PROVE  Sees(tokens, stack', prev, id', node', fun', stats')
    <3>1. Sees(tokens, stack', prev, id, node, fun, stats)
      BY <1>4, <2>3 DEF Carries, SeesHere
    <3>. QED
      BY <1>1, <2>1, <3>1, SameFun
  <2>. QED
    BY <1>1, <1>4, <2>3, AtIs, TurnKept
<1>5. CASE outcome' = "unexpected token" /\ UNCHANGED stack
  <2>1. outcome' # "parsing"
    BY <1>5
  <2>. QED
    BY <1>1, <1>5, <2>1, EndKept
<1>6. /\ Carries(stack, <<"COMMA", "funarglistp:min", "funarg", "funarglistp">> \o Tail(stack))
      /\ Carries(stack, <<"assign", "fundefarglistp">> \o Tail(stack))
  BY <1>1, <1>2, FunarglistpCarries
<1>7. /\ Shaped(<< >> \o Tail(stack))
      /\ << >> \o Tail(stack) # << >> => Carries(stack, << >> \o Tail(stack))
  BY <1>1, <1>2, AtIs, PlainReturns
<1>. QED
  BY <1>3, <1>4, <1>5, <1>6, <1>7 DEF Carries, Then

\* What al_add makes of the body
LEMMA BodiedIs ==
  ASSUME fun \in FunDef, NEW def \in Bodied
  PROVE  /\ def.name = fun.name /\ def.type = fun.type
         /\ def.stats \in {<< >>, fun.stats, Append(fun.stats, node)}
         /\ def.is_native = fun.is_native /\ def.is_private = fun.is_private
         /\ def.args = fun.args /\ def.dropped = fun.dropped
         /\ def.min_args_count = fun.min_args_count
         /\ "args" \in def.lost <=> "args" \in fun.lost
<1>1. ASSUME NEW body \in Added(fun.stats, node, MaxList)
      PROVE  body \in {fun.stats, Append(fun.stats, node)}
  BY DEF Added
<1>2. ASSUME NEW body, def = [fun EXCEPT !.stats = body]
      PROVE  /\ def.name = fun.name /\ def.type = fun.type /\ def.stats = body
             /\ def.is_native = fun.is_native /\ def.is_private = fun.is_private
             /\ def.args = fun.args /\ def.dropped = fun.dropped
             /\ def.min_args_count = fun.min_args_count /\ def.lost = fun.lost
  BY <1>2 DEF FunDef
<1>3. ASSUME def = [fun EXCEPT !.stats = << >>, !.lost = fun.lost \cup {"stats"}]
      PROVE  /\ def.name = fun.name /\ def.type = fun.type /\ def.stats = << >>
             /\ def.is_native = fun.is_native /\ def.is_private = fun.is_private
             /\ def.args = fun.args /\ def.dropped = fun.dropped
             /\ def.min_args_count = fun.min_args_count
             /\ def.lost = fun.lost \cup {"stats"}
  BY <1>3 DEF FunDef
<1>4. \/ \E body \in Added(fun.stats, node, MaxList) : def = [fun EXCEPT !.stats = body]
      \/ def = [fun EXCEPT !.stats = << >>, !.lost = fun.lost \cup {"stats"}]
  BY DEF Bodied
<1>5. CASE \E body \in Added(fun.stats, node, MaxList) : def = [fun EXCEPT !.stats = body]
  BY <1>1, <1>2, <1>5
<1>6. CASE def = [fun EXCEPT !.stats = << >>, !.lost = fun.lost \cup {"stats"}]
  <2>1. "args" \in fun.lost \cup {"stats"} <=> "args" \in fun.lost
    OBVIOUS
  <2>. QED
    BY <1>3, <1>6, <2>1
<1>. QED
  BY <1>4, <1>5, <1>6

LEMMA StatlistpKept ==
  ASSUME TypeInv, TreeInv, statlistp
  PROVE  TreeInv'
<1>1. ASSUME After("statlistp:add"), NEW def \in Bodied, fun' = def,
             UNCHANGED <<id, node, arg, imports, stats>>
      PROVE  TreeInv'
  <2>1. /\ Shaped(stack) /\ stack # << >> /\ stack[1] = "statlistp:add"
        /\ Head(stack) = "statlistp:add" /\ tokens \in Seq(Tag)
    BY <1>1, AtIs, CurrIs DEF After, At
  <2>2. fun \in FunDef /\ node \in Stat
    BY <2>1, HeadNeeds DEF NeedsFun, NeedsNode
  <2>3. /\ def.name = fun.name /\ def.stats \in {<< >>, fun.stats, Append(fun.stats, node)}
        /\ def.is_native = fun.is_native /\ def.is_private = fun.is_private
    BY <2>2, BodiedIs
  <2>4. fun.stats \in Seq(Stat)
    BY <2>2 DEF FunDef
  <2>5. ASSUME SeesHere, Returns(stack, stack')
        PROVE  Sees(tokens, stack', prev, id', node', fun', stats')
    BY <1>1, <2>1, <2>2, <2>3, <2>4, <2>5, BodySees DEF SeesHere
  <2>. QED
    BY <1>1, <2>5, AfterKept
<1>2. AddCrash("statlistp:add", "stats") => TreeInv'
  BY StopKeepsTree DEF AddCrash
<1>. QED
  BY <1>1, <1>2, CallsKept, StatlistpCarries, ReturnKept, StatlistpReturns, DefaultKeepsTree
     DEF statlistp, Returns

-----------------------------------------------------------------------------
\* The first token is got.
LEMMA ParseKept ==
  ASSUME TypeInv, TreeInv, parse
  PROVE  TreeInv'
<1>1. At("parse") /\ move(<< >>)
  BY DEF parse
<1>2. stack = <<"parse", "file">> /\ tokens = << >>
  <2>1. ASSUME tokens # << >> PROVE FALSE
    <3>1. Head(stack) \in Pending
      BY <1>1, <2>1 DEF TypeInv, Ready, At
    <3>. QED
      BY <1>1, <3>1, Sets DEF At, Pending, Symbol, Code, Functions, Terminal
  <2>. QED
    BY <2>1 DEF TypeInv, Ready
<1>3. CASE \E how : how # "parsing" /\ Stop(how)
  BY <1>3, StopKeepsTree
<1>4. ASSUME NEW tag \in Found, tokens' = Append(tokens, tag), Then(<< >>),
             UNCHANGED <<tree, mismatch, outcome>>
      PROVE  TreeInv'
  <2>1. tokens \in Seq(Tag) /\ tag \in Tag /\ stats \in Seq(Stat \cup FunDef)
    BY <1>2, <1>4, FoundAre, TypeIs DEF TypeInv, TreeOK
  <2>2. stack' = <<"file">> /\ prev' = 0 /\ Shaped(stack')
    <3>1. stack' = << >> \o Tail(stack)
      BY <1>4 DEF Then
    <3>2. Shaped(stack')
      BY <1>1, <3>1, AtIs
    <3>3. stack' = <<"file">>
      BY <1>2, <3>1
    <3>4. tokens' = <<tag>>
      BY <1>2, <1>4
    <3>5. prev' = 0
      BY <3>4 DEF prev
    <3>. QED
      BY <3>2, <3>3, <3>5
  <2>3. mismatch = 0 => ImportsRead(tokens', imports) /\ ProgramRead(tokens', stats)
    BY <1>1, <1>4, <2>1, AtIs, ListsLater
  <2>4. ASSUME NEW t, NEW name, NEW node_, NEW f, NEW list
        PROVE  Sees(t, <<"file">>, 0, name, node_, f, list)
    <3>. DEFINE s == <<"file">>
    <3>1. s[1] = "file" /\ \A x : ~Below(s, x)
      BY DEF Below
    <3>2. ~Is(t, 0, "PRIVATE") /\ ~Is(t, 0, "NATIVE")
      BY DEF Is
    <3>3. Depth(t, 0) = 0
      <4>1. \A x : Count(t, 0, x) = 0
        <5>1. \A x : {j \in 1..0 : t[j] = x} = {}
          OBVIOUS
        <5>. QED
          BY <5>1, FS_EmptySet DEF Count
      <4>. QED
        BY <4>1 DEF Depth
    <3>. HIDE DEF s
    <3>. QED
      BY <3>1, <3>2, <3>3
         DEF Sees, Place, VarRead, FunRead, ImportRead, Braces, InBody, IdRead, Named,
             NodeDue, FunDue, On, PrivateHeads, NeedsNode, s
  <2>5. UNCHANGED <<imports, stats, mismatch>>
    BY <1>4 DEF tree
  <2>. QED
    BY <2>2, <2>3, <2>4, <2>5 DEF TreeInv
<1>. QED
  <2>1. CASE \E tag \in Found : tokens' = Append(tokens, tag) /\ Then(<< >>)
                                  /\ UNCHANGED <<tree, mismatch, outcome>>
    BY <1>4, <2>1
  <2>. QED
    BY <1>1, <1>3, <2>1 DEF move

\* A tag that does not match is left, and the tree is no more looked at.
LEMMA ComplainsKept ==
  ASSUME TypeInv, TreeInv, match, complains
  PROVE  TreeInv'
<1>1. At(Head(stack)) /\ stack' = << >> \o Tail(stack) /\ tokens # << >>
  BY DEF complains, Then, match
<1>2. Shaped(stack')
  BY <1>1, AtIs
<1>3. mismatch' # 0
  <2>1. tokens \in Seq(Tag \ {"EOF"}) /\ mismatch \in 0..Len(tokens)
    BY TypeIs DEF TypeInv
  <2>2. Len(tokens) # 0
    BY <1>1, <2>1
  <2>. QED
    BY <2>1, <2>2 DEF complains
<1>. QED
  BY <1>2, <1>3 DEF TreeInv

\* A tag that matches is read, and the next token got.
LEMMA MatchesKept ==
  ASSUME TypeInv, TreeInv, match, matches
  PROVE  TreeInv'
<1>1. /\ tokens \in Seq(Tag) /\ tokens # << >> /\ stats \in Seq(Stat \cup FunDef)
      /\ mismatch \in Nat /\ Len(tokens) \in Nat /\ curr \in Tag \ {"EOF"}
  <2>1. tokens \in Seq(Tag \ {"EOF"}) /\ tokens # << >>
    BY DEF match, TypeInv, Ready
  <2>2. stats \in Seq(Stat \cup FunDef) /\ mismatch \in 0..Len(tokens)
    BY TypeIs DEF TypeInv, TreeOK
  <2>. QED
    BY <2>1, <2>2 DEF curr
<1>2. At(curr) /\ move(<< >>) /\ curr # "parse"
  BY <1>1, ItemsAre DEF matches
<1>3. CASE \E how : how # "parsing" /\ Stop(how)
  BY <1>3, StopKeepsTree
<1>4. ASSUME NEW tag \in Found, tokens' = Append(tokens, tag), Then(<< >>),
             UNCHANGED <<tree, mismatch, outcome>>
      PROVE  TreeInv'
  <2>1. /\ tag \in Tag /\ Len(tokens') = Len(tokens) + 1
        /\ prev = Len(tokens) - 1 /\ prev \in Nat /\ prev' = prev + 1
        /\ tokens'[prev + 1] = curr /\ prev + 1 \in 1..Len(tokens')
        /\ stack' = << >> \o Tail(stack)
        /\ UNCHANGED <<id, node, fun, imports, stats, mismatch>>
    <3>1. tag \in Tag
      BY FoundAre
    <3>2. Len(tokens) # 0
      BY <1>1
    <3>. QED
      BY <1>1, <1>4, <3>1, <3>2 DEF prev, curr, Then, tree
  <2>2. Shaped(stack) /\ stack # << >> /\ stack[1] = curr /\ Shaped(stack')
        /\ (stack' # << >> => Returns(stack, stack'))
    BY <1>2, <2>1, AtIs DEF Returns
  <2>3. mismatch = 0 =>
          SeesHere /\ ImportsRead(tokens, imports) /\ ProgramRead(tokens, stats)
    BY <1>2, AtIs
  <2>4. mismatch = 0 => ImportsRead(tokens', imports) /\ ProgramRead(tokens', stats)
    BY <1>1, <1>4, <2>1, <2>3, ListsLater
  <2>5. ASSUME mismatch = 0, stack' # << >>
        PROVE  Sees(tokens', stack', prev + 1, id, node, fun, stats)
    <3>1. Read(stack, stack', tokens', prev, stats)
      <4>1. Old(stats, prev)
        BY <2>1, <2>3, <2>5 DEF ProgramRead
      <4>. QED
        BY <2>1, <2>2, <2>5, <4>1 DEF Read, Is
    <3>2. stack[1] \in {"IMPORT", "FUN", "PRIVATE", "NATIVE", "CONST", "VAR", "ID", "NUM",
                        "LPT", "RPT", "LPG", "RPG", "DOT", "COMMA", "ASSIGN"}
      <4>1. NextTo(stack[1]) # {}
        BY <2>2, <2>5 DEF Returns, Returned
      <4>2. NextTo("EOF") = {} /\ NextTo("EOP") = {} /\ NextTo("OTHER") = {}
        BY DEF NextTo
      <4>. QED
        BY <1>1, <2>2, <4>1, <4>2 DEF Tag
    <3>3. Seen(stack, stack', tokens', prev, stats)
      BY <3>1, <3>2, PlainSeen, ImportSeen, PrivateSeen, NativeSeen, LpgSeen, ConstSeen,
         VarSeen, FunSeen, DotSeen, RpgSeen, IdSeen
    <3>4. Sees(tokens', stack, prev, id, node, fun, stats)
      <4>1. (NodeDue(stack) => node \in Stat) /\ (FunDue(stack) => fun \in FunDef)
        BY <2>2, DueTyped
      <4>2. Sees(tokens, stack, prev, id, node, fun, stats)
        BY <2>3, <2>5 DEF SeesHere
      <4>3. prev <= Len(tokens)
        BY <1>1, <2>1
      <4>4. Sees(Append(tokens, tag), stack, prev, id, node, fun, stats)
        BY <1>1, <2>1, <4>1, <4>2, <4>3, SeesLater
      <4>. QED
        BY <1>4, <4>4
    <3>. QED
      BY <3>3, <3>4 DEF Seen
  <2>. QED
    BY <2>1, <2>2, <2>4, <2>5 DEF TreeInv
<1>. QED
  <2>1. CASE \E tag \in Found : tokens' = Append(tokens, tag) /\ Then(<< >>)
                                  /\ UNCHANGED <<tree, mismatch, outcome>>
    BY <1>4, <2>1
  <2>. QED
    BY <1>2, <1>3, <2>1 DEF move

LEMMA TreeInvKept ==
  ASSUME TypeInv, TreeInv, [Next]_vars
  PROVE  TreeInv'
<1>1. CASE UNCHANGED vars
  <2>1. UNCHANGED <<tokens, stack, id, node, fun, imports, stats, mismatch, outcome>>
    BY <1>1 DEF vars, tree
  <2>2. prev' = prev
    BY <2>1 DEF prev
  <2>. QED
    BY <2>1, <2>2 DEF TreeInv
<1>2. CASE match
  BY <1>2, ComplainsKept, MatchesKept DEF match
<1>3. CASE Next /\ ~match
  BY <1>3, ParseKept, PlainKept, ImportlistKept, FilepKept, PrivatefilepKept,
     NativefundefKept, QidKept, QidpKept, StatvardeclKept, QidstatpKept, FunsigKept,
     FunargKept, ArgumentsKept, FunarglistpKept, StatlistpKept DEF Next
<1>. QED
  BY <1>1, <1>2, <1>3

LEMMA TreeInvInit ==
  ASSUME Init
  PROVE  TreeInv
<1>1. /\ stack = <<"parse", "file">> /\ tokens = << >> /\ mismatch = 0
      /\ imports = << >> /\ stats = << >>
  BY DEF Init
<1>2. Shaped(stack)
  <2>1. Len(stack) = 2 /\ stack[1] = "parse" /\ stack[2] = "file" /\ stack \in Seq(Item)
    BY <1>1, ItemsAre
  <2>2. Above("parse", "file") /\ "file" \in NextTo("parse")
    BY Levels DEF Above, NextTo
  <2>3. Ordered(stack)
    BY <2>1, <2>2 DEF Ordered
  <2>4. Adjacent(stack)
    BY <2>1, <2>2 DEF Adjacent
  <2>. QED
    BY <2>1, <2>3, <2>4 DEF Shaped
<1>3. ImportsRead(tokens, imports) /\ ProgramRead(tokens, stats)
  <2>1. Len(imports) = 0 /\ Len(stats) = 0
    BY <1>1
  <2>. QED
    BY <2>1 DEF ImportsRead, ProgramRead, InText, Old
<1>4. Sees(tokens, stack, prev, id, node, fun, stats)
  <2>1. prev = -1
    BY <1>1 DEF prev
  <2>2. stack[1] = "parse" /\ \A x : Below(stack, x) => x = "file"
    BY <1>1 DEF Below
  <2>3. ~Is(tokens, -1, "PRIVATE") /\ ~Is(tokens, -1, "NATIVE")
    BY DEF Is
  <2>4. Depth(tokens, -1) = 0
    <3>1. \A x : Count(tokens, -1, x) = 0
      <4>1. \A x : {j \in 1..(-1) : tokens[j] = x} = {}
        OBVIOUS
      <4>. QED
        BY <4>1, FS_EmptySet DEF Count
    <3>. QED
      BY <3>1 DEF Depth
  <2>. QED
    BY <2>1, <2>2, <2>3, <2>4
       DEF Sees, Place, VarRead, FunRead, ImportRead, Braces, InBody, IdRead, Named,
           NodeDue, FunDue, On, PrivateHeads, NeedsNode
<1>. QED
  BY <1>1, <1>2, <1>3, <1>4 DEF TreeInv

-----------------------------------------------------------------------------
(* What is kept says that the tree is exact. *)

LEMMA TopLevelIs == \A k : TopLevel(k) <=> Depth(tokens, k) = 0
BY DEF TopLevel, Nesting, Depth, Count

LEMMA NameExact ==
  ASSUME tokens \in Seq(Tag), NEW name, Whole(tokens, name)
  PROVE  /\ QualifiedName(name)
         /\ \A x : Is(tokens, LastOf(name) + 1, x) => tokens[name[Len(name)] + 1] = x
<1>1. /\ name \in Seq(Nat) /\ name # << >> /\ LastOf(name) < Len(tokens)
      /\ \A n \in 1..Len(name) : name[n] = name[1] + 2 * (n - 1) /\ Is(tokens, name[n], "ID")
      /\ \A n \in 1..(Len(name) - 1) : Is(tokens, name[n] + 1, "DOT")
      /\ ~Is(tokens, LastOf(name) + 1, "DOT")
  BY DEF Whole, Names, Name
<1>2. Len(name) \in 1..Len(name) /\ Len(name) \in Nat /\ DOMAIN name = 1..Len(name)
      /\ Len(tokens) \in Nat /\ name[Len(name)] \in Nat
  BY <1>1
<1>3. tokens[name[Len(name)] + 1] # "DOT"
  BY <1>1, <1>2 DEF LastOf, Is
<1>4. ASSUME NEW n \in DOMAIN name
      PROVE  (tokens[name[n] + 1] = "DOT") = (n < Len(name))
  <2>1. CASE n = Len(name)
    BY <1>2, <1>3, <2>1
  <2>2. CASE n # Len(name)
    <3>1. n \in 1..(Len(name) - 1) /\ n < Len(name)
      BY <1>2, <2>2
    <3>2. tokens[name[n] + 1] = "DOT"
      BY <1>1, <3>1 DEF Is
    <3>. QED
      BY <3>1, <3>2
  <2>. QED
    BY <2>1, <2>2
<1>. QED
  BY <1>1, <1>2, <1>4 DEF QualifiedName, LastOf, Is

LEMMA StatIsExact ==
  ASSUME tokens \in Seq(Tag), NEW s \in Stat, StatRead(tokens, s), StatFlag(tokens, s)
  PROVE  StatExact(s)
<1>1. CASE s.type = "STAT_VAR_DECL"
  <2>1. /\ Is(tokens, s.name, "ID") /\ s.name < Len(tokens)
        /\ Is(tokens, s.name - 1, IF s.is_const THEN "CONST" ELSE "VAR")
        /\ s.is_private = TRUE <=> Is(tokens, s.name - 2, "PRIVATE")
    BY <1>1 DEF StatRead, StatFlag
  <2>2. s.is_private \in BOOLEAN /\ s.name \in Nat
    BY <1>1 DEF Stat, VarDecl, Name
  <2>3. Is(tokens, s.name - 2, "PRIVATE") <=>
          s.name > 2 /\ tokens[s.name - 2] = "PRIVATE"
    BY <2>1, <2>2 DEF Is
  <2>4. s.is_private = (s.name > 2 /\ tokens[s.name - 2] = "PRIVATE")
    BY <2>1, <2>2, <2>3
  <2>. QED
    BY <1>1, <2>1, <2>4 DEF StatExact, DeclarationExact, Is
<1>2. CASE s.type # "STAT_VAR_DECL"
  BY <1>2, NameExact DEF StatExact, StatRead
<1>. QED
  BY <1>1, <1>2

LEMMA FunIsExact ==
  ASSUME tokens \in Seq(Tag), NEW f \in FunDef,
         SignatureRead(tokens, f), BodyRead(tokens, f), FunFlags(tokens, f)
  PROVE  /\ FunExact(f)
         /\ \A j \in DOMAIN f.stats : ~TopLevel(FirstName(f.stats[j]))
<1>1. /\ f.is_native \in BOOLEAN /\ f.is_private \in BOOLEAN /\ f.name \in Nat
      /\ f.stats \in Seq(Stat) /\ DOMAIN f.stats = 1..Len(f.stats)
  BY DEF FunDef, Name
<1>2. /\ f.name \in 1..Len(tokens) /\ f.name - 1 \in 1..Len(tokens)
      /\ tokens[f.name] = "ID" /\ tokens[f.name - 1] = "FUN"
  BY DEF SignatureRead, Is
<1>3. IsNativeFun(tokens, f) <=> f.name > 2 /\ tokens[f.name - 2] = "NATIVE"
  BY <1>1, <1>2 DEF IsNativeFun, Is
<1>4. f.is_native = (f.name > 2 /\ tokens[f.name - 2] = "NATIVE")
  BY <1>1, <1>3 DEF FunFlags
<1>. DEFINE first == IF f.is_native THEN f.name - 2 ELSE f.name - 1
<1>5. IsPrivateFun(tokens, f) <=> first > 1 /\ tokens[first - 1] = "PRIVATE"
  <2>1. CASE f.is_native
    <3>1. IsPrivateFun(tokens, f) <=> Is(tokens, f.name - 3, "PRIVATE")
      BY <2>1 DEF IsPrivateFun, FunFlags
    <3>2. f.name > 2
      BY <1>4, <2>1
    <3>3. first = f.name - 2 /\ first - 1 = f.name - 3
      BY <1>1, <2>1
    <3>. QED
      BY <1>1, <1>2, <3>1, <3>2, <3>3 DEF Is
  <2>2. CASE ~f.is_native
    <3>1. IsPrivateFun(tokens, f) <=> Is(tokens, f.name - 2, "PRIVATE")
      BY <2>2 DEF IsPrivateFun, FunFlags
    <3>2. first = f.name - 1 /\ first - 1 = f.name - 2
      BY <1>1, <2>2
    <3>. QED
      BY <1>1, <1>2, <3>1, <3>2 DEF Is
  <2>. QED
    BY <2>1, <2>2
<1>6. f.is_private = (first > 1 /\ tokens[first - 1] = "PRIVATE")
  BY <1>1, <1>5 DEF FunFlags
<1>7. \A j \in DOMAIN f.stats : StatExact(f.stats[j]) /\ ~TopLevel(FirstName(f.stats[j]))
  BY <1>1, StatIsExact, TopLevelIs DEF BodyRead
<1>8. f.is_native => f.stats = << >>
  BY DEF BodyRead, FunFlags
<1>. HIDE DEF first
<1>. QED
  BY <1>2, <1>4, <1>6, <1>7, <1>8 DEF FunExact, first

LEMMA ReadIsExact ==
  ASSUME TypeInv, TreeInv
  PROVE  TreeExact
<1>. SUFFICES ASSUME mismatch = 0
              PROVE  /\ \A i \in DOMAIN imports :
                          QualifiedName(imports[i]) /\ tokens[imports[i][1] - 1] = "IMPORT"
                     /\ \A i \in DOMAIN stats :
                          IF stats[i].type = "PROGRAM_FUNDEF"
                          THEN /\ FunExact(stats[i])
                               /\ \A j \in DOMAIN stats[i].stats :
                                    ~TopLevel(FirstName(stats[i].stats[j]))
                          ELSE StatExact(stats[i]) /\ TopLevel(FirstName(stats[i]))
                     /\ \A i, j \in DOMAIN stats :
                          i < j => FirstName(stats[i]) < FirstName(stats[j])
  BY DEF TreeExact
<1>1. /\ tokens \in Seq(Tag) /\ imports \in Seq(Seq(Name)) /\ stats \in Seq(Stat \cup FunDef)
      /\ DOMAIN imports = 1..Len(imports) /\ DOMAIN stats = 1..Len(stats)
  BY TypeIs DEF TypeInv, TreeOK
<1>2. ImportsRead(tokens, imports) /\ ProgramRead(tokens, stats)
  BY DEF TreeInv
<1>3. \A i \in DOMAIN imports :
        QualifiedName(imports[i]) /\ tokens[imports[i][1] - 1] = "IMPORT"
  BY <1>1, <1>2, NameExact DEF ImportsRead, Is
<1>4. ASSUME NEW i \in DOMAIN stats
      PROVE  IF stats[i].type = "PROGRAM_FUNDEF"
             THEN /\ FunExact(stats[i])
                  /\ \A j \in DOMAIN stats[i].stats :
                       ~TopLevel(FirstName(stats[i].stats[j]))
             ELSE StatExact(stats[i]) /\ TopLevel(FirstName(stats[i]))
  <2>1. stats[i] \in Stat \cup FunDef /\ ElementRead(tokens, stats[i])
    BY <1>1, <1>2 DEF ProgramRead
  <2>2. CASE stats[i].type = "PROGRAM_FUNDEF"
    <3>1. stats[i] \in FunDef
      BY <2>1, <2>2 DEF Stat, VarDecl
    <3>. QED
      BY <1>1, <2>1, <2>2, <3>1, FunIsExact DEF ElementRead
  <2>3. CASE stats[i].type # "PROGRAM_FUNDEF"
    <3>1. stats[i] \in Stat
      BY <2>1, <2>3 DEF FunDef
    <3>. QED
      BY <1>1, <2>1, <2>3, <3>1, StatIsExact, TopLevelIs DEF ElementRead
  <2>. QED
    BY <2>2, <2>3
<1>5. \A i, j \in DOMAIN stats : i < j => FirstName(stats[i]) < FirstName(stats[j])
  BY <1>1, <1>2 DEF ProgramRead, InText
<1>. QED
  BY <1>3, <1>4, <1>5

\* What the tree says is what the text says, for every text, however long and
\* however nested: the names, kinds and flags are those of the tokens where
\* they were read, whatever was parsed in between (an argument or an
\* expression between the making of node or fun and its use), every statement
\* is in the list of the function or of the file it stands in, and the lists
\* are in the order of the text.
THEOREM TreeCorrect == Spec => []TreeExact
<1>1. Init => TreeInv
  BY TreeInvInit
<1>2. TypeInv /\ TreeInv /\ [Next]_vars => TreeInv'
  BY TreeInvKept
<1>3. TypeInv /\ TreeInv => TreeExact
  BY ReadIsExact
<1>. QED
  BY <1>1, <1>2, <1>3, TypeInvHolds, PTL DEF Spec

-----------------------------------------------------------------------------
(***************************************************************************)
(* What the tree has: every import, function and variable of the file is   *)
(* in a list, or in what a list will get, or it is read just now.          *)
(***************************************************************************)
\* Of those that make fun, or node, one at most is on the stack, with what
\* needs it.
OneMakes(s, makes, needs) ==
  \A x \in makes :
    On(s, x) => (\E z \in needs : Below(s, z)) /\ \A y \in makes : On(s, y) => x = y

Tidy(s) ==
  /\ s[1] = "IMPORT" => Below(s, "importlist:add")
  /\ OneMakes(s, MakesFun, {"filep:add_fundef"})
  /\ OneMakes(s, MakesNode, NeedsNode)

\* An import is read, that is in no list yet.
Importing(s) == s[1] # "IMPORT" /\ On(s, "importlist:add")

HasImports(t, s, k, list) ==
  Count(t, k, "IMPORT") = Len(list) + IF Importing(s) THEN 1 ELSE 0

\* What begins with token j (FUN or VAR), the one before the name
IsFun(f, j) == f.type = "PROGRAM_FUNDEF" /\ f.name - 1 = j

IsVar(n, j) == n.type = "STAT_VAR_DECL" /\ n.is_const = FALSE /\ n.name - 1 = j

FunListed(list, j) == \E i \in 1..Len(list) : IsFun(list[i], j)

VarListed(list, j) == \E i \in 1..Len(list) : IsVar(list[i], j)

\* The name is read next, or it was and code makes something of it.
BeingRead(s, k, j, code) ==
  \/ s[1] = "ID" /\ Below(s, code) /\ j = k
  \/ s[1] = code /\ j = k - 1

HasFuns(t, s, k, f, list) ==
  \A j \in 1..k :
    Is(t, j, "FUN") =>
      FunListed(list, j) \/ (FunDue(s) /\ IsFun(f, j)) \/ BeingRead(s, k, j, "funsig:fun")

HasVars(t, s, k, n, list) ==
  \A j \in 1..k :
    Is(t, j, "VAR") /\ Depth(t, j) = 0 =>
      VarListed(list, j) \/ (NodeDue(s) /\ IsVar(n, j)) \/ BeingRead(s, k, j, "statvardecl:var")

Has(t, s, k, n, f, imported, list) ==
  /\ Tidy(s)
  /\ HasImports(t, s, k, imported)
  /\ HasFuns(t, s, k, f, list)
  /\ HasVars(t, s, k, n, list)

\* Nothing of what was read is lost.
HasInv ==
  mismatch = 0 /\ outcome = "parsing" /\ stack # << >> =>
    Has(tokens, stack, prev, node, fun, imports, stats)

-----------------------------------------------------------------------------
(* What a call and a return do to what is due *)

Starting == {"filep", "privatefilep", "statlistp"}

\* A call of p leaves a to be done, and others after it: of makes, one if
\* any, and p is one of them or what needs it is among others.
Orderly(p, a, others, makes, needs) ==
  \A x \in ({a} \cup others) \cap makes :
    /\ p \in makes \/ (p \in Starting /\ others \cap needs # {})
    /\ \A y \in ({a} \cup others) \cap makes : x = y

Quiet(p, a, others) ==
  /\ p \notin Tag \cup NeedsNode
  /\ p \notin {"filep:add_fundef", "importlist:add", "funsig:fun", "statvardecl:var"}
  /\ a \notin NeedsNode \cup {"filep:add_fundef", "importlist:add"}
  /\ "importlist:add" \in others => a = "IMPORT" /\ p = "importlist"
  /\ a = "IMPORT" => "importlist:add" \in others
  /\ "filep:add_fundef" \in others => p # "statlistp"
  /\ Orderly(p, a, others, MakesFun, {"filep:add_fundef"})
  /\ Orderly(p, a, others, MakesNode, NeedsNode)

LEMMA MakesLevels ==
  /\ \A x \in MakesFun \cup MakesNode : x \in Item \ Tag /\ Level(x) < 8 /\ Level(x) # 3
  /\ \A x \in MakesNode : Level(x) < 6
  /\ \A x \in NeedsNode : x \in Item \ Tag /\ Level(x) > 5 /\ Level(x) < 10
  /\ "filep:add_fundef" \in Item \ Tag /\ Level("filep:add_fundef") = 9
  /\ "importlist:add" \in Item \ Tag /\ Level("importlist:add") = 8
  /\ "importlist" \in Item \ Tag /\ Level("importlist") = 9
  /\ \A x \in Starting : x \in Item \ Tag /\ Level(x) > 6
  /\ MakesFun \cap MakesNode = {}
BY Levels, ItemsAre DEF MakesFun, MakesNode, NeedsNode, Starting

\* None of makes is twice on the stack.
LEMMA NotTwice ==
  ASSUME NEW s, Shaped(s), s # << >>, s[1] \in MakesFun \cup MakesNode
  PROVE  ~Below(s, s[1])
BY Apart, MakesLevels, LevelIsNat DEF Above

LEMMA CallMakes ==
  ASSUME NEW s, Shaped(s), s # << >>, NEW n, NEW a, NEW others, Called(s, n, a, others),
         NEW makes \in {MakesFun, MakesNode}, NEW needs,
         OneMakes(s, makes, needs), Orderly(s[1], a, others, makes, needs),
         s[1] \in Starting => \A x \in makes : ~Below(s, x)
  PROVE  OneMakes(n, makes, needs)
<1>. SUFFICES ASSUME NEW x \in makes, On(n, x)
              PROVE  (\E z \in needs : Below(n, z)) /\ \A y \in makes : On(n, y) => x = y
  BY DEF OneMakes
<1>1. /\ n[1] = a
      /\ \A y : On(n, y) <=> y \in {a} \cup others \/ Below(s, y)
      /\ \A y : Below(n, y) <=> y \in others \/ Below(s, y)
  BY DEF Called, On
<1>2. s[1] \in makes => \A y \in makes : ~Below(s, y)
  <2>. SUFFICES ASSUME s[1] \in makes, NEW y \in makes, Below(s, y) PROVE FALSE
    OBVIOUS
  <2>1. y = s[1]
    BY DEF OneMakes, On
  <2>. QED
    BY <2>1, NotTwice
<1>3. CASE x \in {a} \cup others
  <2>1. \A y \in makes : ~Below(s, y)
    BY <1>2, <1>3 DEF Orderly
  <2>2. \A y \in makes : On(n, y) => x = y
    BY <1>1, <1>3, <2>1 DEF Orderly
  <2>3. CASE s[1] \in makes
    BY <1>1, <2>2, <2>3 DEF OneMakes, On
  <2>4. CASE s[1] \notin makes
    BY <1>1, <1>3, <2>2, <2>4 DEF Orderly
  <2>. QED
    BY <2>3, <2>4
<1>4. CASE x \notin {a} \cup others
  <2>1. Below(s, x)
    BY <1>1, <1>4
  <2>2. s[1] \notin makes /\ s[1] \notin Starting
    BY <1>2, <2>1
  <2>3. \A y \in makes : y \notin {a} \cup others
    BY <2>2 DEF Orderly
  <2>. QED
    BY <1>1, <2>1, <2>3 DEF OneMakes, On
<1>. QED
  BY <1>3, <1>4

LEMMA StartingIs ==
  ASSUME NEW s, Shaped(s), s # << >>, Place(s), s[1] \in Starting
  PROVE  /\ \A x \in MakesNode : ~Below(s, x)
         /\ \A x \in MakesFun : ~Below(s, x)
         /\ s[1] # "statlistp" => ~Below(s, "filep:add_fundef")
         /\ \A x \in NeedsNode : ~Below(s, x)
<1>1. ASSUME NEW x, Below(s, x), x \in Item \ Tag
      PROVE  Level(s[1]) < Level(x)
  <2>1. Above(s[1], x)
    BY <1>1, Apart
  <2>. QED
    BY <1>1, <2>1, MakesLevels, LevelIsNat DEF Above
<1>2. /\ s[1] = "filep" => Level(s[1]) = 10
      /\ s[1] = "privatefilep" => Level(s[1]) = 9
      /\ s[1] = "statlistp" => Level(s[1]) = 7
  BY Levels
<1>3. s[1] = "statlistp" => ~Below(s, "filep:add_stat")
  BY DEF Place, On
<1>4. Level("privatefilep:var") = 7 /\ Level("statlistp:add") = 6
      /\ Level("filep:add_stat") = 9
  BY Levels
<1>. QED
  BY <1>1, <1>2, <1>3, <1>4, MakesLevels, LevelIsNat DEF Starting, NeedsNode

LEMMA CallIs ==
  ASSUME NEW s, Shaped(s), s # << >>, Place(s), Tidy(s), NEW n, NEW a, NEW others,
         Called(s, n, a, others), Quiet(s[1], a, others)
  PROVE  /\ Tidy(n)
         /\ FunDue(s) => FunDue(n)
         /\ NodeDue(s) => NodeDue(n)
         /\ Importing(n) <=> Importing(s)
<1>1. /\ n[1] = a
      /\ \A y : On(n, y) <=> y \in {a} \cup others \/ Below(s, y)
      /\ \A y : Below(n, y) <=> y \in others \/ Below(s, y)
  BY DEF Called, On
<1>2. OneMakes(n, MakesFun, {"filep:add_fundef"}) /\ OneMakes(n, MakesNode, NeedsNode)
  BY CallMakes, StartingIs DEF Tidy, Quiet
<1>3. Tidy(n)
  BY <1>1, <1>2 DEF Tidy, Quiet
<1>4. ASSUME FunDue(s) PROVE FunDue(n)
  <2>1. Below(s, "filep:add_fundef") /\ \A x \in MakesFun : ~On(s, x)
    BY <1>4 DEF FunDue, On, Quiet
  <2>2. s[1] \notin MakesFun /\ \A x \in MakesFun : ~Below(s, x)
    BY <2>1 DEF On
  <2>3. ASSUME NEW x \in MakesFun, x \in {a} \cup others PROVE FALSE
    <3>1. s[1] \in Starting
      BY <2>2, <2>3 DEF Quiet, Orderly
    <3>2. s[1] = "statlistp"
      BY <2>1, <3>1, StartingIs
    <3>. QED
      BY <2>2, <2>3, <3>2 DEF Quiet, Orderly
  <2>. QED
    BY <1>1, <2>1, <2>2, <2>3 DEF FunDue
<1>5. ASSUME NodeDue(s) PROVE NodeDue(n)
  <2>1. PICK z \in NeedsNode : On(s, z)
    BY <1>5 DEF NodeDue
  <2>2. Below(s, z)
    BY <2>1 DEF On, Quiet
  <2>3. s[1] \notin MakesNode /\ (\A x \in MakesNode : ~Below(s, x)) /\ s[1] \notin Starting
    BY <1>5, <2>2, StartingIs DEF NodeDue, On
  <2>4. \A x \in MakesNode : x \notin {a} \cup others
    BY <2>3 DEF Quiet, Orderly
  <2>. QED
    BY <1>1, <2>2, <2>3, <2>4 DEF NodeDue
<1>6. Importing(n) <=> Importing(s)
  <2>1. s[1] # "IMPORT" /\ s[1] # "importlist:add" /\ a # "importlist:add"
    BY TagsAre DEF Quiet
  <2>2. CASE a = "IMPORT"
    <3>1. s[1] = "importlist"
      BY <2>2 DEF Quiet
    <3>2. ~Below(s, "importlist:add")
      BY <3>1, Apart, MakesLevels DEF Above
    <3>. QED
      BY <1>1, <2>1, <2>2, <3>2 DEF Importing, On
  <2>3. CASE a # "IMPORT"
    <3>1. "importlist:add" \notin others
      BY <2>3 DEF Quiet
    <3>. QED
      BY <1>1, <2>1, <2>3, <3>1 DEF Importing, On
  <2>. QED
    BY <2>2, <2>3
<1>. QED
  BY <1>3, <1>4, <1>5, <1>6

LEMMA ReturnMakes ==
  ASSUME NEW s, NEW n, Returns(s, n), NEW makes, NEW needs, OneMakes(s, makes, needs),
         \A x \in makes : \A z \in needs :
           z \notin Tag /\ x \notin Tag /\ Level(x) < Level(z) /\ Level(x) # 3
  PROVE  OneMakes(n, makes, needs)
<1>. SUFFICES ASSUME NEW x \in makes, On(n, x)
              PROVE  (\E z \in needs : Below(n, z)) /\ \A y \in makes : On(n, y) => x = y
  BY DEF OneMakes
<1>1. Shaped(n) /\ n # << >> /\ \A y : Below(s, y) <=> On(n, y)
  BY DEF Returns, Returned, On
<1>2. \A y \in makes : On(n, y) => On(s, y)
  BY <1>1 DEF On
<1>3. PICK z \in needs : Below(s, z)
  BY <1>2 DEF OneMakes
<1>4. n[1] # z
  <2>. SUFFICES ASSUME n[1] = z PROVE FALSE
    OBVIOUS
  <2>1. Below(n, x)
    BY LevelIsNat DEF On
  <2>2. Above(z, x)
    BY <1>1, <2>1, Apart
  <2>. QED
    BY <2>2, LevelIsNat DEF Above
<1>. QED
  BY <1>1, <1>2, <1>3, <1>4 DEF On, OneMakes

LEMMA ReturnIs ==
  ASSUME NEW s, Shaped(s), s # << >>, NEW n, Returns(s, n), Tidy(s)
  PROVE  /\ Tidy(n)
         /\ FunDue(s) /\ s[1] # "filep:add_fundef" => FunDue(n)
         /\ NodeDue(s) /\ s[1] \notin {"filep:add_stat", "statlistp:add"} => NodeDue(n)
         /\ s[1] \notin {"IMPORT", "importlist:add"} => (Importing(n) <=> Importing(s))
         /\ s[1] = "IMPORT" => ~Importing(s) /\ Importing(n)
         /\ s[1] = "importlist:add" => Importing(s) /\ ~Importing(n)
<1>1. /\ Shaped(n) /\ n # << >> /\ n[1] \in NextTo(s[1])
      /\ \A y : Below(s, y) <=> On(n, y)
  BY DEF Returns, Returned, On
<1>2. n[1] # "IMPORT"
  BY <1>1 DEF NextTo, AfterExpr
<1>3. OneMakes(n, MakesFun, {"filep:add_fundef"}) /\ OneMakes(n, MakesNode, NeedsNode)
  <2>1. \A x \in MakesFun : \A z \in {"filep:add_fundef"} :
          z \notin Tag /\ x \notin Tag /\ Level(x) < Level(z) /\ Level(x) # 3
    BY MakesLevels, LevelIsNat
  <2>2. \A x \in MakesNode : \A z \in NeedsNode :
          z \notin Tag /\ x \notin Tag /\ Level(x) < Level(z) /\ Level(x) # 3
    BY MakesLevels, LevelIsNat
  <2>3. OneMakes(n, MakesFun, {"filep:add_fundef"})
    BY <2>1, ReturnMakes DEF Tidy
  <2>4. OneMakes(n, MakesNode, NeedsNode)
    BY <2>2, ReturnMakes DEF Tidy
  <2>. QED
    BY <2>3, <2>4
<1>4. ASSUME NodeDue(s), s[1] \notin {"filep:add_stat", "statlistp:add"} PROVE NodeDue(n)
  <2>1. PICK z \in NeedsNode : On(s, z)
    BY <1>4 DEF NodeDue
  <2>2. \A x \in MakesNode : ~On(n, x)
    BY <1>1, <1>4 DEF NodeDue, On
  <2>3. CASE s[1] = z
    <3>1. n[1] = "filep:add_stat"
      BY <1>1, <1>4, <2>3 DEF NextTo, NeedsNode
    <3>. QED
      BY <2>2, <3>1 DEF NodeDue, On, NeedsNode
  <2>4. CASE s[1] # z
    BY <1>1, <2>1, <2>2, <2>4 DEF NodeDue, On
  <2>. QED
    BY <2>3, <2>4
<1>5. FunDue(s) /\ s[1] # "filep:add_fundef" => FunDue(n)
  BY <1>1 DEF FunDue, On
<1>6. s[1] = "importlist:add" => ~Importing(n)
  <2>. SUFFICES ASSUME s[1] = "importlist:add", On(n, "importlist:add") PROVE FALSE
    BY DEF Importing
  <2>1. Below(s, "importlist:add")
    BY <1>1
  <2>. QED
    BY <2>1, Apart, MakesLevels DEF Above
<1>. QED
  BY <1>1, <1>2, <1>3, <1>4, <1>5, <1>6 DEF Tidy, Importing, On

-----------------------------------------------------------------------------
(* What is had stays had, in a step that reads nothing. *)

\* Code that reads a token, or makes or lists what is counted
Counting ==
  {"funsig:fun", "statvardecl:var", "importlist:add", "filep:add_fundef", "filep:add_stat",
   "statlistp:add"}

\* n is s after a step that makes and lists nothing.
Onward(s, n) ==
  /\ Tidy(n)
  /\ FunDue(s) => FunDue(n)
  /\ NodeDue(s) => NodeDue(n)
  /\ Importing(n) <=> Importing(s)

LEMMA HasOnward ==
  ASSUME NEW s, NEW n, NEW t, NEW k, NEW x, NEW y, NEW f, NEW g, NEW imported, NEW list,
         Has(t, s, k, x, f, imported, list), Onward(s, n),
         s[1] \notin {"ID", "funsig:fun", "statvardecl:var"},
         FunDue(s) => \A j : IsFun(f, j) => IsFun(g, j),
         NodeDue(s) => \A j : IsVar(x, j) => IsVar(y, j)
  PROVE  Has(t, n, k, y, g, imported, list)
BY DEF Has, Onward, HasImports, HasFuns, HasVars, BeingRead

HasHere == Has(tokens, stack, prev, node, fun, imports, stats)

\* A step of a function
LEMMA TurnHas ==
  ASSUME TreeInv, HasInv, NEW p, At(p), tokens' = tokens, mismatch' = mismatch,
         mismatch = 0 /\ SeesHere /\ HasHere /\ stack' # << >> =>
           Has(tokens, stack', prev, node', fun', imports', stats')
  PROVE  HasInv'
<1>1. outcome = "parsing" /\ stack # << >>
  BY DEF At
<1>2. prev' = prev
  BY DEF prev
<1>3. mismatch = 0 => SeesHere /\ HasHere
  BY <1>1 DEF TreeInv, SeesHere, HasInv, HasHere
<1>. QED
  BY <1>2, <1>3 DEF HasInv

LEMMA EndHas ==
  ASSUME outcome' # "parsing"
  PROVE  HasInv'
BY DEF HasInv

LEMMA StopHas ==
  ASSUME NEW how, how # "parsing", Stop(how)
  PROVE  HasInv'
BY EndHas DEF Stop

LEMMA DefaultHas ==
  ASSUME NEW p, NEW tags, Default(p, tags)
  PROVE  HasInv'
<1>1. outcome' = "unexpected token"
  BY DEF Default, Stop
<1>2. outcome' # "parsing"
  BY <1>1
<1>. QED
  BY <1>2, EndHas

\* A case that calls
LEMMA CallsHave ==
  ASSUME TreeInv, HasInv, NEW p, NEW tags, NEW todo, Case(p, tags, todo), NEW a, NEW others,
         Quiet(p, a, others),
         Shaped(stack) /\ stack # << >> /\ stack[1] = p =>
           Makes(stack, todo \o Tail(stack), a, others)
  PROVE  HasInv'
<1>1. At(p) /\ stack' = todo \o Tail(stack) /\ UNCHANGED <<tokens, tree, mismatch>>
  BY DEF Case, Then, Keep
<1>2. /\ Shaped(stack) /\ stack # << >> /\ stack[1] = p
      /\ Called(stack, stack', a, others)
  BY <1>1, AtIs DEF Makes
<1>3. ASSUME SeesHere, HasHere
      PROVE  Has(tokens, stack', prev, node, fun, imports, stats)
  <2>1. Place(stack) /\ Tidy(stack)
    BY <1>3 DEF SeesHere, Sees, HasHere, Has
  <2>2. Onward(stack, stack')
    BY <1>2, <2>1, CallIs DEF Onward
  <2>3. stack[1] \notin {"ID", "funsig:fun", "statvardecl:var"}
    BY <1>2, TagsAre DEF Quiet
  <2>. QED
    BY <1>3, <2>2, <2>3, HasOnward DEF HasHere
<1>. QED
  BY <1>1, <1>3, TurnHas DEF tree

\* A return
LEMMA ReturnOnward ==
  ASSUME NEW s, Shaped(s), s # << >>, NEW n, Returns(s, n), Tidy(s),
         s[1] \notin {"IMPORT", "importlist:add", "filep:add_fundef", "filep:add_stat",
                      "statlistp:add"}
  PROVE  Onward(s, n)
BY ReturnIs DEF Onward

LEMMA ReturnHas ==
  ASSUME TreeInv, HasInv, NEW p, NEW tags, Case(p, tags, << >>),
         p \notin Tag \cup Counting
  PROVE  HasInv'
<1>1. At(p) /\ stack' = << >> \o Tail(stack) /\ UNCHANGED <<tokens, tree, mismatch>>
  BY DEF Case, Then, Keep
<1>2. /\ Shaped(stack) /\ stack # << >> /\ stack[1] = p
      /\ stack' # << >> => Returns(stack, stack')
  BY <1>1, AtIs DEF Returns
<1>3. ASSUME SeesHere, HasHere, stack' # << >>
      PROVE  Has(tokens, stack', prev, node, fun, imports, stats)
  <2>1. stack[1] \notin {"ID", "IMPORT"}
    BY <1>2, TagsAre
  <2>2. Onward(stack, stack')
    BY <1>2, <1>3, <2>1, ReturnOnward DEF HasHere, Has, Counting
  <2>. QED
    BY <1>2, <1>3, <2>1, <2>2, HasOnward DEF HasHere, Counting
<1>. QED
  BY <1>1, <1>3, TurnHas DEF tree

\* Code after a call
LEMMA AfterHas ==
  ASSUME TreeInv, HasInv, NEW code, After(code),
         /\ Shaped(stack) /\ stack # << >> /\ stack[1] = code /\ Returns(stack, stack')
         /\ SeesHere /\ HasHere
         => Has(tokens, stack', prev, node', fun', imports', stats')
  PROVE  HasInv'
<1>1. At(code) /\ stack' = << >> \o Tail(stack) /\ UNCHANGED <<tokens, mismatch>>
  BY DEF After, Then
<1>2. /\ Shaped(stack) /\ stack # << >> /\ stack[1] = code
      /\ stack' # << >> => Returns(stack, stack')
  BY <1>1, AtIs DEF Returns
<1>. QED
  BY <1>1, <1>2, TurnHas

\* Code that makes and lists nothing that is counted
LEMMA CodeHas ==
  ASSUME TreeInv, HasInv, NEW code, After(code), code \notin Tag \cup Counting,
         UNCHANGED <<imports, stats>>,
         FunDue(stack) => \A j : IsFun(fun, j) => IsFun(fun', j),
         NodeDue(stack) => \A j : IsVar(node, j) => IsVar(node', j)
  PROVE  HasInv'
<1>1. code \notin {"ID", "IMPORT"}
  BY TagsAre
<1>2. ASSUME Shaped(stack), stack # << >>, stack[1] = code, Returns(stack, stack'), HasHere
      PROVE  Has(tokens, stack', prev, node', fun', imports, stats)
  <2>1. Onward(stack, stack')
    BY <1>1, <1>2, ReturnOnward DEF HasHere, Has, Counting
  <2>. QED
    BY <1>1, <1>2, <2>1, HasOnward DEF HasHere, Counting
<1>. QED
  BY <1>2, AfterHas

-----------------------------------------------------------------------------
(* What is listed, and what is made *)

LEMMA ListedGrows ==
  ASSUME NEW S, NEW list \in Seq(S), NEW e \in S
  PROVE  LET new == Append(list, e) IN
         /\ Len(new) = Len(list) + 1 /\ Len(list) \in Nat
         /\ \A j : FunListed(list, j) \/ IsFun(e, j) => FunListed(new, j)
         /\ \A j : VarListed(list, j) \/ IsVar(e, j) => VarListed(new, j)
<1>. DEFINE new == Append(list, e)
<1>1. /\ Len(new) = Len(list) + 1 /\ Len(list) \in Nat
      /\ \A i \in 1..Len(list) : new[i] = list[i]
      /\ new[Len(list) + 1] = e
  OBVIOUS
<1>. HIDE DEF new
<1>2. /\ \A i \in 1..Len(list) : i \in 1..Len(new)
      /\ Len(list) + 1 \in 1..Len(new)
  BY <1>1
<1>3. \A j : FunListed(list, j) \/ IsFun(e, j) => FunListed(new, j)
  BY <1>1, <1>2 DEF FunListed
<1>4. \A j : VarListed(list, j) \/ IsVar(e, j) => VarListed(new, j)
  BY <1>1, <1>2 DEF VarListed
<1>. QED
  BY <1>1, <1>3, <1>4 DEF new

LEMMA HasAdded ==
  ASSUME NEW s, Shaped(s), s # << >>, NEW n, Returns(s, n), NEW t, NEW k, NEW x, NEW f,
         NEW imported, NEW S, NEW list \in Seq(S), NEW e \in S,
         Has(t, s, k, x, f, imported, list),
         \/ s[1] = "filep:add_fundef" /\ e = f
         \/ s[1] = "filep:add_stat" /\ e = x
  PROVE  Has(t, n, k, x, f, imported, Append(list, e))
<1>. DEFINE new == Append(list, e)
<1>1. /\ \A j : FunListed(list, j) \/ IsFun(e, j) => FunListed(new, j)
      /\ \A j : VarListed(list, j) \/ IsVar(e, j) => VarListed(new, j)
  BY ListedGrows
<1>. HIDE DEF new
<1>2. /\ Tidy(n) /\ (Importing(n) <=> Importing(s))
      /\ FunDue(s) => FunDue(n) \/ e = f
      /\ NodeDue(s) => NodeDue(n) \/ e = x
  BY ReturnIs DEF Has
<1>3. HasFuns(t, n, k, f, new)
  BY <1>1, <1>2 DEF Has, HasFuns, BeingRead
<1>4. HasVars(t, n, k, x, new)
  BY <1>1, <1>2 DEF Has, HasVars, BeingRead
<1>. QED
  BY <1>2, <1>3, <1>4 DEF Has, HasImports, new

LEMMA HasImported ==
  ASSUME NEW s, Shaped(s), s # << >>, s[1] = "importlist:add", NEW n, Returns(s, n), NEW t,
         NEW k, NEW x, NEW f, NEW S, NEW imported \in Seq(S), NEW name \in S, NEW list,
         Has(t, s, k, x, f, imported, list)
  PROVE  Has(t, n, k, x, f, Append(imported, name), list)
<1>1. Len(Append(imported, name)) = Len(imported) + 1 /\ Len(imported) \in Nat
  OBVIOUS
<1>2. /\ Tidy(n) /\ Importing(s) /\ ~Importing(n)
      /\ FunDue(s) => FunDue(n)
      /\ NodeDue(s) => NodeDue(n)
  BY ReturnIs DEF Has
<1>3. HasImports(t, n, k, Append(imported, name))
  BY <1>1, <1>2 DEF Has, HasImports
<1>. QED
  BY <1>2, <1>3 DEF Has, HasFuns, HasVars, BeingRead

LEMMA HasMade ==
  ASSUME NEW s, Shaped(s), s # << >>, NEW n, Returns(s, n), NEW t, NEW k \in Nat,
         NEW x, NEW y, NEW f, NEW g, NEW imported, NEW list,
         Has(t, s, k, x, f, imported, list),
         \/ s[1] = "funsig:fun" /\ y = x /\ IsFun(g, k - 1)
         \/ s[1] = "statvardecl:var" /\ g = f /\ IsVar(y, k - 1)
  PROVE  Has(t, n, k, y, g, imported, list)
<1>1. /\ Tidy(n) /\ (Importing(n) <=> Importing(s))
      /\ FunDue(s) => FunDue(n)
      /\ NodeDue(s) => NodeDue(n)
  BY ReturnIs DEF Has
<1>2. \A z : Below(s, z) <=> On(n, z)
  BY DEF Returns, Returned, On
<1>3. CASE s[1] = "funsig:fun"
  <2>1. s[1] \in MakesFun /\ On(s, "funsig:fun")
    BY <1>3 DEF MakesFun, On
  <2>2. \A z \in MakesFun : ~Below(s, z)
    BY <2>1, NotTwice DEF Has, Tidy, OneMakes, On
  <2>3. FunDue(n) /\ ~FunDue(s)
    BY <1>2, <1>3, <2>1, <2>2 DEF Has, Tidy, OneMakes, FunDue
  <2>4. HasFuns(t, n, k, g, list)
    BY <1>3, <2>3 DEF Has, HasFuns, BeingRead
  <2>5. HasVars(t, n, k, y, list)
    BY <1>1, <1>3 DEF Has, HasVars, BeingRead
  <2>. QED
    BY <1>1, <2>4, <2>5 DEF Has, HasImports
<1>4. CASE s[1] = "statvardecl:var"
  <2>1. s[1] \in MakesNode /\ On(s, "statvardecl:var")
    BY <1>4 DEF MakesNode, On
  <2>2. \A z \in MakesNode : ~Below(s, z)
    BY <2>1, NotTwice DEF Has, Tidy, OneMakes, On
  <2>3. NodeDue(n) /\ ~NodeDue(s)
    BY <1>2, <1>4, <2>1, <2>2 DEF Has, Tidy, OneMakes, NodeDue
  <2>4. HasVars(t, n, k, y, list)
    BY <1>4, <2>3 DEF Has, HasVars, BeingRead
  <2>5. HasFuns(t, n, k, g, list)
    BY <1>1, <1>4 DEF Has, HasFuns, BeingRead
  <2>. QED
    BY <1>1, <2>4, <2>5 DEF Has, HasImports
<1>. QED
  BY <1>3, <1>4

\* What goes into a body is not of the file.
LEMMA HasBody ==
  ASSUME NEW s, Shaped(s), s # << >>, s[1] = "statlistp:add", NEW n, Returns(s, n),
         NEW t, NEW k, NEW name, NEW x, x \in Stat, NEW f, NEW g, NEW imported, NEW list,
         Sees(t, s, k, name, x, f, list), Has(t, s, k, x, f, imported, list),
         g.type = f.type, g.name = f.name
  PROVE  Has(t, n, k, x, g, imported, list)
<1>1. /\ Tidy(n) /\ (Importing(n) <=> Importing(s))
      /\ FunDue(s) => FunDue(n)
  BY ReturnIs DEF Has
<1>2. ASSUME NodeDue(s), NEW j, IsVar(x, j), Is(t, j, "VAR"), Depth(t, j) = 0
      PROVE  FALSE
  <2>1. NodeRead(t, s, x, list)
    BY <1>2 DEF Sees
  <2>2. Below(s, "statlistp")
    <3>1. n[1] = "statlistp" /\ Below(s, n[1])
      BY DEF Returns, Returned, NextTo
    <3>. QED
      BY <3>1
  <2>3. Is(t, x.name, "ID") /\ Depth(t, x.name) # 0
    BY <1>2, <2>1, <2>2 DEF NodeRead, StatRead, Starts, FirstName, IsVar, On
  <2>4. x.name \in Int /\ j \in Nat /\ x.name = j + 1
    BY <1>2, <2>3 DEF IsVar, Is
  <2>. QED
    BY <1>2, <2>3, <2>4, DepthStep DEF Is
<1>3. HasVars(t, n, k, x, list)
  BY <1>2 DEF Has, HasVars, BeingRead
<1>4. HasFuns(t, n, k, g, list)
  BY <1>1 DEF Has, HasFuns, BeingRead, IsFun
<1>. QED
  BY <1>1, <1>3, <1>4 DEF Has, HasImports

-----------------------------------------------------------------------------
(* The next token *)

LEMMA HasLater ==
  ASSUME NEW t \in Seq(Tag), NEW tag \in Tag, NEW s, NEW k \in Int, k <= Len(t),
         NEW x, NEW f, NEW imported, NEW list, Has(t, s, k, x, f, imported, list)
  PROVE  Has(Append(t, tag), s, k, x, f, imported, list)
<1>. DEFINE u == Append(t, tag)
<1>1. ASSUME NEW j \in 1..k
      PROVE  (\A y : Is(u, j, y) <=> Is(t, j, y)) /\ Depth(u, j) = Depth(t, j)
  BY IsLater
<1>2. Count(u, k, "IMPORT") = Count(t, k, "IMPORT")
  BY IsLater
<1>. HIDE DEF u
<1>3. HasFuns(u, s, k, f, list)
  BY <1>1 DEF Has, HasFuns
<1>4. HasVars(u, s, k, x, list)
  BY <1>1 DEF Has, HasVars
<1>. QED
  BY <1>2, <1>3, <1>4 DEF Has, HasImports, u

\* The name that code makes something of is read.
LEMMA NameIsRead ==
  ASSUME NEW s, NEW n, NEW t, NEW k, NEW list, Read(s, n, t, k, list), s[1] \in Tag,
         NEW code \in NameCode, NEW j \in Int, BeingRead(s, k, j, code)
  PROVE  BeingRead(n, k + 1, j, code)
<1>1. code \notin Tag
  BY ItemsAre DEF NameCode
<1>2. s[1] = "ID" /\ Below(s, code) /\ j = k
  BY <1>1 DEF BeingRead
<1>3. n[1] \in NameCode /\ Below(s, n[1]) /\ Shaped(s)
  BY <1>2 DEF Read, Returns, Returned, NextTo, NameCode
<1>4. n[1] = code
  BY <1>2, <1>3, OneCode
<1>. QED
  BY <1>2, <1>4 DEF BeingRead

\* A name comes after FUN and VAR, and code that makes something of it.
LEMMA HasRead ==
  ASSUME NEW s, NEW n, NEW t, NEW k, NEW list, Read(s, n, t, k, list), s[1] \in Tag,
         Place(s), NEW x, NEW f, NEW imported, Len(imported) \in Nat,
         Has(t, s, k, x, f, imported, list)
  PROVE  Has(t, n, k + 1, x, f, imported, list)
<1>1. /\ Shaped(s) /\ s # << >> /\ Returns(s, n) /\ k \in Nat /\ t[k + 1] = s[1]
      /\ n[1] \in NextTo(s[1])
      /\ \A z : Below(s, z) <=> z = n[1] \/ Below(n, z)
  BY DEF Read, Is, Returns, Returned
<1>2. s[1] \notin {"importlist:add", "filep:add_fundef", "filep:add_stat", "statlistp:add"}
  BY ItemsAre
<1>3. /\ Tidy(n) /\ (FunDue(s) => FunDue(n)) /\ (NodeDue(s) => NodeDue(n))
      /\ s[1] # "IMPORT" => (Importing(n) <=> Importing(s))
      /\ s[1] = "IMPORT" => ~Importing(s) /\ Importing(n)
  BY <1>1, <1>2, ReturnIs DEF Has
<1>4. HasImports(t, n, k + 1, imported)
  <2>1. /\ Count(t, k, "IMPORT") \in Nat
        /\ Count(t, k + 1, "IMPORT")
             = Count(t, k, "IMPORT") + IF s[1] = "IMPORT" THEN 1 ELSE 0
    BY <1>1, CountStep
  <2>. QED
    BY <1>3, <2>1 DEF Has, HasImports
<1>5. ASSUME NEW j \in 1..(k + 1), j \notin 1..k, NEW tag, Is(t, j, tag)
      PROVE  s[1] = tag /\ j = k + 1
  BY <1>1, <1>5 DEF Is
<1>6. ASSUME NEW tag \in {"FUN", "VAR"}, s[1] = tag, NEW code \in NameCode, Below(s, code)
      PROVE  BeingRead(n, k + 1, k + 1, code)
  <2>1. n[1] = "ID"
    BY <1>1, <1>6 DEF NextTo
  <2>2. code # "ID"
    BY ItemsAre, TagsAre DEF NameCode
  <2>. QED
    BY <1>1, <1>6, <2>1, <2>2 DEF BeingRead
<1>7. "funsig:fun" \in NameCode /\ "statvardecl:var" \in NameCode
  BY DEF NameCode
<1>8. HasFuns(t, n, k + 1, f, list)
  <2>. SUFFICES ASSUME NEW j \in 1..(k + 1), Is(t, j, "FUN")
                PROVE  \/ FunListed(list, j) \/ (FunDue(n) /\ IsFun(f, j))
                       \/ BeingRead(n, k + 1, j, "funsig:fun")
    BY DEF HasFuns
  <2>1. CASE j \in 1..k
    BY <1>3, <1>7, <2>1, NameIsRead DEF Has, HasFuns
  <2>2. CASE j \notin 1..k
    <3>1. s[1] = "FUN" /\ j = k + 1
      BY <1>5, <2>2
    <3>. QED
      BY <1>6, <1>7, <3>1 DEF Place
  <2>. QED
    BY <2>1, <2>2
<1>9. HasVars(t, n, k + 1, x, list)
  <2>. SUFFICES ASSUME NEW j \in 1..(k + 1), Is(t, j, "VAR"), Depth(t, j) = 0
                PROVE  \/ VarListed(list, j) \/ (NodeDue(n) /\ IsVar(x, j))
                       \/ BeingRead(n, k + 1, j, "statvardecl:var")
    BY DEF HasVars
  <2>1. CASE j \in 1..k
    BY <1>3, <1>7, <2>1, NameIsRead DEF Has, HasVars
  <2>2. CASE j \notin 1..k
    <3>1. s[1] = "VAR" /\ j = k + 1
      BY <1>5, <2>2
    <3>. QED
      BY <1>6, <1>7, <3>1 DEF Place
  <2>. QED
    BY <2>1, <2>2
<1>. QED
  BY <1>3, <1>4, <1>8, <1>9 DEF Has

\* Every call of the parser is quiet.
LEMMA QuietCalls ==
  /\ Quiet("file", "importlist", {"filep", "EOF"})
  /\ Quiet("importlist", "IMPORT", {"qid", "importlist:add", "importlist"})
  /\ Quiet("filep", "PRIVATE", {"privatefilep", "filep"})
  /\ Quiet("filep", "nativefundef", {"filep:add_fundef", "filep"})
  /\ Quiet("filep", "fundef", {"filep:add_fundef", "filep"})
  /\ Quiet("filep", "stat", {"filep:add_stat", "filep"})
  /\ Quiet("privatefilep", "statvardecl", {"privatefilep:var", "filep:add_stat"})
  /\ Quiet("privatefilep", "nativefundef", {"privatefilep:fundef", "filep:add_fundef"})
  /\ Quiet("privatefilep", "fundef", {"privatefilep:fundef", "filep:add_fundef"})
  /\ Quiet("nativefundef", "NATIVE", {"funsig", "nativefundef:fun"})
  /\ Quiet("qid", "ID", {"qid:id", "qidp"})
  /\ Quiet("qidp", "DOT", {"ID", "qidp:id", "qidp"})
  /\ Quiet("stat", "statvardecl", {})
  /\ Quiet("stat", "qid", {"qidstatp"})
  /\ Quiet("statvardecl", "CONST", {"ID", "statvardecl:const", "assign"})
  /\ Quiet("statvardecl", "VAR", {"ID", "statvardecl:var", "statvardeclp"})
  /\ Quiet("statvardeclp", "assign", {})
  /\ Quiet("qidstatp", "assign", {})
  /\ Quiet("qidstatp", "invokeargs", {})
  /\ Quiet("assign", "ASSIGN", {"expr"})
  /\ Quiet("expr", "qid", {"qidexprp"})
  /\ Quiet("expr", "literal", {})
  /\ Quiet("literal", "NUM", {})
  /\ Quiet("qidexprp", "invokeargs", {})
  /\ Quiet("invokeargs", "LPT", {"invokearglist", "RPT"})
  /\ Quiet("invokearglist", "expr", {"invokearglistp"})
  /\ Quiet("invokearglistp", "COMMA", {"expr", "invokearglistp:add", "invokearglistp"})
  /\ Quiet("fundef", "funsig", {"statlist"})
  /\ Quiet("funsig", "FUN", {"ID", "funsig:fun", "LPT", "funarglist", "RPT"})
  /\ Quiet("funarglist", "funarg", {"funarglistp"})
  /\ Quiet("funarg", "CONST", {"ID", "funarg:arg"})
  /\ Quiet("funarg", "ID", {"funarg:arg"})
  /\ Quiet("funarglistp", "COMMA", {"funarglistp:min", "funarg", "funarglistp"})
  /\ Quiet("funarglistp", "assign", {"fundefarglistp"})
  /\ Quiet("fundefarglistp", "COMMA",
           {"funarg", "assign", "fundefarglistp:add", "fundefarglistp"})
  /\ Quiet("statlist", "LPG", {"statlistp", "RPG"})
  /\ Quiet("statlistp", "stat", {"statlistp:add", "statlistp"})
<1>. USE ItemsAre, TagsAre DEF Quiet, Orderly, MakesFun, MakesNode, NeedsNode, Starting
<1>1. Quiet("file", "importlist", {"filep", "EOF"})
  OBVIOUS
<1>2. Quiet("importlist", "IMPORT", {"qid", "importlist:add", "importlist"})
  OBVIOUS
<1>3. Quiet("filep", "PRIVATE", {"privatefilep", "filep"})
  OBVIOUS
<1>4. Quiet("filep", "nativefundef", {"filep:add_fundef", "filep"})
  OBVIOUS
<1>5. Quiet("filep", "fundef", {"filep:add_fundef", "filep"})
  OBVIOUS
<1>6. Quiet("filep", "stat", {"filep:add_stat", "filep"})
  OBVIOUS
<1>7. Quiet("privatefilep", "statvardecl", {"privatefilep:var", "filep:add_stat"})
  OBVIOUS
<1>8. Quiet("privatefilep", "nativefundef", {"privatefilep:fundef", "filep:add_fundef"})
  OBVIOUS
<1>9. Quiet("privatefilep", "fundef", {"privatefilep:fundef", "filep:add_fundef"})
  OBVIOUS
<1>10. Quiet("nativefundef", "NATIVE", {"funsig", "nativefundef:fun"})
  OBVIOUS
<1>11. Quiet("qid", "ID", {"qid:id", "qidp"})
  OBVIOUS
<1>12. Quiet("qidp", "DOT", {"ID", "qidp:id", "qidp"})
  OBVIOUS
<1>13. Quiet("stat", "statvardecl", {})
  OBVIOUS
<1>14. Quiet("stat", "qid", {"qidstatp"})
  OBVIOUS
<1>15. Quiet("statvardecl", "CONST", {"ID", "statvardecl:const", "assign"})
  OBVIOUS
<1>16. Quiet("statvardecl", "VAR", {"ID", "statvardecl:var", "statvardeclp"})
  OBVIOUS
<1>17. Quiet("statvardeclp", "assign", {})
  OBVIOUS
<1>18. Quiet("qidstatp", "assign", {})
  OBVIOUS
<1>19. Quiet("qidstatp", "invokeargs", {})
  OBVIOUS
<1>20. Quiet("assign", "ASSIGN", {"expr"})
  OBVIOUS
<1>21. Quiet("expr", "qid", {"qidexprp"})
  OBVIOUS
<1>22. Quiet("expr", "literal", {})
  OBVIOUS
<1>23. Quiet("literal", "NUM", {})
  OBVIOUS
<1>24. Quiet("qidexprp", "invokeargs", {})
  OBVIOUS
<1>25. Quiet("invokeargs", "LPT", {"invokearglist", "RPT"})
  OBVIOUS
<1>26. Quiet("invokearglist", "expr", {"invokearglistp"})
  OBVIOUS
<1>27. Quiet("invokearglistp", "COMMA", {"expr", "invokearglistp:add", "invokearglistp"})
  OBVIOUS
<1>28. Quiet("fundef", "funsig", {"statlist"})
  OBVIOUS
<1>29. Quiet("funsig", "FUN", {"ID", "funsig:fun", "LPT", "funarglist", "RPT"})
  OBVIOUS
<1>30. Quiet("funarglist", "funarg", {"funarglistp"})
  OBVIOUS
<1>31. Quiet("funarg", "CONST", {"ID", "funarg:arg"})
  OBVIOUS
<1>32. Quiet("funarg", "ID", {"funarg:arg"})
  OBVIOUS
<1>33. Quiet("funarglistp", "COMMA", {"funarglistp:min", "funarg", "funarglistp"})
  OBVIOUS
<1>34. Quiet("funarglistp", "assign", {"fundefarglistp"})
  OBVIOUS
<1>35. Quiet("fundefarglistp", "COMMA",
             {"funarg", "assign", "fundefarglistp:add", "fundefarglistp"})
  OBVIOUS
<1>36. Quiet("statlist", "LPG", {"statlistp", "RPG"})
  OBVIOUS
<1>37. Quiet("statlistp", "stat", {"statlistp:add", "statlistp"})
  OBVIOUS
<1>. QED
  BY ZenonT(60),
     <1>1, <1>2, <1>3, <1>4, <1>5, <1>6, <1>7, <1>8, <1>9, <1>10, <1>11, <1>12, <1>13,
     <1>14, <1>15, <1>16, <1>17, <1>18, <1>19, <1>20, <1>21, <1>22, <1>23, <1>24, <1>25,
     <1>26, <1>27, <1>28, <1>29, <1>30, <1>31, <1>32, <1>33, <1>34, <1>35, <1>36, <1>37

-----------------------------------------------------------------------------
(* The steps *)

LEMMA PlainHas ==
  ASSUME TypeInv, TreeInv, HasInv,
         \/ file \/ stat \/ statvardeclp \/ assign \/ expr \/ literal \/ qidexprp
         \/ invokeargs \/ invokearglist \/ invokearglistp \/ fundef \/ funarglist
         \/ statlist
  PROVE  HasInv'
<1>0. \A p \in {"statvardeclp", "qidexprp", "invokearglist", "invokearglistp",
                "funarglist"} : p \notin Tag \cup Counting
  BY ItemsAre DEF Counting
<1>1. CASE file
  BY <1>1, CallsHave, FileCalls, QuietCalls, DefaultHas DEF file
<1>2. CASE stat
  BY <1>2, CallsHave, StatCalls, QuietCalls DEF stat
<1>3. CASE statvardeclp
  BY <1>0, <1>3, CallsHave, StatvardeclpCalls, QuietCalls, ReturnHas, DefaultHas
     DEF statvardeclp
<1>4. CASE assign
  BY <1>4, CallsHave, AssignCalls, QuietCalls, DefaultHas DEF assign
<1>5. CASE expr
  BY <1>5, CallsHave, ExprCalls, QuietCalls, DefaultHas DEF expr
<1>6. CASE literal
  BY <1>6, CallsHave, LiteralCalls, QuietCalls DEF literal
<1>7. CASE qidexprp
  BY <1>0, <1>7, CallsHave, QidexprpCalls, QuietCalls, ReturnHas, DefaultHas DEF qidexprp
<1>8. CASE invokeargs
  BY <1>8, CallsHave, InvokeargsCalls, QuietCalls DEF invokeargs
<1>9. CASE invokearglist
  BY <1>0, <1>9, CallsHave, InvokearglistCalls, QuietCalls, ReturnHas, DefaultHas
     DEF invokearglist
<1>10. CASE invokearglistp
  <2>1. ASSUME After("invokearglistp:add"), UNCHANGED tree
        PROVE  HasInv'
    <3>1. "invokearglistp:add" \notin Tag \cup Counting
      BY ItemsAre DEF Counting
    <3>2. UNCHANGED <<node, fun, imports, stats>>
      BY <2>1 DEF tree
    <3>. QED
      BY <2>1, <3>1, <3>2, CodeHas
  <2>2. Stop("crash") => HasInv'
    BY StopHas
  <2>. QED
    BY <1>0, <1>10, <2>1, <2>2, CallsHave, InvokearglistpCalls, QuietCalls, ReturnHas,
       DefaultHas DEF invokearglistp
<1>11. CASE fundef
  BY <1>11, CallsHave, FundefCalls, QuietCalls DEF fundef
<1>12. CASE funarglist
  BY <1>0, <1>12, CallsHave, FunarglistCalls, QuietCalls, ReturnHas, DefaultHas
     DEF funarglist
<1>13. CASE statlist
  BY <1>13, CallsHave, StatlistCalls, QuietCalls, DefaultHas DEF statlist
<1>. QED
  BY <1>1, <1>2, <1>3, <1>4, <1>5, <1>6, <1>7, <1>8, <1>9, <1>10, <1>11, <1>12, <1>13

LEMMA ImportlistHas ==
  ASSUME TypeInv, TreeInv, HasInv, importlist
  PROVE  HasInv'
<1>1. CASE /\ After("importlist:add")
           /\ imports' = Append(imports, id)
           /\ UNCHANGED <<id, node, arg, fun, stats>>
  <2>1. id \in Seq(Name) /\ imports \in Seq(Seq(Name))
    BY TypeIs DEF TypeInv, TreeOK
  <2>. QED
    BY <1>1, <2>1, HasImported, AfterHas DEF HasHere
<1>2. At("importlist:add") /\ Stop("abort") => HasInv'
  BY StopHas
<1>3. "importlist" \notin Tag \cup Counting
  BY ItemsAre DEF Counting
<1>. QED
  BY <1>1, <1>2, <1>3, CallsHave, ImportlistCalls, QuietCalls, ReturnHas, DefaultHas
     DEF importlist

LEMMA FilepHas ==
  ASSUME TypeInv, TreeInv, HasInv, filep
  PROVE  HasInv'
<1>1. CASE Case("filep", {"PRIVATE"}, <<"PRIVATE", "privatefilep", "filep">>)
  BY <1>1, CallsHave, FilepCalls, QuietCalls
<1>2. CASE Case("filep", {"NATIVE", "FUN"},
                <<IF curr = "NATIVE" THEN "nativefundef" ELSE "fundef",
                  "filep:add_fundef", "filep">>)
  <2>1. CASE curr = "NATIVE"
    BY <1>2, <2>1, CallsHave, FilepCalls, QuietCalls
  <2>2. CASE curr # "NATIVE"
    BY <1>2, <2>2, CallsHave, FilepCalls, QuietCalls
  <2>. QED
    BY <2>1, <2>2
<1>3. CASE Case("filep", {"CONST", "VAR", "ID", "EOF"},
                IF curr = "EOF" THEN << >> ELSE <<"stat", "filep:add_stat", "filep">>)
  <2>1. curr # "EOF"
    BY <1>3, CurrIs DEF Case
  <2>. QED
    BY <1>3, <2>1, CallsHave, FilepCalls, QuietCalls
<1>4. ASSUME NEW code \in {"filep:add_fundef", "filep:add_stat"}, After(code),
             stats' = Append(stats, IF code = "filep:add_stat" THEN node ELSE fun),
             UNCHANGED <<id, node, arg, fun, imports>>
      PROVE  HasInv'
  <2>1. stack # << >> /\ Head(stack) = code
    BY <1>4 DEF After, At
  <2>2. /\ stats \in Seq(Stat \cup FunDef)
        /\ code = "filep:add_stat" => node \in Stat
        /\ code = "filep:add_fundef" => fun \in FunDef
    BY <1>4, <2>1, HeadNeeds, TypeIs DEF TypeInv, TreeOK, NeedsFun, NeedsNode
  <2>. DEFINE e == IF code = "filep:add_stat" THEN node ELSE fun
  <2>3. e \in Stat \cup FunDef /\ stats' = Append(stats, e)
        /\ (code = "filep:add_stat" => e = node) /\ (code = "filep:add_fundef" => e = fun)
    BY <1>4, <2>2
  <2>. HIDE DEF e
  <2>. QED
    BY <1>4, <2>2, <2>3, HasAdded, AfterHas DEF HasHere
<1>5. /\ At("filep:add_fundef") /\ Stop("abort") => HasInv'
      /\ At("filep:add_stat") /\ Stop("abort") => HasInv'
  BY StopHas
<1>. QED
  BY <1>1, <1>2, <1>3, <1>4, <1>5, DefaultHas DEF filep

LEMMA PrivatefilepHas ==
  ASSUME TypeInv, TreeInv, HasInv, privatefilep
  PROVE  HasInv'
<1>1. CASE Case("privatefilep", {"CONST", "VAR"},
                <<"statvardecl", "privatefilep:var", "filep:add_stat">>)
  BY <1>1, CallsHave, PrivatefilepCalls, QuietCalls
<1>2. CASE Case("privatefilep", {"NATIVE", "FUN"},
                <<IF curr = "NATIVE" THEN "nativefundef" ELSE "fundef",
                  "privatefilep:fundef", "filep:add_fundef">>)
  <2>1. CASE curr = "NATIVE"
    BY <1>2, <2>1, CallsHave, PrivatefilepCalls, QuietCalls
  <2>2. CASE curr # "NATIVE"
    BY <1>2, <2>2, CallsHave, PrivatefilepCalls, QuietCalls
  <2>. QED
    BY <2>1, <2>2
<1>0. /\ "privatefilep:var" \notin Tag \cup Counting
      /\ "privatefilep:fundef" \notin Tag \cup Counting
  BY ItemsAre DEF Counting
<1>3. CASE /\ After("privatefilep:var")
           /\ node' = [node EXCEPT !.is_private = TRUE]
           /\ UNCHANGED <<id, arg, fun, imports, stats>>
  <2>1. node \in Stat
    BY <1>3, HeadNeeds DEF After, At, NeedsNode
  <2>2. CASE node \in VarDecl
    <3>1. /\ node'.type = node.type /\ node'.name = node.name
          /\ node'.is_const = node.is_const
      BY <1>3, <2>2 DEF VarDecl
    <3>2. \A j : IsVar(node, j) => IsVar(node', j)
      BY <3>1 DEF IsVar
    <3>. QED
      BY <1>0, <1>3, <3>2, CodeHas
  <2>3. CASE node \in [type : {"STAT_VAR_ASSIGN", "STAT_INVOKE"}, name : Seq(Name)]
    <3>1. \A j : ~IsVar(node, j)
      BY <2>3 DEF IsVar
    <3>. QED
      BY <1>0, <1>3, <3>1, CodeHas
  <2>. QED
    BY <2>1, <2>2, <2>3 DEF Stat
<1>4. CASE /\ After("privatefilep:fundef")
           /\ fun' = [fun EXCEPT !.is_private = TRUE]
           /\ UNCHANGED <<id, node, arg, imports, stats>>
  <2>1. fun \in FunDef
    BY <1>4, HeadNeeds DEF After, At, NeedsFun
  <2>2. fun'.type = fun.type /\ fun'.name = fun.name
    BY <1>4, <2>1 DEF FunDef
  <2>3. \A j : IsFun(fun, j) => IsFun(fun', j)
    BY <2>2 DEF IsFun
  <2>. QED
    BY <1>0, <1>4, <2>3, CodeHas
<1>. QED
  BY <1>1, <1>2, <1>3, <1>4, DefaultHas DEF privatefilep

LEMMA NativefundefHas ==
  ASSUME TypeInv, TreeInv, HasInv, nativefundef
  PROVE  HasInv'
<1>1. CASE Case("nativefundef", {"NATIVE"}, <<"NATIVE", "funsig", "nativefundef:fun">>)
  BY <1>1, CallsHave, NativefundefCalls, QuietCalls
<1>2. CASE /\ After("nativefundef:fun")
           /\ fun' = [fun EXCEPT !.is_native = TRUE]
           /\ UNCHANGED <<id, node, arg, imports, stats>>
  <2>0. "nativefundef:fun" \notin Tag \cup Counting
    BY ItemsAre DEF Counting
  <2>1. fun \in FunDef
    BY <1>2, HeadNeeds DEF After, At, NeedsFun
  <2>2. fun'.type = fun.type /\ fun'.name = fun.name
    BY <1>2, <2>1 DEF FunDef
  <2>3. \A j : IsFun(fun, j) => IsFun(fun', j)
    BY <2>2 DEF IsFun
  <2>. QED
    BY <1>2, <2>0, <2>3, CodeHas
<1>. QED
  BY <1>1, <1>2 DEF nativefundef

LEMMA NamesHave ==
  ASSUME TypeInv, TreeInv, HasInv, qid \/ qidp \/ funarg
  PROVE  HasInv'
<1>1. ASSUME NEW code \in {"qid:id", "qidp:id", "funarg:arg"}, After(code),
             UNCHANGED <<node, fun, imports, stats>>
      PROVE  HasInv'
  <2>1. code \notin Tag \cup Counting
    BY ItemsAre DEF Counting
  <2>. QED
    BY <1>1, <2>1, CodeHas
<1>2. CASE qid
  BY <1>1, <1>2, CallsHave, QidCalls, QuietCalls, DefaultHas DEF qid
<1>3. CASE qidp
  <2>1. "qidp" \notin Tag \cup Counting
    BY ItemsAre DEF Counting
  <2>2. At("qidp:id") /\ Stop("exit") => HasInv'
    BY StopHas
  <2>. QED
    BY <1>1, <1>3, <2>1, <2>2, CallsHave, QidpCalls, QuietCalls, ReturnHas, DefaultHas
       DEF qidp
<1>4. CASE funarg
  BY <1>1, <1>4, CallsHave, FunargCalls, QuietCalls, DefaultHas DEF funarg
<1>. QED
  BY <1>2, <1>3, <1>4

LEMMA StatvardeclHas ==
  ASSUME TypeInv, TreeInv, HasInv, statvardecl
  PROVE  HasInv'
<1>1. ASSUME After("statvardecl:const"), UNCHANGED <<id, arg, fun, imports, stats>>
      PROVE  HasInv'
  <2>1. "statvardecl:const" \notin Tag \cup Counting
    BY ItemsAre DEF Counting
  <2>2. ~NodeDue(stack)
    BY <1>1, AtIs DEF After, NodeDue, MakesNode, On
  <2>. QED
    BY <1>1, <2>1, <2>2, CodeHas
<1>2. ASSUME After("statvardecl:var"), UNCHANGED <<id, arg, fun, imports, stats>>,
             node' = [type |-> "STAT_VAR_DECL", is_const |-> FALSE,
                      is_private |-> FALSE, name |-> prev]
      PROVE  HasInv'
  <2>1. IsVar(node', prev - 1)
    BY <1>2 DEF IsVar
  <2>2. prev \in Nat
    BY <1>2, CurrIs DEF After
  <2>3. After("statvardecl:var") /\ UNCHANGED <<fun, imports, stats>>
    BY <1>2
  <2>. QED
    BY <2>1, <2>2, <2>3, HasMade, AfterHas DEF HasHere
<1>. QED
  BY <1>1, <1>2, CallsHave, StatvardeclCalls, QuietCalls DEF statvardecl

LEMMA QidstatpHas ==
  ASSUME TypeInv, TreeInv, HasInv, qidstatp
  PROVE  HasInv'
<1>1. ASSUME At("qidstatp"), UNCHANGED <<tokens, fun, imports, stats, mismatch>>,
             NEW a \in {"invokeargs", "assign"}, Then(<<a>>)
      PROVE  HasInv'
  <2>1. /\ Shaped(stack) /\ stack # << >> /\ stack[1] = "qidstatp"
        /\ stack' = <<a>> \o Tail(stack)
    BY <1>1, AtIs DEF Then
  <2>2. Makes(stack, stack', a, {}) /\ Quiet("qidstatp", a, {})
    BY <1>1, <2>1, QidstatpCalls, QuietCalls
  <2>3. ~NodeDue(stack)
    BY <2>1 DEF NodeDue, MakesNode, On
  <2>4. ASSUME SeesHere, HasHere
        PROVE  Has(tokens, stack', prev, node', fun, imports, stats)
    <3>1. Onward(stack, stack')
      BY <2>1, <2>2, <2>4, CallIs DEF Onward, Makes, SeesHere, Sees, HasHere, Has
    <3>. QED
      BY <2>1, <2>3, <2>4, <3>1, HasOnward DEF HasHere
  <2>. QED
    BY <1>1, <2>4, TurnHas
<1>. QED
  BY <1>1, DefaultHas DEF qidstatp

LEMMA FunsigHas ==
  ASSUME TypeInv, TreeInv, HasInv, funsig
  PROVE  HasInv'
<1>1. ASSUME After("funsig:fun"), UNCHANGED <<id, node, arg, imports, stats>>,
             fun'.type = "PROGRAM_FUNDEF", fun'.name = prev
      PROVE  HasInv'
  <2>1. IsFun(fun', prev - 1)
    BY <1>1 DEF IsFun
  <2>2. prev \in Nat
    BY <1>1, CurrIs DEF After
  <2>. QED
    BY <1>1, <2>1, <2>2, HasMade, AfterHas DEF HasHere
<1>. QED
  BY <1>1, CallsHave, FunsigCalls, QuietCalls, DefaultHas DEF funsig

LEMMA ArgumentsAre ==
  ASSUME TypeInv, stack # << >>, Head(stack) \in NeedsFun, NEW argument \in Name,
         NEW def \in Argued(argument) \cup {fun}, NEW g \in {def, Mandatory(def)},
         NEW j, IsFun(fun, j)
  PROVE  IsFun(g, j)
<1>1. g.name = fun.name
  BY ArgumentsSame
<1>2. fun \in FunDef
  BY HeadNeeds
<1>3. def \in FunDef
  BY <1>2, ArguedTyped
<1>4. g.type = "PROGRAM_FUNDEF"
  BY <1>3 DEF Mandatory, FunDef
<1>. QED
  BY <1>1, <1>4 DEF IsFun

LEMMA ArgumentsHave ==
  ASSUME TypeInv, TreeInv, HasInv, countMandatory \/ fundefarglistp
  PROVE  HasInv'
<1>1. ASSUME NEW code \in {"funarglistp:min", "fundefarglistp:add"}, After(code),
             fun' \in Argued(0) \cup {Mandatory(fun)},
             UNCHANGED <<id, node, arg, imports, stats>>
      PROVE  HasInv'
  <2>1. code \notin Tag \cup Counting
    BY ItemsAre DEF Counting
  <2>2. \A j : IsFun(fun, j) => IsFun(fun', j)
    BY <1>1, ArgumentsAre DEF After, At, NeedsFun, Name
  <2>. QED
    BY <1>1, <2>1, <2>2, CodeHas
<1>2. CASE countMandatory
  BY <1>1, <1>2 DEF countMandatory
<1>3. CASE fundefarglistp
  <2>1. "fundefarglistp" \notin Tag \cup Counting
    BY ItemsAre DEF Counting
  <2>2. AddCrash("fundefarglistp:add", "args") => HasInv'
    BY StopHas DEF AddCrash
  <2>. QED
    BY <1>1, <1>3, <2>1, <2>2, CallsHave, FundefarglistpCalls, QuietCalls, ReturnHas, DefaultHas
       DEF fundefarglistp
<1>. QED
  BY <1>2, <1>3

LEMMA FunarglistpHas ==
  ASSUME TypeInv, TreeInv, HasInv, funarglistp
  PROVE  HasInv'
<1>0. CASE AddCrash("funarglistp", "args")
  BY <1>0, StopHas DEF AddCrash
<1>. SUFFICES ASSUME ~AddCrash("funarglistp", "args")
              PROVE  HasInv'
  BY <1>0
<1>1. /\ At("funarglistp") /\ UNCHANGED <<tokens, id, node, arg, imports, stats, mismatch>>
      /\ Head(stack) \in NeedsFun /\ stack # << >> /\ arg \in Name
  BY TypeIs DEF funarglistp, At, NeedsFun, TypeInv, TreeOK
<1>2. Shaped(stack) /\ stack[1] = "funarglistp"
  BY <1>1, AtIs
<1>3. PICK def \in Argued(arg) :
        \/ fun' = def /\ Then(<<"COMMA", "funarglistp:min", "funarg", "funarglistp">>)
        \/ fun' = def /\ Then(<<"assign", "fundefarglistp">>)
        \/ fun' = Mandatory(def) /\ Then(<< >>)
        \/ outcome' = "unexpected token" /\ UNCHANGED stack
  BY DEF funarglistp
<1>4. ASSUME fun' \in {def, Mandatory(def)},
             HasHere /\ SeesHere /\ stack' # << >> => Onward(stack, stack')
      PROVE  HasInv'
  <2>1. \A j : IsFun(fun, j) => IsFun(fun', j)
    BY <1>1, <1>4, ArgumentsAre
  <2>2. ASSUME SeesHere, HasHere, stack' # << >>
        PROVE  Has(tokens, stack', prev, node', fun', imports', stats')
    BY <1>1, <1>2, <1>4, <2>1, <2>2, HasOnward DEF HasHere
  <2>. QED
    BY <1>1, <2>2, TurnHas
<1>5. CASE outcome' = "unexpected token" /\ UNCHANGED stack
  <2>1. outcome' # "parsing"
    BY <1>5
  <2>. QED
    BY <2>1, EndHas
<1>6. ASSUME NEW a, NEW others, Makes(stack, stack', a, others),
             Quiet("funarglistp", a, others), HasHere, SeesHere
      PROVE  Onward(stack, stack')
  BY <1>1, <1>2, <1>6, CallIs DEF Onward, Makes, SeesHere, Sees, HasHere, Has
<1>7. ASSUME Then(<< >>), HasHere, stack' # << >>
      PROVE  Onward(stack, stack')
  BY <1>1, <1>2, <1>7, AtIs, ReturnOnward DEF Then, Returns, HasHere, Has
<1>8. CASE fun' = def /\ Then(<<"COMMA", "funarglistp:min", "funarg", "funarglistp">>)
  <2>1. /\ Makes(stack, stack', "COMMA", {"funarglistp:min", "funarg", "funarglistp"})
        /\ Quiet("funarglistp", "COMMA", {"funarglistp:min", "funarg", "funarglistp"})
    BY <1>1, <1>2, <1>8, FunarglistpCalls, QuietCalls DEF Then
  <2>. QED
    BY <1>4, <1>6, <1>8, <2>1
<1>9. CASE fun' = def /\ Then(<<"assign", "fundefarglistp">>)
  <2>1. /\ Makes(stack, stack', "assign", {"fundefarglistp"})
        /\ Quiet("funarglistp", "assign", {"fundefarglistp"})
    BY <1>1, <1>2, <1>9, FunarglistpCalls, QuietCalls DEF Then
  <2>. QED
    BY <1>4, <1>6, <1>9, <2>1
<1>10. CASE fun' = Mandatory(def) /\ Then(<< >>)
  BY <1>4, <1>7, <1>10
<1>. QED
  BY <1>3, <1>5, <1>8, <1>9, <1>10

LEMMA StatlistpHas ==
  ASSUME TypeInv, TreeInv, HasInv, statlistp
  PROVE  HasInv'
<1>1. ASSUME After("statlistp:add"), NEW def \in Bodied, fun' = def,
             UNCHANGED <<id, node, arg, imports, stats>>
      PROVE  HasInv'
  <2>1. Head(stack) = "statlistp:add" /\ stack # << >>
    BY <1>1 DEF After, At
  <2>2. fun \in FunDef /\ node \in Stat
    BY <2>1, HeadNeeds DEF NeedsFun, NeedsNode
  <2>3. fun'.name = fun.name /\ fun'.type = fun.type
    BY <1>1, <2>2, BodiedIs
  <2>4. After("statlistp:add") /\ UNCHANGED <<node, imports, stats>>
    BY <1>1
  <2>. QED
    BY <2>2, <2>3, <2>4, HasBody, AfterHas DEF HasHere, SeesHere
<1>2. "statlistp" \notin Tag \cup Counting
  BY ItemsAre DEF Counting
<1>3. CASE \/ Case("statlistp", {"CONST", "VAR", "ID"},
                   <<"stat", "statlistp:add", "statlistp">>)
           \/ Case("statlistp", {"RPG"}, << >>)
           \/ Default("statlistp", {"CONST", "VAR", "ID", "RPG"})
  BY <1>2, <1>3, CallsHave, StatlistpCalls, QuietCalls, ReturnHas, DefaultHas
<1>4. AddCrash("statlistp:add", "stats") => HasInv'
  BY StopHas DEF AddCrash
<1>. QED
  BY <1>1, <1>3, <1>4 DEF statlistp

-----------------------------------------------------------------------------
LEMMA ParseHas ==
  ASSUME TypeInv, TreeInv, HasInv, parse
  PROVE  HasInv'
<1>1. At("parse") /\ move(<< >>)
  BY DEF parse
<1>2. stack = <<"parse", "file">> /\ tokens = << >>
  <2>1. ASSUME tokens # << >> PROVE FALSE
    <3>1. Head(stack) \in Pending
      BY <1>1, <2>1 DEF TypeInv, Ready, At
    <3>. QED
      BY <1>1, <3>1, Sets DEF At, Pending, Symbol, Code, Functions, Terminal
  <2>. QED
    BY <2>1 DEF TypeInv, Ready
<1>3. CASE \E how : how # "parsing" /\ Stop(how)
  BY <1>3, StopHas
<1>4. ASSUME NEW tag \in Found, tokens' = Append(tokens, tag), Then(<< >>),
             UNCHANGED <<tree, mismatch, outcome>>
      PROVE  HasInv'
  <2>1. prev = -1 /\ prev' = 0 /\ stack' = <<"file">>
    <3>1. tokens' = <<tag>> /\ stack' = << >> \o Tail(stack)
      BY <1>2, <1>4 DEF Then
    <3>. QED
      BY <1>2, <3>1 DEF prev
  <2>2. ASSUME mismatch = 0 PROVE Len(imports) = 0
    <3>1. HasImports(tokens, stack, prev, imports)
      BY <1>1, <2>2 DEF At, HasInv, Has
    <3>2. ~Importing(stack)
      BY <1>2 DEF Importing, On, Below
    <3>3. Count(tokens, -1, "IMPORT") = 0
      <4>1. {j \in 1..(-1) : tokens[j] = "IMPORT"} = {}
        OBVIOUS
      <4>. QED
        BY <4>1, FS_EmptySet DEF Count
    <3>4. imports \in Seq(Seq(Name))
      BY TypeIs DEF TypeInv, TreeOK
    <3>. QED
      BY <2>1, <3>1, <3>2, <3>3, <3>4 DEF HasImports
  <2>3. ASSUME NEW t, NEW x, NEW f, NEW imported, Len(imported) = 0, NEW list
        PROVE  Has(t, <<"file">>, 0, x, f, imported, list)
    <3>. DEFINE s == <<"file">>
    <3>1. s[1] = "file" /\ \A y : ~Below(s, y)
      BY DEF Below
    <3>2. Count(t, 0, "IMPORT") = 0
      <4>1. {j \in 1..0 : t[j] = "IMPORT"} = {}
        OBVIOUS
      <4>. QED
        BY <4>1, FS_EmptySet DEF Count
    <3>. HIDE DEF s
    <3>3. Tidy(s) /\ ~Importing(s)
      BY <3>1 DEF Tidy, OneMakes, On, MakesFun, MakesNode, Importing
    <3>4. \A j : j \notin 1..0
      OBVIOUS
    <3>5. HasFuns(t, s, 0, f, list) /\ HasVars(t, s, 0, x, list)
      BY <3>4 DEF HasFuns, HasVars
    <3>. QED
      BY <3>2, <3>3, <3>5, <2>3 DEF Has, HasImports, s
  <2>4. UNCHANGED <<node, fun, imports, stats, mismatch>>
    BY <1>4 DEF tree
  <2>. QED
    BY <2>1, <2>2, <2>3, <2>4 DEF HasInv
<1>. QED
  <2>1. CASE \E tag \in Found : tokens' = Append(tokens, tag) /\ Then(<< >>)
                                  /\ UNCHANGED <<tree, mismatch, outcome>>
    BY <1>4, <2>1
  <2>. QED
    BY <1>1, <1>3, <2>1 DEF move

LEMMA ComplainsHave ==
  ASSUME TypeInv, match, complains
  PROVE  HasInv'
<1>1. mismatch' # 0
  <2>1. tokens \in Seq(Tag \ {"EOF"}) /\ mismatch \in 0..Len(tokens) /\ tokens # << >>
    BY TypeIs DEF TypeInv, match
  <2>2. Len(tokens) # 0
    BY <2>1
  <2>. QED
    BY <2>1, <2>2 DEF complains
<1>. QED
  BY <1>1 DEF HasInv

LEMMA MatchesHave ==
  ASSUME TypeInv, TreeInv, HasInv, match, matches
  PROVE  HasInv'
<1>1. /\ tokens \in Seq(Tag) /\ tokens # << >> /\ imports \in Seq(Seq(Name))
      /\ mismatch \in Nat /\ Len(tokens) \in Nat /\ curr \in Tag \ {"EOF"}
  <2>1. tokens \in Seq(Tag \ {"EOF"}) /\ tokens # << >>
    BY DEF match, TypeInv, Ready
  <2>2. imports \in Seq(Seq(Name)) /\ mismatch \in 0..Len(tokens)
    BY TypeIs DEF TypeInv, TreeOK
  <2>. QED
    BY <2>1, <2>2 DEF curr
<1>2. At(curr) /\ move(<< >>)
  BY <1>1 DEF matches
<1>3. CASE \E how : how # "parsing" /\ Stop(how)
  BY <1>3, StopHas
<1>4. ASSUME NEW tag \in Found, tokens' = Append(tokens, tag), Then(<< >>),
             UNCHANGED <<tree, mismatch, outcome>>
      PROVE  HasInv'
  <2>1. /\ tag \in Tag /\ Len(tokens') = Len(tokens) + 1
        /\ prev = Len(tokens) - 1 /\ prev \in Nat /\ prev' = prev + 1
        /\ tokens'[prev + 1] = curr /\ prev + 1 \in 1..Len(tokens')
        /\ stack' = << >> \o Tail(stack)
        /\ UNCHANGED <<node, fun, imports, stats, mismatch>>
    <3>1. tag \in Tag
      BY FoundAre
    <3>2. Len(tokens) # 0
      BY <1>1
    <3>. QED
      BY <1>1, <1>4, <3>1, <3>2 DEF prev, curr, Then, tree
  <2>2. Shaped(stack) /\ stack # << >> /\ stack[1] = curr
        /\ (stack' # << >> => Returns(stack, stack'))
    BY <1>2, <2>1, AtIs DEF Returns
  <2>3. ASSUME mismatch = 0, stack' # << >>
        PROVE  Has(tokens', stack', prev + 1, node, fun, imports, stats)
    <3>1. SeesHere /\ ProgramRead(tokens, stats)
      BY <1>2, <2>3, AtIs
    <3>2. Read(stack, stack', tokens', prev, stats)
      <4>1. Old(stats, prev)
        BY <2>1, <3>1 DEF ProgramRead
      <4>. QED
        BY <2>1, <2>2, <2>3, <4>1 DEF Read, Is
    <3>3. Has(tokens, stack, prev, node, fun, imports, stats)
      BY <1>2, <2>3 DEF At, HasInv
    <3>4. prev <= Len(tokens) /\ prev \in Int
      BY <1>1, <2>1
    <3>5. Has(Append(tokens, tag), stack, prev, node, fun, imports, stats)
      BY <1>1, <2>1, <3>3, <3>4, HasLater
    <3>6. Has(tokens', stack, prev, node, fun, imports, stats)
      BY <1>4, <3>5
    <3>7. Place(stack) /\ stack[1] \in Tag /\ Len(imports) \in Nat
      BY <1>1, <2>2, <3>1 DEF SeesHere, Sees
    <3>. QED
      BY <3>2, <3>6, <3>7, HasRead
  <2>. QED
    BY <2>1, <2>3 DEF HasInv
<1>. QED
  <2>1. CASE \E tag \in Found : tokens' = Append(tokens, tag) /\ Then(<< >>)
                                  /\ UNCHANGED <<tree, mismatch, outcome>>
    BY <1>4, <2>1
  <2>. QED
    BY <1>2, <1>3, <2>1 DEF move

LEMMA HasInvKept ==
  ASSUME TypeInv, TreeInv, HasInv, [Next]_vars
  PROVE  HasInv'
<1>1. CASE UNCHANGED vars
  <2>1. UNCHANGED <<tokens, stack, node, fun, imports, stats, mismatch, outcome>>
    BY <1>1 DEF vars, tree
  <2>2. prev' = prev
    BY <2>1 DEF prev
  <2>. QED
    BY <2>1, <2>2 DEF HasInv
<1>2. CASE match
  BY <1>2, ComplainsHave, MatchesHave DEF match
<1>3. CASE Next /\ ~match
  BY <1>3, ParseHas, PlainHas, ImportlistHas, FilepHas, PrivatefilepHas, NativefundefHas,
     NamesHave, StatvardeclHas, QidstatpHas, FunsigHas, ArgumentsHave, FunarglistpHas,
     StatlistpHas DEF Next
<1>. QED
  BY <1>1, <1>2, <1>3

LEMMA HasInvInit ==
  ASSUME Init
  PROVE  HasInv
<1>1. /\ stack = <<"parse", "file">> /\ tokens = << >> /\ imports = << >>
      /\ prev = -1
  BY DEF Init, prev
<1>2. stack[1] = "parse" /\ \A x : Below(stack, x) => x = "file"
  BY <1>1 DEF Below
<1>3. Tidy(stack) /\ ~Importing(stack)
  BY <1>2 DEF Tidy, OneMakes, On, MakesFun, MakesNode, Importing
<1>4. Count(tokens, -1, "IMPORT") = 0
  <2>1. {j \in 1..(-1) : tokens[j] = "IMPORT"} = {}
    OBVIOUS
  <2>. QED
    BY <2>1, FS_EmptySet DEF Count
<1>5. HasImports(tokens, stack, prev, imports)
  BY <1>1, <1>3, <1>4 DEF HasImports
<1>6. \A j : j \notin 1..(-1)
  OBVIOUS
<1>7. HasFuns(tokens, stack, prev, fun, stats) /\ HasVars(tokens, stack, prev, node, stats)
  BY <1>1, <1>6 DEF HasFuns, HasVars
<1>. QED
  BY <1>3, <1>5, <1>7 DEF HasInv, Has

-----------------------------------------------------------------------------
(* Between two statements of the file nothing is due. *)

LEMMA NothingDue ==
  ASSUME NEW s, Shaped(s), s # << >>, s[1] = "filep"
  PROVE  ~Importing(s) /\ ~FunDue(s) /\ ~NodeDue(s)
<1>1. ASSUME NEW x, Below(s, x), x \in Item \ Tag
      PROVE  Level(x) > 10
  <2>1. Above(s[1], x)
    BY <1>1, Apart
  <2>. QED
    BY <1>1, <2>1, Levels, ItemsAre, LevelIsNat DEF Above
<1>2. /\ ~Below(s, "importlist:add") /\ ~Below(s, "filep:add_fundef")
      /\ \A x \in NeedsNode : ~Below(s, x)
  BY <1>1, MakesLevels, LevelIsNat
<1>. QED
  BY <1>2 DEF Importing, FunDue, NodeDue, NeedsNode, On

LEMMA HasIsComplete ==
  ASSUME TypeInv, TreeInv, HasInv
  PROVE  TreeComplete
<1>. DEFINE ReadOf(tag) == {k \in 1..prev : tokens[k] = tag}
            ListedAs(type) == {i \in DOMAIN stats : stats[i].type = type}
            Vars == {j \in ListedAs("STAT_VAR_DECL") : ~stats[j].is_const}
<1>. SUFFICES ASSUME At("filep"), mismatch = 0
              PROVE  /\ Len(imports) = Cardinality(ReadOf("IMPORT"))
                     /\ {stats[i].name - 1 : i \in ListedAs("PROGRAM_FUNDEF")} = ReadOf("FUN")
                     /\ {stats[i].name - 1 : i \in Vars}
                          = {k \in ReadOf("VAR") : TopLevel(k)}
  BY DEF TreeComplete
<1>1. /\ Shaped(stack) /\ stack # << >> /\ stack[1] = "filep"
      /\ SeesHere /\ ProgramRead(tokens, stats)
  BY AtIs
<1>2. ~Importing(stack) /\ ~FunDue(stack) /\ ~NodeDue(stack)
  BY <1>1, NothingDue
<1>3. /\ HasImports(tokens, stack, prev, imports)
      /\ HasFuns(tokens, stack, prev, fun, stats)
      /\ HasVars(tokens, stack, prev, node, stats)
  BY DEF At, HasInv, Has
<1>4. /\ tokens \in Seq(Tag) /\ Len(tokens) \in Nat /\ prev = Len(tokens) - 1 /\ prev \in Nat
      /\ stats \in Seq(Stat \cup FunDef) /\ DOMAIN stats = 1..Len(stats)
      /\ imports \in Seq(Seq(Name))
  BY CurrIs, TypeIs DEF TypeInv, TreeOK
<1>5. Len(imports) = Cardinality(ReadOf("IMPORT"))
  BY <1>2, <1>3, <1>4 DEF HasImports, Count
<1>6. ASSUME NEW j \in 1..prev, NEW tag
      PROVE  Is(tokens, j, tag) <=> tokens[j] = tag
  BY <1>4 DEF Is
<1>7. {stats[i].name - 1 : i \in ListedAs("PROGRAM_FUNDEF")} = ReadOf("FUN")
  <2>1. ASSUME NEW j \in ReadOf("FUN")
        PROVE  \E i \in ListedAs("PROGRAM_FUNDEF") : j = stats[i].name - 1
    <3>1. FunListed(stats, j)
      BY <1>1, <1>2, <1>3, <1>6, <2>1 DEF HasFuns, BeingRead
    <3>. QED
      BY <1>4, <3>1 DEF FunListed, IsFun
  <2>2. ASSUME NEW i \in ListedAs("PROGRAM_FUNDEF")
        PROVE  stats[i].name - 1 \in ReadOf("FUN")
    <3>1. SignatureRead(tokens, stats[i])
      BY <1>1, <1>4, <2>2 DEF ProgramRead, ElementRead
    <3>. QED
      BY <1>4, <3>1 DEF SignatureRead, Is
  <2>. QED
    BY <2>1, <2>2
<1>8. {stats[i].name - 1 : i \in Vars} = {k \in ReadOf("VAR") : TopLevel(k)}
  <2>1. ASSUME NEW j \in ReadOf("VAR"), TopLevel(j)
        PROVE  \E i \in Vars : j = stats[i].name - 1
    <3>1. Depth(tokens, j) = 0
      BY <2>1, TopLevelIs
    <3>2. VarListed(stats, j)
      BY <1>1, <1>2, <1>3, <1>6, <2>1, <3>1 DEF HasVars, BeingRead
    <3>. QED
      BY <1>4, <3>2 DEF VarListed, IsVar
  <2>2. ASSUME NEW i \in Vars
        PROVE  stats[i].name - 1 \in ReadOf("VAR") /\ TopLevel(stats[i].name - 1)
    <3>1. /\ stats[i] \in Stat \cup FunDef /\ stats[i].type = "STAT_VAR_DECL"
          /\ ~stats[i].is_const
      BY <1>4
    <3>2. /\ Is(tokens, stats[i].name, "ID") /\ stats[i].name < Len(tokens)
          /\ Is(tokens, stats[i].name - 1, "VAR")
          /\ Depth(tokens, stats[i].name) = 0
      BY <1>1, <1>4, <3>1 DEF ProgramRead, ElementRead, StatRead, FirstName
    <3>. DEFINE j == stats[i].name - 1
    <3>3. j \in 1..prev /\ j \in Nat /\ stats[i].name = j + 1 /\ tokens[j] = "VAR"
          /\ tokens[j + 1] = "ID"
      BY <1>4, <3>2 DEF Is
    <3>4. Depth(tokens, j + 1) = Depth(tokens, j)
      BY <3>3, DepthStep
    <3>. QED
      BY <3>2, <3>3, <3>4, TopLevelIs
  <2>. QED
    BY <2>1, <2>2
<1>. QED
  BY <1>5, <1>7, <1>8

\* Between two statements of the file the tree has everything that came
\* before, for every text: no import, function or variable of the file is
\* lost, whatever calls it took to read it, and none comes from elsewhere.
THEOREM TreeIsComplete == Spec => []TreeComplete
<1>1. Init => TreeInv /\ HasInv
  BY TreeInvInit, HasInvInit
<1>2. TypeInv /\ TreeInv /\ HasInv /\ [Next]_vars => TreeInv' /\ HasInv'
  BY TreeInvKept, HasInvKept
<1>3. TypeInv /\ TreeInv /\ HasInv => TreeComplete
  BY HasIsComplete
<1>. QED
  BY <1>1, <1>2, <1>3, TypeInvHolds, PTL DEF Spec

-----------------------------------------------------------------------------
(***************************************************************************)
(* Parentheses: what is on the stack closes those that are open.           *)
(***************************************************************************)

\* Parentheses that are open, among the first k items
Nest(t, k) == Count(t, k, "LPT") - Count(t, k, "RPT")

LEMMA NestStep ==
  ASSUME NEW t, NEW k \in Nat
  PROVE  /\ Nest(t, k) \in Int
         /\ t[k + 1] = "LPT" => Nest(t, k + 1) = Nest(t, k) + 1
         /\ t[k + 1] = "RPT" => Nest(t, k + 1) = Nest(t, k) - 1
         /\ t[k + 1] \notin {"LPT", "RPT"} => Nest(t, k + 1) = Nest(t, k)
<1>1. /\ Count(t, k, "LPT") \in Nat /\ Count(t, k, "RPT") \in Nat
      /\ Count(t, k + 1, "LPT") = Count(t, k, "LPT") + IF t[k + 1] = "LPT" THEN 1 ELSE 0
      /\ Count(t, k + 1, "RPT") = Count(t, k, "RPT") + IF t[k + 1] = "RPT" THEN 1 ELSE 0
  BY CountStep
<1>. QED
  BY <1>1 DEF Nest

LEMMA NestNone == \A t : Nest(t, 0) = 0
<1>1. \A t, x : Count(t, 0, x) = 0
  BY FS_EmptySet DEF Count
<1>. QED
  BY <1>1 DEF Nest

\* What begins alike is as deep.
LEMMA NestAlike ==
  ASSUME NEW t, NEW u, NEW k \in Int, \A j \in 1..k : t[j] = u[j]
  PROVE  Nest(t, k) = Nest(u, k)
<1>1. \A x : {j \in 1..k : t[j] = x} = {j \in 1..k : u[j] = x}
  OBVIOUS
<1>. QED
  BY <1>1 DEF Nest, Count

LEMMA NestConcat ==
  ASSUME NEW S, NEW a \in Seq(S), NEW b \in Seq(S)
  PROVE  /\ Nest(a \o b, Len(a \o b)) = Nest(a, Len(a)) + Nest(b, Len(b))
         /\ Nest(a, Len(a)) \in Int /\ Nest(b, Len(b)) \in Int
<1>. DEFINE c == a \o b
            m == Len(a)
            Bad == {n \in Nat : n <= Len(b) /\ Nest(c, m + n) # Nest(a, m) + Nest(b, n)}
<1>1. /\ c \in Seq(S) /\ Len(c) = m + Len(b) /\ m \in Nat /\ Len(b) \in Nat
      /\ \A i \in 1..m : c[i] = a[i]
      /\ \A i \in 1..Len(b) : c[m + i] = b[i]
  BY SeqConcat
<1>. HIDE DEF c, m
<1>2. Nest(a, m) \in Int /\ Nest(b, Len(b)) \in Int
  BY <1>1, NestStep
<1>3. Bad = {}
  <2>. SUFFICES ASSUME Bad # {} PROVE FALSE
    OBVIOUS
  <2>1. PICK n \in Bad : \A y \in Bad : n <= y
    BY LeastExists
  <2>2. n # 0
    <3>1. Nest(c, m) = Nest(a, m)
      BY <1>1, NestAlike
    <3>. QED
      BY <1>1, <1>2, <2>1, <3>1, NestNone
  <2>. DEFINE k == n - 1
  <2>3. k \in Nat /\ k + 1 = n /\ k + 1 \in 1..Len(b) /\ m + k \in Nat /\ (m + k) + 1 = m + n
    BY <1>1, <2>1, <2>2
  <2>4. Nest(c, m + k) = Nest(a, m) + Nest(b, k)
    <3>1. ~(n <= k) /\ k <= Len(b)
      BY <1>1, <2>1, <2>3
    <3>. QED
      BY <2>1, <2>3, <3>1
  <2>5. c[(m + k) + 1] = b[k + 1]
    BY <1>1, <2>3
  <2>6. /\ Nest(b, k) \in Int
        /\ b[k + 1] = "LPT" => Nest(b, k + 1) = Nest(b, k) + 1
        /\ b[k + 1] = "RPT" => Nest(b, k + 1) = Nest(b, k) - 1
        /\ b[k + 1] \notin {"LPT", "RPT"} => Nest(b, k + 1) = Nest(b, k)
    BY <2>3, NestStep
  <2>7. /\ c[(m + k) + 1] = "LPT" => Nest(c, (m + k) + 1) = Nest(c, m + k) + 1
        /\ c[(m + k) + 1] = "RPT" => Nest(c, (m + k) + 1) = Nest(c, m + k) - 1
        /\ c[(m + k) + 1] \notin {"LPT", "RPT"} => Nest(c, (m + k) + 1) = Nest(c, m + k)
    BY <2>3, NestStep
  <2>8. Nest(c, m + n) = Nest(a, m) + Nest(b, n)
    BY <1>2, <2>3, <2>4, <2>5, <2>6, <2>7
  <2>. QED
    BY <2>1, <2>8
<1>4. Nest(c, m + Len(b)) = Nest(a, m) + Nest(b, Len(b))
  <2>1. Len(b) \notin Bad
    <3>. HIDE DEF Bad
    <3>. QED
      BY <1>3
  <2>2. Len(b) \in Nat /\ Len(b) <= Len(b)
    BY <1>1
  <2>. QED
    BY <2>1, <2>2
<1>. QED
  BY <1>1, <1>2, <1>4 DEF c, m

LEMMA NestOne ==
  ASSUME NEW a
  PROVE  /\ a = "LPT" => Nest(<<a>>, Len(<<a>>)) = 1
         /\ a = "RPT" => Nest(<<a>>, Len(<<a>>)) = -1
         /\ a \notin {"LPT", "RPT"} => Nest(<<a>>, Len(<<a>>)) = 0
<1>1. Len(<<a>>) = 0 + 1 /\ <<a>>[0 + 1] = a
  OBVIOUS
<1>. QED
  BY <1>1, NestStep, NestNone

\* Form leaves out nothing that is counted.
LEMMA FormNest ==
  ASSUME NEW s \in Seq(Item)
  PROVE  Nest(Form[s], Len(Form[s])) = Nest(s, Len(s))
<1>. DEFINE Bad(r) == Nest(Form[r], Len(Form[r])) # Nest(r, Len(r))
            Lengths == {n \in Nat : \E r \in Seq(Item) : Len(r) = n /\ Bad(r)}
<1>1. SUFFICES ASSUME Lengths # {} PROVE FALSE
  <2>1. Len(s) \in Nat
    OBVIOUS
  <2>. QED
    BY <1>1, <2>1
<1>2. PICK n \in Lengths : \A y \in Lengths : n <= y
  BY <1>1, LeastExists
<1>3. PICK r \in Seq(Item) : Len(r) = n /\ Bad(r)
  BY <1>2
<1>4. r # << >>
  BY <1>3, FormEmpty
<1>. DEFINE a == Head(r)
            q == Tail(r)
<1>5. /\ a \in Item /\ q \in Seq(Item) /\ Len(q) = n - 1 /\ Len(q) \in Nat
      /\ r = <<a>> \o q /\ <<a>> \in Seq(Item)
  BY <1>3, <1>4, SeqParts
<1>. HIDE DEF a, q
<1>6. ~Bad(q)
  <2>1. n \in Nat /\ ~(n <= Len(q))
    BY <1>2, <1>5
  <2>. QED
    BY <1>2, <1>5, <2>1
<1>7. /\ Nest(r, Len(r)) = Nest(<<a>>, Len(<<a>>)) + Nest(q, Len(q))
      /\ Nest(<<a>>, Len(<<a>>)) \in Int /\ Nest(q, Len(q)) \in Int
  BY <1>5, NestConcat
<1>8. Form[r] = (IF a \in Continuations THEN Form[q] ELSE <<a>> \o Form[q]) /\ Form[q] \in Seq(Item)
  BY <1>5, FormFirst, FormUnfolds
<1>9. CASE a \in Continuations
  <2>1. a \notin {"LPT", "RPT"}
    BY <1>9 DEF Continuations
  <2>. QED
    BY <1>3, <1>6, <1>7, <1>8, <1>9, <2>1, NestOne
<1>10. CASE a \notin Continuations
  <2>1. Nest(<<a>> \o Form[q], Len(<<a>> \o Form[q]))
          = Nest(<<a>>, Len(<<a>>)) + Nest(Form[q], Len(Form[q]))
    BY <1>5, <1>8, NestConcat
  <2>. QED
    BY <1>3, <1>6, <1>7, <1>8, <1>10, <2>1
<1>. QED
  BY <1>9, <1>10

\* Neither opens nor closes
Parenless(s) == \A i \in 1..Len(s) : s[i] \notin {"LPT", "RPT"}

LEMMA NestParenless ==
  ASSUME NEW s, NEW k \in Int, \A i \in 1..k : s[i] \notin {"LPT", "RPT"}
  PROVE  Nest(s, k) = 0
<1>1. {j \in 1..k : s[j] = "LPT"} = {} /\ {j \in 1..k : s[j] = "RPT"} = {}
  OBVIOUS
<1>2. Count(s, k, "LPT") = 0 /\ Count(s, k, "RPT") = 0
  BY <1>1, FS_EmptySet DEF Count
<1>. QED
  BY <1>2 DEF Nest

LEMMA RulesParenless ==
  /\ Parenless(<<"ID">>)
  /\ Parenless(<<"NUM">>)
  /\ Parenless(<<"assign">>)
  /\ Parenless(<<"fundef">>)
  /\ Parenless(<<"invokeargs">>)
  /\ Parenless(<<"literal">>)
  /\ Parenless(<<"nativefundef">>)
  /\ Parenless(<<"statvardecl">>)
  /\ Parenless(<<"ASSIGN", "expr">>)
  /\ Parenless(<<"CONST", "ID">>)
  /\ Parenless(<<"ID", "qidp">>)
  /\ Parenless(<<"NATIVE", "funsig">>)
  /\ Parenless(<<"assign", "fundefarglistp">>)
  /\ Parenless(<<"expr", "invokearglistp">>)
  /\ Parenless(<<"funarg", "funarglistp">>)
  /\ Parenless(<<"fundef", "filep">>)
  /\ Parenless(<<"funsig", "statlist">>)
  /\ Parenless(<<"nativefundef", "filep">>)
  /\ Parenless(<<"qid", "qidexprp">>)
  /\ Parenless(<<"qid", "qidstatp">>)
  /\ Parenless(<<"stat", "filep">>)
  /\ Parenless(<<"stat", "statlistp">>)
  /\ Parenless(<<"COMMA", "expr", "invokearglistp">>)
  /\ Parenless(<<"COMMA", "funarg", "funarglistp">>)
  /\ Parenless(<<"CONST", "ID", "assign">>)
  /\ Parenless(<<"DOT", "ID", "qidp">>)
  /\ Parenless(<<"IMPORT", "qid", "importlist">>)
  /\ Parenless(<<"LPG", "statlistp", "RPG">>)
  /\ Parenless(<<"PRIVATE", "privatefilep", "filep">>)
  /\ Parenless(<<"VAR", "ID", "statvardeclp">>)
  /\ Parenless(<<"importlist", "filep", "EOF">>)
  /\ Parenless(<<"COMMA", "funarg", "assign", "fundefarglistp">>)
  /\ Parenless(<< >>)
<1>1. Parenless(<<"ID">>)
  BY DEF Parenless
<1>2. Parenless(<<"NUM">>)
  BY DEF Parenless
<1>3. Parenless(<<"assign">>)
  BY DEF Parenless
<1>4. Parenless(<<"fundef">>)
  BY DEF Parenless
<1>5. Parenless(<<"invokeargs">>)
  BY DEF Parenless
<1>6. Parenless(<<"literal">>)
  BY DEF Parenless
<1>7. Parenless(<<"nativefundef">>)
  BY DEF Parenless
<1>8. Parenless(<<"statvardecl">>)
  BY DEF Parenless
<1>9. Parenless(<<"ASSIGN", "expr">>)
  BY DEF Parenless
<1>10. Parenless(<<"CONST", "ID">>)
  BY DEF Parenless
<1>11. Parenless(<<"ID", "qidp">>)
  BY DEF Parenless
<1>12. Parenless(<<"NATIVE", "funsig">>)
  BY DEF Parenless
<1>13. Parenless(<<"assign", "fundefarglistp">>)
  BY DEF Parenless
<1>14. Parenless(<<"expr", "invokearglistp">>)
  BY DEF Parenless
<1>15. Parenless(<<"funarg", "funarglistp">>)
  BY DEF Parenless
<1>16. Parenless(<<"fundef", "filep">>)
  BY DEF Parenless
<1>17. Parenless(<<"funsig", "statlist">>)
  BY DEF Parenless
<1>18. Parenless(<<"nativefundef", "filep">>)
  BY DEF Parenless
<1>19. Parenless(<<"qid", "qidexprp">>)
  BY DEF Parenless
<1>20. Parenless(<<"qid", "qidstatp">>)
  BY DEF Parenless
<1>21. Parenless(<<"stat", "filep">>)
  BY DEF Parenless
<1>22. Parenless(<<"stat", "statlistp">>)
  BY DEF Parenless
<1>23. Parenless(<<"COMMA", "expr", "invokearglistp">>)
  BY DEF Parenless
<1>24. Parenless(<<"COMMA", "funarg", "funarglistp">>)
  BY DEF Parenless
<1>25. Parenless(<<"CONST", "ID", "assign">>)
  BY DEF Parenless
<1>26. Parenless(<<"DOT", "ID", "qidp">>)
  BY DEF Parenless
<1>27. Parenless(<<"IMPORT", "qid", "importlist">>)
  BY DEF Parenless
<1>28. Parenless(<<"LPG", "statlistp", "RPG">>)
  BY DEF Parenless
<1>29. Parenless(<<"PRIVATE", "privatefilep", "filep">>)
  BY DEF Parenless
<1>30. Parenless(<<"VAR", "ID", "statvardeclp">>)
  BY DEF Parenless
<1>31. Parenless(<<"importlist", "filep", "EOF">>)
  BY DEF Parenless
<1>32. Parenless(<<"COMMA", "funarg", "assign", "fundefarglistp">>)
  BY DEF Parenless
<1>33. Parenless(<< >>)
  BY DEF Parenless
<1>. QED
  BY <1>1, <1>2, <1>3, <1>4, <1>5, <1>6, <1>7, <1>8, <1>9, <1>10, <1>11, <1>12, <1>13, <1>14, <1>15, <1>16, <1>17, <1>18, <1>19, <1>20, <1>21, <1>22, <1>23, <1>24, <1>25, <1>26, <1>27, <1>28, <1>29, <1>30, <1>31, <1>32, <1>33

\* No rule of the grammar opens what it does not close.
LEMMA RulesBalanced ==
  ASSUME NEW p \in NonTerminal, NEW right \in Rules[p]
  PROVE  right \in Seq(Item) /\ Nest(right, Len(right)) = 0
<1>1. right \in Seq(Item)
  <2>1. right \in Seq(Symbol) /\ Symbol \subseteq Item
    BY RightIs, Symbols
  <2>. QED
    BY <2>1
<1>. DEFINE Fits_(b) == \A r \in Rules[b] : Parenless(r)
<1>2. Fits_("file")
  BY RulesAre, RulesParenless
<1>3. Fits_("importlist")
  BY RulesAre, RulesParenless
<1>4. Fits_("qid")
  BY RulesAre, RulesParenless
<1>5. Fits_("qidp")
  BY RulesAre, RulesParenless
<1>6. Fits_("filep")
  BY RulesAre, RulesParenless
<1>7. Fits_("privatefilep")
  BY RulesAre, RulesParenless
<1>8. Fits_("nativefundef")
  BY RulesAre, RulesParenless
<1>9. Fits_("statvardecl")
  BY RulesAre, RulesParenless
<1>10. Fits_("statvardeclp")
  BY RulesAre, RulesParenless
<1>11. Fits_("stat")
  BY RulesAre, RulesParenless
<1>12. Fits_("assign")
  BY RulesAre, RulesParenless
<1>13. Fits_("qidstatp")
  BY RulesAre, RulesParenless
<1>14. Fits_("expr")
  BY RulesAre, RulesParenless
<1>15. Fits_("literal")
  BY RulesAre, RulesParenless
<1>16. Fits_("qidexprp")
  BY RulesAre, RulesParenless
<1>17. Fits_("invokearglist")
  BY RulesAre, RulesParenless
<1>18. Fits_("invokearglistp")
  BY RulesAre, RulesParenless
<1>19. Fits_("fundef")
  BY RulesAre, RulesParenless
<1>20. Fits_("statlist")
  BY RulesAre, RulesParenless
<1>21. Fits_("statlistp")
  BY RulesAre, RulesParenless
<1>22. Fits_("funarg")
  BY RulesAre, RulesParenless
<1>23. Fits_("funarglist")
  BY RulesAre, RulesParenless
<1>24. Fits_("funarglistp")
  BY RulesAre, RulesParenless
<1>25. Fits_("fundefarglistp")
  BY RulesAre, RulesParenless
<1>26. \A r \in Rules["invokeargs"] \cup Rules["funsig"] : Nest(r, Len(r)) = 0
  <2>1. Nest(<<"LPT", "invokearglist", "RPT">>, 3) = 0
    <3>. DEFINE s == <<"LPT", "invokearglist", "RPT">>
    <3>1. s[0 + 1] = "LPT" /\ s[1 + 1] = "invokearglist" /\ s[2 + 1] = "RPT"
      OBVIOUS
    <3>. HIDE DEF s
    <3>2. Nest(s, 0) = 0 /\ Nest(s, 0 + 1) = 1 /\ Nest(s, 1 + 1) = 1 /\ Nest(s, 2 + 1) = 0
      BY <3>1, NestStep, NestNone
    <3>. QED
      BY <3>2 DEF s
  <2>2. Nest(<<"FUN", "ID", "LPT", "funarglist", "RPT">>, 5) = 0
    <3>. DEFINE s == <<"FUN", "ID", "LPT", "funarglist", "RPT">>
    <3>1. /\ s[0 + 1] = "FUN" /\ s[1 + 1] = "ID" /\ s[2 + 1] = "LPT"
          /\ s[3 + 1] = "funarglist" /\ s[4 + 1] = "RPT"
      OBVIOUS
    <3>. HIDE DEF s
    <3>2. /\ Nest(s, 0) = 0 /\ Nest(s, 0 + 1) = 0 /\ Nest(s, 1 + 1) = 0
          /\ Nest(s, 2 + 1) = 1 /\ Nest(s, 3 + 1) = 1 /\ Nest(s, 4 + 1) = 0
      BY <3>1, NestStep, NestNone
    <3>. QED
      BY <3>2 DEF s
  <2>3. /\ Len(<<"LPT", "invokearglist", "RPT">>) = 3
        /\ Len(<<"FUN", "ID", "LPT", "funarglist", "RPT">>) = 5
    OBVIOUS
  <2>. QED
    BY <2>1, <2>2, <2>3, RulesAre
<1>. HIDE DEF Fits_
<1>27. p \in {"invokeargs", "funsig"} \/ Fits_(p)
  BY <1>2, <1>3, <1>4, <1>5, <1>6, <1>7, <1>8, <1>9, <1>10, <1>11, <1>12, <1>13, <1>14, <1>15, <1>16, <1>17, <1>18, <1>19, <1>20, <1>21, <1>22, <1>23, <1>24, <1>25, NonTerminalIs
<1>28. ASSUME Fits_(p) PROVE Nest(right, Len(right)) = 0
  BY <1>1, <1>28, NestParenless DEF Fits_, Parenless
<1>. QED
  BY <1>1, <1>26, <1>27, <1>28

\* What is on the stack closes the parentheses that are open.
NestInv == mismatch = 0 => Nest(tokens, prev) + Nest(stack, Len(stack)) = 0

LEMMA MismatchStays ==
  ASSUME TypeInv, [Next]_vars, mismatch' = 0
  PROVE  mismatch = 0
<1>1. CASE UNCHANGED vars
  BY <1>1 DEF vars
<1>2. CASE match
  <2>1. CASE complains
    <3>1. Len(tokens) # 0
      BY <1>2 DEF match, TypeInv, Ready
    <3>. QED
      BY <2>1, <3>1 DEF complains
  <2>2. CASE matches
    BY <2>2 DEF matches, move, Keep, Stop
  <2>. QED
    BY <1>2, <2>1, <2>2 DEF match
<1>3. CASE parse
  BY <1>3 DEF parse, move, Stop
<1>4. CASE Decides
  BY <1>4 DEF Decides
<1>. QED
  BY <1>1, <1>2, <1>3, <1>4, NextDecides

\* So it is in every leftmost derivation.
FormCloses(text, rest) == Nest(text, Len(text)) + Nest(rest, Len(rest)) = 0

LEMMA DerivedCloses ==
  ASSUME NEW text \in Seq(Item), NEW rest \in Seq(Item), NEW text_, NEW rest_,
         FormCloses(text, rest), rest # << >>,
         \/ /\ text_ = text /\ Head(rest) \in NonTerminal
            /\ \E right \in Rules[Head(rest)] : rest_ = right \o Tail(rest)
         \/ text_ = Append(text, Head(rest)) /\ rest_ = Tail(rest) /\ Head(rest) \in Terminal
  PROVE  FormCloses(text_, rest_)
<1>. DEFINE a == Head(rest)
            q == Tail(rest)
<1>1. a \in Item /\ q \in Seq(Item) /\ rest = <<a>> \o q /\ <<a>> \in Seq(Item)
  BY SeqParts
<1>. HIDE DEF a, q
<1>2. /\ Nest(rest, Len(rest)) = Nest(<<a>>, Len(<<a>>)) + Nest(q, Len(q))
      /\ Nest(<<a>>, Len(<<a>>)) \in Int /\ Nest(q, Len(q)) \in Int
  BY <1>1, NestConcat
<1>3. Nest(text, Len(text)) \in Int
  BY <1>1, NestConcat
<1>4. ASSUME text_ = text, a \in NonTerminal, NEW right \in Rules[a], rest_ = right \o q
      PROVE  FormCloses(text_, rest_)
  <2>1. right \in Seq(Item) /\ Nest(right, Len(right)) = 0
    BY <1>4, RulesBalanced
  <2>2. Nest(rest_, Len(rest_)) = Nest(right, Len(right)) + Nest(q, Len(q))
    BY <1>1, <1>4, <2>1, NestConcat
  <2>3. a \notin {"LPT", "RPT"}
    BY <1>4, KindsApart DEF Terminal
  <2>4. Nest(<<a>>, Len(<<a>>)) = 0
    BY <2>3, NestOne
  <2>. QED
    BY <1>2, <1>3, <1>4, <2>1, <2>2, <2>4 DEF FormCloses
<1>5. ASSUME text_ = Append(text, a), rest_ = q
      PROVE  FormCloses(text_, rest_)
  <2>1. text_ = text \o <<a>>
    BY <1>1, <1>5
  <2>2. Nest(text_, Len(text_)) = Nest(text, Len(text)) + Nest(<<a>>, Len(<<a>>))
    BY <1>1, <2>1, NestConcat
  <2>. QED
    BY <1>2, <1>3, <1>5, <2>2 DEF FormCloses
<1>. QED
  BY <1>4, <1>5 DEF a, q

LEMMA ClosesIs ==
  ASSUME NEW t \in Seq(Item), NEW s \in Seq(Item)
  PROVE  LET k == Len(t) - 1 IN
         /\ SubSeq(t, 1, k) \in Seq(Item) /\ Form[s] \in Seq(Item)
         /\ FormCloses(SubSeq(t, 1, k), Form[s]) <=> Nest(t, k) + Nest(s, Len(s)) = 0
<1>. DEFINE k == Len(t) - 1
            text == SubSeq(t, 1, k)
<1>1. Len(t) \in Nat /\ k \in Int
  OBVIOUS
<1>2. text \in Seq(Item) /\ \A j \in 1..k : text[j] = t[j]
  BY <1>1
<1>3. Len(text) = k \/ (k < 0 /\ Len(text) = 0)
  <2>1. CASE t = << >>
    BY <1>1, <2>1
  <2>2. CASE t # << >>
    <3>1. k \in Nat /\ k <= Len(t)
      BY <1>1, <2>2
    <3>2. Len(SubSeq(t, 1, k)) = k
      <4>. HIDE DEF k
      <4>. QED
        BY <3>1
    <3>. QED
      BY <3>2
  <2>. QED
    BY <2>1, <2>2
<1>. HIDE DEF text, k
<1>4. Nest(text, Len(text)) = Nest(t, k)
  <2>1. Nest(text, k) = Nest(t, k)
    BY <1>1, <1>2, NestAlike
  <2>2. k < 0 => Nest(text, k) = 0
    <3>1. k < 0 => \A i \in 1..k : text[i] \notin {"LPT", "RPT"}
      BY <1>1
    <3>. QED
      BY <1>1, <3>1, NestParenless
  <2>. QED
    BY <1>3, <2>1, <2>2, NestNone
<1>. QED
  BY <1>2, <1>4, FormNest, FormUnfolds DEF FormCloses, text, k

LEMMA NestInvKept ==
  ASSUME TypeInv, TypeInv', NestInv, [Next]_vars
  PROVE  NestInv'
<1>. SUFFICES ASSUME mismatch' = 0 PROVE NestInv'
  BY DEF NestInv
<1>. DEFINE text == SubSeq(tokens, 1, prev)
            rest == Form[stack]
<1>1. mismatch = 0 /\ Derived
  BY MismatchStays, ReadyKept DEF TypeInv
<1>2. /\ tokens \in Seq(Item) /\ stack \in Seq(Item) /\ prev = Len(tokens) - 1
      /\ tokens' \in Seq(Item) /\ stack' \in Seq(Item) /\ prev' = Len(tokens') - 1
  <2>1. tokens \in Seq(Tag \ {"EOF"}) /\ stack \in Seq(Item)
    BY DEF TypeInv, TypeOK, Item
  <2>2. tokens' \in Seq(Tag \ {"EOF"}) /\ stack' \in Seq(Item)
    BY DEF TypeInv, TypeOK, Item
  <2>3. Tag \ {"EOF"} \subseteq Item
    BY ItemsAre
  <2>4. \A t : t \in Seq(Tag \ {"EOF"}) => t \in Seq(Item)
    BY <2>3
  <2>. QED
    BY <2>1, <2>2, <2>4 DEF prev
<1>3. /\ text \in Seq(Item) /\ rest \in Seq(Item) /\ FormCloses(text, rest)
      /\ FormCloses(text', rest') => NestInv'
  BY <1>1, <1>2, ClosesIs DEF NestInv
<1>4. CASE UNCHANGED <<text, rest>>
  BY <1>3, <1>4
<1>5. CASE G!Next
  <2>1. G!Rules = Rules
    BY DEF G!Rules, Rules
  <2>2. G!NonTerminal = NonTerminal /\ G!Terminal = Terminal
    BY <2>1 DEF G!NonTerminal, NonTerminal, G!Terminal, Terminal
  <2>3. rest # << >>
    BY <1>5 DEF G!Next, G!Expand, G!Read
  <2>4. \/ /\ text' = text /\ Head(rest) \in NonTerminal
           /\ \E right \in Rules[Head(rest)] : rest' = right \o Tail(rest)
        \/ text' = Append(text, Head(rest)) /\ rest' = Tail(rest) /\ Head(rest) \in Terminal
    BY <1>5, <2>1, <2>2 DEF G!Next, G!Expand, G!Read
  <2>. HIDE DEF text, rest
  <2>5. FormCloses(text', rest')
    BY <1>3, <2>3, <2>4, DerivedCloses
  <2>. QED
    BY <1>3, <2>5
<1>. QED
  BY <1>1, <1>4, <1>5 DEF Derived, G!vars

-----------------------------------------------------------------------------
(***************************************************************************)
(* The parameters of a signature, as far as it is read, by the tokens      *)
(***************************************************************************)

\* Where the parameters of the function begin that is named by token n, and
\* the names of those
ParametersBegin(t, n, k) ==
  {n + 2} \cup {j + 1 : j \in {i \in n + 2..k : t[i] = "COMMA" /\ Nest(t, i) = 1}}

NameAt(t, b) == IF t[b] = "CONST" THEN b + 1 ELSE b

NamesTo(t, n, k) == {NameAt(t, b) : b \in ParametersBegin(t, n, k)}

\* Token k is within the parentheses that come after token n.
Within(t, n, k) == n < k /\ Nest(t, n) = 0 /\ \A j \in n + 1..k : Nest(t, j) > 0

LEMMA NamesStart ==
  ASSUME NEW t, NEW n \in Nat
  PROVE  NamesTo(t, n, n + 1) = {NameAt(t, n + 2)}
<1>1. {i \in n + 2..n + 1 : t[i] = "COMMA" /\ Nest(t, i) = 1} = {}
  OBVIOUS
<1>2. ParametersBegin(t, n, n + 1) = {n + 2}
  BY <1>1 DEF ParametersBegin
<1>. QED
  BY <1>2 DEF NamesTo

LEMMA NamesStep ==
  ASSUME NEW t, NEW n \in Nat, NEW k \in Nat, n < k
  PROVE  /\ t[k + 1] # "COMMA" \/ Nest(t, k + 1) # 1 =>
              NamesTo(t, n, k + 1) = NamesTo(t, n, k)
         /\ t[k + 1] = "COMMA" /\ Nest(t, k + 1) = 1 =>
              NamesTo(t, n, k + 1) = NamesTo(t, n, k) \cup {NameAt(t, k + 2)}
<1>. DEFINE Commas(m) == {i \in n + 2..m : t[i] = "COMMA" /\ Nest(t, i) = 1}
<1>1. /\ t[k + 1] # "COMMA" \/ Nest(t, k + 1) # 1 => Commas(k + 1) = Commas(k)
      /\ t[k + 1] = "COMMA" /\ Nest(t, k + 1) = 1 => Commas(k + 1) = Commas(k) \cup {k + 1}
  OBVIOUS
<1>2. \A m : ParametersBegin(t, n, m) = {n + 2} \cup {j + 1 : j \in Commas(m)}
  BY DEF ParametersBegin
<1>. HIDE DEF Commas
<1>3. /\ Commas(k + 1) = Commas(k) => ParametersBegin(t, n, k + 1) = ParametersBegin(t, n, k)
      /\ Commas(k + 1) = Commas(k) \cup {k + 1} =>
           ParametersBegin(t, n, k + 1) = ParametersBegin(t, n, k) \cup {(k + 1) + 1}
  BY <1>2
<1>4. (k + 1) + 1 = k + 2
  OBVIOUS
<1>. QED
  BY <1>1, <1>3, <1>4 DEF NamesTo

LEMMA BeginsAre ==
  ASSUME NEW t, NEW n \in Nat, NEW k \in Nat, n < k
  PROVE  \A b \in ParametersBegin(t, n, k) : b \in Nat /\ n + 2 <= b /\ b <= k + 1
BY DEF ParametersBegin

LEMMA NamesAre ==
  ASSUME NEW t, NEW n \in Nat, NEW k \in Nat, n < k
  PROVE  /\ \A p \in NamesTo(t, n, k) : p \in Nat /\ n + 2 <= p /\ p <= k + 2
         /\ NameAt(t, n + 2) \in NamesTo(t, n, k)
         /\ IsFiniteSet(NamesTo(t, n, k))
<1>1. \A b \in Nat : NameAt(t, b) \in Nat /\ b <= NameAt(t, b) /\ NameAt(t, b) <= b + 1
  BY DEF NameAt
<1>2. \A p \in NamesTo(t, n, k) : p \in Nat /\ n + 2 <= p /\ p <= k + 2
  <2>. SUFFICES ASSUME NEW b \in ParametersBegin(t, n, k)
                PROVE  LET p == NameAt(t, b) IN p \in Nat /\ n + 2 <= p /\ p <= k + 2
    BY DEF NamesTo
  <2>1. b \in Nat /\ n + 2 <= b /\ b <= k + 1
    BY BeginsAre
  <2>2. NameAt(t, b) \in Nat /\ b <= NameAt(t, b) /\ NameAt(t, b) <= b + 1
    BY <1>1, <2>1
  <2>. QED
    BY <2>1, <2>2
<1>3. NamesTo(t, n, k) \subseteq 0..(k + 2)
  BY <1>2
<1>4. IsFiniteSet(NamesTo(t, n, k))
  <2>1. IsFiniteSet(0..(k + 2))
    BY FS_Interval
  <2>. QED
    BY <1>3, <2>1, FS_Subset
<1>5. n + 2 \in ParametersBegin(t, n, k)
  BY DEF ParametersBegin
<1>. QED
  BY <1>2, <1>4, <1>5 DEF NamesTo

\* With the next token it is as it was.
LEMMA NestLater ==
  ASSUME NEW t \in Seq(Tag), NEW tag \in Tag, NEW k \in Int, k <= Len(t)
  PROVE  Nest(Append(t, tag), k) = Nest(t, k)
BY IsLater DEF Nest

LEMMA NamesLaterToo ==
  ASSUME NEW t \in Seq(Tag), NEW tag \in Tag, NEW n \in Nat, NEW k \in Nat, n < k,
         k < Len(t)
  PROVE  NamesTo(Append(t, tag), n, k) = NamesTo(t, n, k)
<1>. DEFINE u == Append(t, tag)
<1>1. Len(t) \in Nat /\ \A i \in 1..Len(t) : u[i] = t[i]
  OBVIOUS
<1>2. \A i \in n + 2..k : i \in 1..Len(t) /\ i \in Int /\ i <= Len(t)
  BY <1>1
<1>3. \A i \in n + 2..k : u[i] = t[i] /\ Nest(u, i) = Nest(t, i)
  BY <1>1, <1>2, NestLater
<1>. HIDE DEF u
<1>4. {i \in n + 2..k : u[i] = "COMMA" /\ Nest(u, i) = 1}
        = {i \in n + 2..k : t[i] = "COMMA" /\ Nest(t, i) = 1}
  BY <1>3
<1>5. ParametersBegin(u, n, k) = ParametersBegin(t, n, k)
  BY <1>4 DEF ParametersBegin
<1>6. \A b \in ParametersBegin(t, n, k) : b \in 1..Len(t)
  <2>1. \A b \in ParametersBegin(t, n, k) : b \in Nat /\ n + 2 <= b /\ b <= k + 1
    BY BeginsAre
  <2>. QED
    BY <1>1, <2>1
<1>7. \A b \in ParametersBegin(t, n, k) : NameAt(u, b) = NameAt(t, b)
  BY <1>1, <1>6 DEF NameAt
<1>. QED
  BY <1>5, <1>7 DEF NamesTo, u

LEMMA WithinLater ==
  ASSUME NEW t \in Seq(Tag), NEW tag \in Tag, NEW n \in Nat, NEW k \in Nat, k <= Len(t)
  PROVE  Within(Append(t, tag), n, k) <=> Within(t, n, k)
<1>1. Len(t) \in Nat
  OBVIOUS
<1>2. \A j \in n + 1..k : j \in Int /\ j <= Len(t)
  BY <1>1
<1>3. n < k => \A j \in {n} \cup (n + 1..k) : Nest(Append(t, tag), j) = Nest(t, j)
  BY <1>1, <1>2, NestLater
<1>. QED
  BY <1>3 DEF Within

LEMMA WithinStep ==
  ASSUME NEW t, NEW n \in Nat, NEW k \in Nat, Within(t, n, k), Nest(t, k + 1) > 0
  PROVE  Within(t, n, k + 1)
<1>1. \A j \in n + 1..k + 1 : j \in n + 1..k \/ j = k + 1
  OBVIOUS
<1>. QED
  BY <1>1 DEF Within

-----------------------------------------------------------------------------
(***************************************************************************)
(* The list of arguments, and the names that it has                        *)
(***************************************************************************)

Fresh(f) == f.args = << >> /\ f.dropped = 0 /\ f.min_args_count = 0

Defaulted(t, N) == {p \in N : t[p + 1] = "ASSIGN"}

Listing(f) == {f.args[i] : i \in 1..Len(f.args)} \ {0}

InSequence(f) ==
  \A i, j \in 1..Len(f.args) :
    i < j /\ f.args[j] # 0 => f.args[i] < f.args[j] /\ f.args[i] # 0

\* The list has the arguments whose names are N; lag of them are not counted
\* yet.
Listed(t, f, N, lag) ==
  LET D == Defaulted(t, N) IN
  /\ Len(f.args) <= MaxArgs
  /\ Len(f.args) + f.dropped = Cardinality(N)
  /\ lag <= Cardinality(N \ D)
  /\ f.min_args_count = (Cardinality(N \ D) - lag) % (2^ArgBits)
  /\ Listing(f) \subseteq N
  /\ f.dropped = 0 => N \ D \subseteq Listing(f)
  /\ f.dropped = 0 /\ D # {} => Cardinality(Listing(f)) = Cardinality(N \ D) + 1
  /\ D = {} => \A i \in 1..Len(f.args) : f.args[i] # 0
  /\ InSequence(f)

\* The list of g is that of f, and x, unless it is refused or the list is lost.
Grown(f, g, x) ==
  /\ \/ /\ Len(f.args) < MaxArgs
        /\ g.args = Append(f.args, x) /\ g.dropped = f.dropped
     \/ g.args = f.args /\ g.dropped = f.dropped + 1
     \/ g.args = << >> /\ g.dropped = f.dropped + Len(f.args) + 1
  /\ g.min_args_count = f.min_args_count

ArgsTyped(f) == f.args \in Seq(Nat) /\ f.dropped \in Nat /\ f.min_args_count \in Nat

LEMMA ModulusIs == 2^ArgBits \in Nat \ {0} /\ MaxArgs < 2^ArgBits /\ MaxArgs \in Nat
BY BoundsAssumption

LEMMA ListedNone ==
  ASSUME NEW t, NEW f, Fresh(f)
  PROVE  Listed(t, f, {}, 0) /\ Defaulted(t, {}) = {}
<1>1. Defaulted(t, {}) = {} /\ {} \ {} = {} /\ Cardinality({}) = 0
  BY FS_EmptySet DEF Defaulted
<1>2. f.args = << >> /\ Len(f.args) = 0 /\ f.dropped = 0 /\ f.min_args_count = 0
  BY DEF Fresh
<1>3. Listing(f) = {} /\ InSequence(f)
  BY <1>2 DEF Listing, InSequence
<1>4. (0 - 0) % (2^ArgBits) = 0
  BY ModulusIs
<1>. QED
  BY <1>1, <1>2, <1>3, <1>4, ModulusIs DEF Listed

LEMMA ListGrown ==
  ASSUME NEW f, NEW g, NEW x \in Nat, ArgsTyped(f), Grown(f, g, x)
  PROVE  /\ ArgsTyped(g)
         /\ Len(f.args) <= MaxArgs => Len(g.args) <= MaxArgs
         /\ Len(g.args) + g.dropped = (Len(f.args) + f.dropped) + 1
         /\ Listing(g) \subseteq Listing(f) \cup ({x} \ {0})
         /\ g.dropped = 0 => f.dropped = 0 /\ Listing(g) = Listing(f) \cup ({x} \ {0})
         /\ \A i \in 1..Len(g.args) :
              (i \in 1..Len(f.args) /\ g.args[i] = f.args[i]) \/ g.args[i] = x
         /\ InSequence(f) /\ (x # 0 => \A i \in 1..Len(f.args) : f.args[i] < x /\ f.args[i] # 0)
              => InSequence(g)
<1>. DEFINE a == f.args
            b == g.args
<1>1. a \in Seq(Nat) /\ Len(a) \in Nat /\ f.dropped \in Nat /\ f.min_args_count \in Nat
  BY DEF ArgsTyped
<1>2. CASE Len(a) < MaxArgs /\ b = Append(a, x) /\ g.dropped = f.dropped
  <2>1. /\ b \in Seq(Nat) /\ Len(b) = Len(a) + 1
        /\ \A i \in 1..Len(a) : b[i] = a[i]
        /\ b[Len(a) + 1] = x
    BY <1>1, <1>2
  <2>. HIDE DEF a, b
  <2>2. \A i \in 1..Len(b) : i \in 1..Len(a) \/ i = Len(a) + 1
    BY <1>1, <2>1
  <2>3. {b[i] : i \in 1..Len(b)} = {a[i] : i \in 1..Len(a)} \cup {x}
    <3>1. ASSUME NEW i \in 1..Len(b) PROVE b[i] \in {a[k] : k \in 1..Len(a)} \cup {x}
      BY <2>1, <2>2
    <3>2. ASSUME NEW i \in 1..Len(a) PROVE i \in 1..Len(b) /\ b[i] = a[i]
      BY <1>1, <2>1
    <3>3. Len(a) + 1 \in 1..Len(b) /\ b[Len(a) + 1] = x
      BY <1>1, <2>1
    <3>. QED
      BY <3>1, <3>2, <3>3
  <2>4. Listing(g) = Listing(f) \cup ({x} \ {0})
    BY <2>3 DEF Listing, a, b
  <2>5. ASSUME InSequence(f), x # 0 => \A i \in 1..Len(a) : a[i] < x /\ a[i] # 0
        PROVE  InSequence(g)
    <3>1. \A i, j \in 1..Len(a) : i < j /\ a[j] # 0 => a[i] < a[j] /\ a[i] # 0
      BY <2>5 DEF InSequence, a
    <3>2. SUFFICES ASSUME NEW i \in 1..Len(b), NEW j \in 1..Len(b), i < j, b[j] # 0
                   PROVE  b[i] < b[j] /\ b[i] # 0
      BY DEF InSequence, b
    <3>3. i \in 1..Len(a)
      BY <1>1, <2>1, <3>2
    <3>4. CASE j \in 1..Len(a)
      BY <2>1, <3>1, <3>2, <3>3, <3>4
    <3>5. CASE j = Len(a) + 1
      BY <2>1, <2>5, <3>2, <3>3, <3>5
    <3>. QED
      BY <2>2, <3>2, <3>4, <3>5
  <2>6. ArgsTyped(g)
    BY <1>1, <1>2, <2>1 DEF ArgsTyped, Grown, b
  <2>7. Len(b) + g.dropped = (Len(a) + f.dropped) + 1
    <3>. DEFINE m == Len(a)
                n == Len(b)
    <3>1. m \in Nat /\ n \in Nat /\ n = m + 1 /\ f.dropped \in Nat /\ g.dropped = f.dropped
      BY <1>1, <1>2, <2>1
    <3>. HIDE DEF m, n
    <3>2. n + g.dropped = (m + f.dropped) + 1
      BY <3>1
    <3>. QED
      BY <3>2 DEF m, n
  <2>8. Len(b) <= MaxArgs
    BY <1>1, <1>2, <2>1, ModulusIs DEF a, b
  <2>. QED
    BY <1>2, <2>1, <2>2, <2>4, <2>5, <2>6, <2>7, <2>8 DEF a, b
<1>3. CASE b = a /\ g.dropped = f.dropped + 1
  <2>1. Listing(g) = Listing(f) /\ (InSequence(f) => InSequence(g))
    BY <1>3 DEF Listing, InSequence
  <2>2. ArgsTyped(g) /\ Len(b) \in Nat /\ g.dropped \in Nat /\ g.dropped # 0
    BY <1>1, <1>3 DEF ArgsTyped, Grown
  <2>3. Len(b) + g.dropped = (Len(a) + f.dropped) + 1
    <3>. DEFINE m == Len(a)
    <3>1. m \in Nat /\ Len(b) = m /\ f.dropped \in Nat /\ g.dropped = f.dropped + 1
      BY <1>1, <1>3
    <3>. HIDE DEF m
    <3>2. m + g.dropped = (m + f.dropped) + 1
      BY <3>1
    <3>. QED
      BY <3>1, <3>2 DEF m
  <2>. QED
    BY <1>3, <2>1, <2>2, <2>3
<1>4. CASE b = << >> /\ g.dropped = f.dropped + Len(a) + 1
  <2>1. Listing(g) = {} /\ InSequence(g)
    BY <1>4 DEF Listing, InSequence
  <2>2. /\ ArgsTyped(g) /\ Len(b) = 0 /\ g.dropped # 0
        /\ Len(b) + g.dropped = (Len(a) + f.dropped) + 1
    BY <1>1, <1>4 DEF ArgsTyped, Grown
  <2>. QED
    BY <1>4, <2>1, <2>2, ModulusIs
<1>. QED
  BY <1>2, <1>3, <1>4 DEF Grown

\* An argument by its name: one that has no default, or the first that has
LEMMA ListedByName ==
  ASSUME NEW t, NEW f, NEW g, NEW M, NEW q \in Nat \ {0}, ArgsTyped(f), Grown(f, g, q),
         IsFiniteSet(M), \A p \in M : p \in Nat /\ p < q,
         Listed(t, f, M, 0), Defaulted(t, M) = {}
  PROVE  /\ t[q + 1] # "ASSIGN" =>
              Listed(t, g, M \cup {q}, 1) /\ Defaulted(t, M \cup {q}) = {}
         /\ t[q + 1] = "ASSIGN" =>
              Listed(t, g, M \cup {q}, 0) /\ Defaulted(t, M \cup {q}) # {}
<1>. DEFINE N == M \cup {q}
<1>1. q \notin M /\ Cardinality(M) \in Nat /\ IsFiniteSet(N) /\ Cardinality(N) = Cardinality(M) + 1
  <2>1. q \notin M
    OBVIOUS
  <2>. QED
    BY <2>1, FS_AddElement, FS_CardinalityType
<1>2. M \ Defaulted(t, M) = M
  OBVIOUS
<1>3. /\ Len(f.args) <= MaxArgs
      /\ Len(f.args) + f.dropped = Cardinality(M)
      /\ f.min_args_count = (Cardinality(M) - 0) % (2^ArgBits)
      /\ Listing(f) \subseteq M
      /\ f.dropped = 0 => M \subseteq Listing(f)
      /\ \A i \in 1..Len(f.args) : f.args[i] # 0
      /\ InSequence(f)
  BY <1>2 DEF Listed
<1>4. /\ ArgsTyped(g)
      /\ Len(g.args) <= MaxArgs
      /\ Len(g.args) + g.dropped = (Len(f.args) + f.dropped) + 1
      /\ Listing(g) \subseteq Listing(f) \cup {q}
      /\ g.dropped = 0 => f.dropped = 0 /\ Listing(g) = Listing(f) \cup {q}
      /\ \A i \in 1..Len(g.args) :
           (i \in 1..Len(f.args) /\ g.args[i] = f.args[i]) \/ g.args[i] = q
      /\ InSequence(g)
      /\ g.min_args_count = f.min_args_count
  <2>1. {q} \ {0} = {q}
    OBVIOUS
  <2>2. \A i \in 1..Len(f.args) : f.args[i] \in M
    BY <1>3 DEF Listing
  <2>3. q # 0 => \A i \in 1..Len(f.args) : f.args[i] < q /\ f.args[i] # 0
    BY <1>3, <2>2
  <2>4. g.min_args_count = f.min_args_count
    BY DEF Grown
  <2>. QED
    BY <1>3, <2>1, <2>3, <2>4, ListGrown
<1>5. Listing(g) \subseteq N /\ (g.dropped = 0 => Listing(g) = N)
  BY <1>3, <1>4
<1>6. ASSUME t[q + 1] # "ASSIGN"
      PROVE  Listed(t, g, N, 1) /\ Defaulted(t, N) = {}
  <2>1. Defaulted(t, N) = {}
    BY <1>6 DEF Defaulted
  <2>2. N \ Defaulted(t, N) = N
    BY <2>1
  <2>3. Cardinality(N) - 1 = Cardinality(M) - 0 /\ 1 <= Cardinality(N)
    BY <1>1
  <2>4. \A i \in 1..Len(g.args) : g.args[i] # 0
    BY <1>3, <1>4
  <2>. HIDE DEF N
  <2>. QED
    BY <1>1, <1>3, <1>4, <1>5, <2>1, <2>2, <2>3, <2>4 DEF Listed
<1>7. ASSUME t[q + 1] = "ASSIGN"
      PROVE  Listed(t, g, N, 0) /\ Defaulted(t, N) # {}
  <2>1. Defaulted(t, N) = {q}
    BY <1>7 DEF Defaulted
  <2>2. N \ Defaulted(t, N) = M
    BY <1>1, <2>1
  <2>3. 0 <= Cardinality(M)
    BY <1>1
  <2>. HIDE DEF N
  <2>4. Defaulted(t, N) # {}
    BY <2>1
  <2>5. g.dropped = 0 => M \subseteq Listing(g) /\ Cardinality(Listing(g)) = Cardinality(M) + 1
    BY <1>1, <1>5 DEF N
  <2>. QED
    BY <1>1, <1>3, <1>4, <1>5, <2>2, <2>3, <2>4, <2>5 DEF Listed
<1>. QED
  BY <1>6, <1>7

\* One that has a default, after the first
LEMMA ListedByDefault ==
  ASSUME NEW t, NEW f, NEW g, NEW M, NEW q, ArgsTyped(f), Grown(f, g, 0),
         IsFiniteSet(M), q \notin M, t[q + 1] = "ASSIGN",
         Listed(t, f, M, 0), Defaulted(t, M) # {}
  PROVE  Listed(t, g, M \cup {q}, 0) /\ Defaulted(t, M \cup {q}) # {}
<1>. DEFINE N == M \cup {q}
            D == Defaulted(t, M)
<1>1. Cardinality(M) \in Nat /\ IsFiniteSet(N) /\ Cardinality(N) = Cardinality(M) + 1
  BY FS_AddElement, FS_CardinalityType
<1>2. Defaulted(t, N) = D \cup {q} /\ N \ Defaulted(t, N) = M \ D
  BY DEF Defaulted
<1>. HIDE DEF D
<1>3. /\ Len(f.args) <= MaxArgs
      /\ Len(f.args) + f.dropped = Cardinality(M)
      /\ 0 <= Cardinality(M \ D)
      /\ f.min_args_count = (Cardinality(M \ D) - 0) % (2^ArgBits)
      /\ Listing(f) \subseteq M
      /\ f.dropped = 0 => M \ D \subseteq Listing(f)
      /\ f.dropped = 0 => Cardinality(Listing(f)) = Cardinality(M \ D) + 1
      /\ InSequence(f)
  BY DEF Listed, D
<1>4. /\ ArgsTyped(g)
      /\ Len(g.args) <= MaxArgs
      /\ Len(g.args) + g.dropped = (Len(f.args) + f.dropped) + 1
      /\ Listing(g) \subseteq Listing(f)
      /\ g.dropped = 0 => f.dropped = 0 /\ Listing(g) = Listing(f)
      /\ InSequence(g)
      /\ g.min_args_count = f.min_args_count
  <2>1. {0} \ {0} = {} /\ 0 \in Nat
    OBVIOUS
  <2>2. Listing(f) \cup ({0} \ {0}) = Listing(f)
    BY <2>1
  <2>3. InSequence(f) /\ (0 # 0 => \A i \in 1..Len(f.args) : f.args[i] < 0 /\ f.args[i] # 0)
    BY <1>3
  <2>4. g.min_args_count = f.min_args_count
    BY DEF Grown
  <2>. QED
    BY <1>3, <2>1, <2>2, <2>3, <2>4, ListGrown
<1>5. Defaulted(t, N) # {} /\ Listing(g) \subseteq N
  BY <1>2, <1>3, <1>4
<1>. HIDE DEF N
<1>. QED
  BY <1>1, <1>2, <1>3, <1>4, <1>5 DEF Listed, N

LEMMA NextRest ==
  ASSUME NEW a \in Nat, NEW m \in Nat \ {0}
  PROVE  ((a % m) + 1) % m = (a + 1) % m
<1>. DEFINE q == a \div m
            r == a % m
<1>1. q \in Nat /\ r \in 0..(m - 1) /\ a = (m * q) + r
  OBVIOUS
<1>. HIDE DEF q, r
<1>2. \A x \in Nat, y \in Nat, z \in 0..(m - 1) : x = (m * y) + z => (x % m) = z
  OBVIOUS
<1>3. CASE r + 1 < m
  <2>1. r + 1 \in 0..(m - 1) /\ a + 1 = (m * q) + (r + 1) /\ r + 1 = (m * 0) + (r + 1)
    BY <1>1, <1>3
  <2>2. (a + 1) % m = r + 1 /\ (r + 1) % m = r + 1
    BY <1>1, <1>2, <2>1
  <2>. QED
    BY <2>2 DEF r
<1>4. CASE r + 1 = m
  <2>1. a + 1 = (m * (q + 1)) + 0 /\ r + 1 = (m * 1) + 0 /\ 0 \in 0..(m - 1) /\ q + 1 \in Nat
    BY <1>1, <1>4
  <2>2. (a + 1) % m = 0 /\ (r + 1) % m = 0
    BY <1>1, <1>2, <2>1
  <2>. QED
    BY <2>2 DEF r
<1>. QED
  BY <1>1, <1>3, <1>4

LEMMA ListedCounted ==
  ASSUME NEW t, NEW f, NEW g, NEW N, Listed(t, f, N, 1), IsFiniteSet(N),
         g.args = f.args, g.dropped = f.dropped,
         g.min_args_count = (f.min_args_count + 1) % (2^ArgBits)
  PROVE  Listed(t, g, N, 0)
<1>. DEFINE C == Cardinality(N \ Defaulted(t, N))
<1>1. C \in Nat
  <2>1. IsFiniteSet(N \ Defaulted(t, N))
    BY FS_Difference
  <2>. QED
    BY <2>1, FS_CardinalityType
<1>2. 1 <= C /\ f.min_args_count = (C - 1) % (2^ArgBits)
  BY DEF Listed
<1>. HIDE DEF C
<1>3. g.min_args_count = (C - 0) % (2^ArgBits)
  <2>1. C - 1 \in Nat /\ (C - 1) + 1 = C - 0
    BY <1>1, <1>2
  <2>. QED
    BY <1>2, <2>1, ModulusIs, NextRest
<1>4. Listing(g) = Listing(f) /\ (InSequence(g) <=> InSequence(f))
  BY DEF Listing, InSequence
<1>5. 0 <= C
  BY <1>1
<1>. QED
  BY <1>3, <1>4, <1>5 DEF Listed, C

LEMMA ListedSame ==
  ASSUME NEW t, NEW f, NEW g, g.args = f.args, g.dropped = f.dropped,
         g.min_args_count = f.min_args_count
  PROVE  /\ \A N, lag : Listed(t, g, N, lag) <=> Listed(t, f, N, lag)
         /\ Fresh(g) <=> Fresh(f)
<1>1. Listing(g) = Listing(f) /\ (InSequence(g) <=> InSequence(f))
  BY DEF Listing, InSequence
<1>. QED
  BY <1>1 DEF Listed, Fresh

LEMMA ListedLater ==
  ASSUME NEW t \in Seq(Tag), NEW tag \in Tag, NEW N, \A p \in N : p + 1 \in 1..Len(t)
  PROVE  LET u == Append(t, tag) IN
         /\ Defaulted(u, N) = Defaulted(t, N)
         /\ \A f, lag : Listed(u, f, N, lag) <=> Listed(t, f, N, lag)
<1>. DEFINE u == Append(t, tag)
<1>1. \A i \in 1..Len(t) : u[i] = t[i]
  OBVIOUS
<1>. HIDE DEF u
<1>2. Defaulted(u, N) = Defaulted(t, N)
  BY <1>1 DEF Defaulted
<1>. QED
  BY <1>2 DEF Listed, u

-----------------------------------------------------------------------------
(***************************************************************************)
(* What is known of the arguments wherever the parser is in a signature.   *)
(* k is the number of the token read last; lag says whether an argument is *)
(* listed and not counted, def whether one with a default is listed.       *)
(***************************************************************************)

\* The list has the arguments of the whole signature, which ends at token k.
Complete(t, f, k) ==
  \/ k = f.name + 2 /\ Fresh(f)
  \/ /\ k > f.name + 2
     /\ \A p \in NamesTo(t, f.name, k) : p < k
     /\ Listed(t, f, NamesTo(t, f.name, k), 0)

ArgsRead(t, f) ==
  \E c \in f.name + 2..(Len(t) - 1) :
    Within(t, f.name, c - 1) /\ Nest(t, c) = 0 /\ Complete(t, f, c)

\* All arguments but q are in the list; q is 0, or comes after them.
AllBut(t, k, f, q, lag, def) ==
  LET N == NamesTo(t, f.name, k) IN
  /\ q # 0 => q \in N
  /\ \A p \in N \ {q} : p \in 1..k /\ (q # 0 => p < q)
  /\ Listed(t, f, N \ {q}, lag)
  /\ def = 1 <=> Defaulted(t, N \ {q}) # {}

\* The argument that is read and not in the list, or 0
Awaits(t, mode, k, q) ==
  \/ mode \in {"comma", "default"} /\ q = 0
  \/ mode = "ahead" /\ q = NameAt(t, k + 1)
  \/ mode = "const" /\ q = k + 2 /\ Is(t, k + 1, "CONST")
  \/ mode = "name" /\ q = k + 1
  \/ mode = "named" /\ q = k
  \/ mode = "value" /\ q # 0 /\ Is(t, q + 1, "ASSIGN")

Reading == {"comma", "default", "ahead", "const", "name", "named", "value"}

SoFar(t, mode, k, f, lag, def) ==
  /\ mode = "done" => ArgsRead(t, f)
  /\ mode = "open" => k = f.name /\ Nest(t, k) = 0 /\ Fresh(f)
  /\ mode = "list" => k = f.name + 1 /\ Within(t, f.name, k) /\ Fresh(f)
  /\ mode = "close" => Within(t, f.name, k) /\ Complete(t, f, k + 1)
  /\ mode \in Reading =>
       /\ Within(t, f.name, k)
       /\ \E q \in 0..(k + 2) : Awaits(t, mode, k, q) /\ AllBut(t, k, f, q, lag, def)

LEMMA ReadingIs ==
  ASSUME NEW t, NEW mode \in Reading, NEW k, NEW f, NEW lag, NEW def
  PROVE  SoFar(t, mode, k, f, lag, def) <=>
           /\ Within(t, f.name, k)
           /\ \E q \in 0..(k + 2) : Awaits(t, mode, k, q) /\ AllBut(t, k, f, q, lag, def)
BY DEF SoFar, Reading

\* The next token
LEMMA CompleteLater ==
  ASSUME NEW t \in Seq(Tag), NEW tag \in Tag, NEW f, f.name \in Nat, NEW c \in Nat,
         c <= Len(t), c < Len(t) \/ t[c] = "RPT", Complete(t, f, c)
  PROVE  Complete(Append(t, tag), f, c)
<1>. DEFINE u == Append(t, tag)
            n == f.name
            N == NamesTo(t, n, c)
<1>1. CASE c = n + 2 /\ Fresh(f)
  BY <1>1 DEF Complete
<1>2. CASE ~(c = n + 2 /\ Fresh(f))
  <2>1. c > n + 2 /\ (\A p \in N : p < c) /\ Listed(t, f, N, 0)
    BY <1>2 DEF Complete
  <2>0. n \in Nat /\ c \in Nat /\ n < c
    BY <2>1
  <2>2. Len(t) \in Nat /\ \A i \in 1..Len(t) : u[i] = t[i]
    OBVIOUS
  <2>3. NamesTo(u, n, c) = N
    <3>1. CASE c < Len(t)
      BY <2>1, <3>1, NamesLaterToo
    <3>2. CASE t[c] = "RPT"
      <4>. DEFINE k == c - 1
      <4>1. k \in Nat /\ n < k /\ k < Len(t) /\ k + 1 = c /\ k + 1 \in 1..Len(t)
        BY <2>1, <2>2
      <4>2. t[k + 1] # "COMMA" /\ u[k + 1] # "COMMA"
        BY <2>2, <3>2, <4>1
      <4>. HIDE DEF k, u, n
      <4>3. NamesTo(t, n, k + 1) = NamesTo(t, n, k) /\ NamesTo(u, n, k + 1) = NamesTo(u, n, k)
        BY <2>0, <4>1, <4>2, NamesStep
      <4>4. NamesTo(u, n, k) = NamesTo(t, n, k)
        BY <2>0, <4>1, NamesLaterToo DEF u
      <4>. QED
        BY <4>1, <4>3, <4>4
    <3>. QED
      BY <3>1, <3>2
  <2>. HIDE DEF n
  <2>4. \A p \in N : p \in Nat
    BY <2>0, NamesAre
  <2>5. \A p \in N : p + 1 \in 1..Len(t)
    BY <2>1, <2>2, <2>4
  <2>. HIDE DEF N
  <2>6. Listed(u, f, N, 0)
    BY <2>1, <2>5, ListedLater
  <2>. QED
    BY <2>1, <2>3, <2>6 DEF Complete, n
<1>. QED
  BY <1>1, <1>2

LEMMA ArgsReadLater ==
  ASSUME NEW t \in Seq(Tag), NEW tag \in Tag, NEW f, f.name \in Nat, ArgsRead(t, f)
  PROVE  ArgsRead(Append(t, tag), f)
<1>. DEFINE u == Append(t, tag)
<1>1. PICK c \in f.name + 2..(Len(t) - 1) :
        Within(t, f.name, c - 1) /\ Nest(t, c) = 0 /\ Complete(t, f, c)
  BY DEF ArgsRead
<1>2. /\ Len(t) \in Nat /\ Len(u) = Len(t) + 1 /\ c \in Nat /\ c < Len(t) /\ c <= Len(t)
      /\ c - 1 \in Nat /\ c - 1 <= Len(t) /\ c \in Int
  BY <1>1
<1>3. Within(u, f.name, c - 1)
  BY <1>1, <1>2, WithinLater
<1>4. Nest(u, c) = 0
  BY <1>1, <1>2, NestLater
<1>5. Complete(u, f, c)
  BY <1>1, <1>2, CompleteLater
<1>6. c \in f.name + 2..(Len(u) - 1)
  BY <1>1, <1>2
<1>. QED
  BY <1>3, <1>4, <1>5, <1>6 DEF ArgsRead

LEMMA AllButLater ==
  ASSUME NEW t \in Seq(Tag), NEW tag \in Tag, NEW f, f.name \in Nat, NEW k \in Nat,
         f.name < k, k < Len(t), NEW q, NEW lag, NEW def, AllBut(t, k, f, q, lag, def)
  PROVE  AllBut(Append(t, tag), k, f, q, lag, def)
<1>. DEFINE u == Append(t, tag)
            N == NamesTo(t, f.name, k)
            M == N \ {q}
<1>1. NamesTo(u, f.name, k) = N
  BY NamesLaterToo
<1>2. /\ q # 0 => q \in N
      /\ \A p \in M : p \in 1..k /\ (q # 0 => p < q)
      /\ Listed(t, f, M, lag)
      /\ def = 1 <=> Defaulted(t, M) # {}
  BY DEF AllBut
<1>3. Len(t) \in Nat
  OBVIOUS
<1>4. \A p \in M : p + 1 \in 1..Len(t)
  BY <1>2, <1>3
<1>. HIDE DEF M
<1>5. Listed(u, f, M, lag) /\ Defaulted(u, M) = Defaulted(t, M)
  BY <1>2, <1>4, ListedLater
<1>. QED
  BY <1>1, <1>2, <1>5 DEF AllBut, M

LEMMA AwaitsLater ==
  ASSUME NEW t \in Seq(Tag), NEW tag \in Tag, NEW k \in Nat, k < Len(t), NEW mode, NEW q,
         Awaits(t, mode, k, q)
  PROVE  Awaits(Append(t, tag), mode, k, q)
<1>. DEFINE u == Append(t, tag)
<1>1. Len(t) \in Nat /\ Len(u) = Len(t) + 1 /\ \A i \in 1..Len(t) : u[i] = t[i]
  OBVIOUS
<1>. HIDE DEF u
<1>2. k + 1 \in 1..Len(t)
  BY <1>1
<1>3. NameAt(u, k + 1) = NameAt(t, k + 1)
  BY <1>1, <1>2 DEF NameAt
<1>4. \A i, x : Is(t, i, x) => Is(u, i, x)
  BY <1>1 DEF Is
<1>. QED
  BY <1>3, <1>4 DEF Awaits, u

LEMMA SoFarLater ==
  ASSUME NEW t \in Seq(Tag), NEW tag \in Tag, NEW k \in Nat, k < Len(t), NEW f,
         f.name \in Nat, NEW mode, NEW lag, NEW def, SoFar(t, mode, k, f, lag, def),
         mode = "close" => t[k + 1] = "RPT"
  PROVE  SoFar(Append(t, tag), mode, k, f, lag, def)
<1>. DEFINE u == Append(t, tag)
<1>1. Len(t) \in Nat /\ k <= Len(t) /\ k \in Int /\ k + 1 \in Nat /\ k + 1 <= Len(t)
  OBVIOUS
<1>2. Within(u, f.name, k) <=> Within(t, f.name, k)
  BY <1>1, WithinLater
<1>3. Nest(u, k) = Nest(t, k)
  BY <1>1, NestLater
<1>4. mode = "done" => ArgsRead(u, f)
  BY ArgsReadLater DEF SoFar
<1>5. mode = "close" => Complete(u, f, k + 1)
  BY <1>1, CompleteLater DEF SoFar
<1>6. ASSUME mode \in Reading
      PROVE  Within(u, f.name, k)
             /\ \E q \in 0..(k + 2) : Awaits(u, mode, k, q) /\ AllBut(u, k, f, q, lag, def)
  <2>1. Within(t, f.name, k)
    BY <1>6, ReadingIs
  <2>2. PICK q \in 0..(k + 2) : Awaits(t, mode, k, q) /\ AllBut(t, k, f, q, lag, def)
    BY <1>6, ReadingIs
  <2>3. f.name < k
    BY <2>1 DEF Within
  <2>4. Awaits(u, mode, k, q)
    BY <2>2, AwaitsLater
  <2>5. AllBut(u, k, f, q, lag, def)
    BY <2>2, <2>3, AllButLater
  <2>. QED
    BY <1>2, <2>1, <2>4, <2>5
<1>. HIDE DEF u
<1>. QED
  BY <1>2, <1>3, <1>4, <1>5, <1>6 DEF SoFar, u

\* Only the arguments of a definition are looked at here.
LEMMA SoFarSame ==
  ASSUME NEW f, NEW g, g.name = f.name, g.args = f.args, g.dropped = f.dropped,
         g.min_args_count = f.min_args_count
  PROVE  /\ \A t : ArgsRead(t, f) => ArgsRead(t, g)
         /\ \A t, mode, k, lag, def :
              SoFar(t, mode, k, f, lag, def) => SoFar(t, mode, k, g, lag, def)
<1>1. \A t, N, lag : Listed(t, g, N, lag) <=> Listed(t, f, N, lag)
  BY ListedSame
<1>2. Fresh(g) <=> Fresh(f)
  BY ListedSame
<1>3. \A t, k : Complete(t, f, k) => Complete(t, g, k)
  BY <1>1, <1>2 DEF Complete
<1>4. \A t : ArgsRead(t, f) => ArgsRead(t, g)
  BY <1>3 DEF ArgsRead
<1>5. \A t, k, q, lag, def : AllBut(t, k, f, q, lag, def) => AllBut(t, k, g, q, lag, def)
  BY <1>1 DEF AllBut
<1>. QED
  BY <1>2, <1>3, <1>4, <1>5 DEF SoFar

\* What changes with a step, and with the token that is read by it

LEMMA ReadingTurns ==
  ASSUME NEW t, NEW m \in Reading, NEW k \in Nat, NEW f, NEW lag, NEW def,
         SoFar(t, m, k, f, lag, def), NEW n \in Reading,
         \A q \in Nat : Awaits(t, m, k, q) => Awaits(t, n, k, q)
  PROVE  SoFar(t, n, k, f, lag, def)
<1>1. Within(t, f.name, k)
  BY ReadingIs
<1>2. PICK q \in 0..(k + 2) : Awaits(t, m, k, q) /\ AllBut(t, k, f, q, lag, def)
  BY ReadingIs
<1>3. Awaits(t, n, k, q)
  BY <1>2
<1>. QED
  BY <1>1, <1>2, <1>3, ReadingIs

LEMMA ReadingOn ==
  ASSUME NEW t, NEW m \in Reading, NEW k \in Nat, NEW f, f.name \in Nat, NEW lag, NEW def,
         SoFar(t, m, k, f, lag, def), Nest(t, k + 1) > 0,
         t[k + 1] # "COMMA" \/ Nest(t, k + 1) # 1, NEW n \in Reading,
         \A q \in Nat : Awaits(t, m, k, q) => Awaits(t, n, k + 1, q)
  PROVE  SoFar(t, n, k + 1, f, lag, def)
<1>1. Within(t, f.name, k) /\ f.name < k
  BY ReadingIs DEF Within
<1>2. PICK q \in 0..(k + 2) : Awaits(t, m, k, q) /\ AllBut(t, k, f, q, lag, def)
  BY ReadingIs
<1>3. Awaits(t, n, k + 1, q) /\ q \in 0..((k + 1) + 2)
  BY <1>2
<1>4. Within(t, f.name, k + 1)
  BY <1>1, WithinStep
<1>5. NamesTo(t, f.name, k + 1) = NamesTo(t, f.name, k)
  BY <1>1, NamesStep
<1>6. AllBut(t, k + 1, f, q, lag, def)
  <2>. DEFINE N == NamesTo(t, f.name, k)
  <2>1. /\ q # 0 => q \in N
        /\ \A p \in N \ {q} : p \in 1..k /\ (q # 0 => p < q)
        /\ Listed(t, f, N \ {q}, lag)
        /\ def = 1 <=> Defaulted(t, N \ {q}) # {}
    BY <1>2 DEF AllBut
  <2>. HIDE DEF N
  <2>2. \A p \in N \ {q} : p \in 1..(k + 1) /\ (q # 0 => p < q)
    BY <2>1
  <2>. QED
    BY <1>5, <2>1, <2>2 DEF AllBut, N
<1>. QED
  BY <1>3, <1>4, <1>6, ReadingIs

LEMMA OpenReads ==
  ASSUME NEW t, NEW k \in Nat, NEW f, f.name \in Nat, NEW lag, NEW def,
         SoFar(t, "open", k, f, lag, def), Nest(t, k + 1) > 0, NEW x, NEW y
  PROVE  SoFar(t, "list", k + 1, f, x, y)
<1>1. k = f.name /\ Nest(t, k) = 0 /\ Fresh(f)
  BY DEF SoFar
<1>2. Within(t, f.name, k + 1)
  BY <1>1 DEF Within
<1>. QED
  BY <1>1, <1>2 DEF SoFar, Reading

LEMMA NoneListed ==
  ASSUME NEW t, NEW k \in Nat, NEW f, f.name \in Nat, NEW lag, NEW def,
         SoFar(t, "list", k, f, lag, def), NEW x, NEW y
  PROVE  /\ SoFar(t, "close", k, f, x, y)
         /\ SoFar(t, "ahead", k, f, 0, 0)
<1>1. k = f.name + 1 /\ Within(t, f.name, k) /\ Fresh(f)
  BY DEF SoFar
<1>2. SoFar(t, "close", k, f, x, y)
  <2>1. Complete(t, f, k + 1)
    BY <1>1 DEF Complete
  <2>. QED
    BY <1>1, <2>1 DEF SoFar, Reading
<1>3. SoFar(t, "ahead", k, f, 0, 0)
  <2>. DEFINE q == NameAt(t, k + 1)
              N == NamesTo(t, f.name, k)
  <2>1. N = {q}
    <3>1. k + 1 = f.name + 2
      BY <1>1
    <3>. QED
      BY <1>1, <3>1, NamesStart
  <2>2. q \in 0..(k + 2)
    BY DEF NameAt
  <2>. HIDE DEF q
  <2>3. N \ {q} = {}
    BY <2>1
  <2>4. AllBut(t, k, f, q, 0, 0)
    <3>1. Listed(t, f, N \ {q}, 0) /\ Defaulted(t, N \ {q}) = {}
      BY <1>1, <2>3, ListedNone
    <3>. HIDE DEF N
    <3>2. (q # 0 => q \in N) /\ \A p \in N \ {q} : p \in 1..k /\ (q # 0 => p < q)
      BY <2>1, <2>3
    <3>. QED
      BY <3>1, <3>2 DEF AllBut, N
  <2>5. Awaits(t, "ahead", k, q)
    BY DEF Awaits, q
  <2>6. "ahead" \in Reading
    BY DEF Reading
  <2>. QED
    BY <1>1, <2>2, <2>4, <2>5, <2>6, ReadingIs
<1>. QED
  BY <1>2, <1>3

LEMMA CommaReads ==
  ASSUME NEW t, NEW k \in Nat, NEW f, f.name \in Nat, NEW lag, NEW def,
         SoFar(t, "comma", k, f, lag, def), t[k + 1] = "COMMA", Nest(t, k + 1) = 1
  PROVE  SoFar(t, "ahead", k + 1, f, lag, def)
<1>. DEFINE r == NameAt(t, k + 2)
            N == NamesTo(t, f.name, k)
<1>0. "comma" \in Reading /\ "ahead" \in Reading
  BY DEF Reading
<1>1. Within(t, f.name, k) /\ f.name < k
  BY <1>0, ReadingIs DEF Within
<1>2. AllBut(t, k, f, 0, lag, def)
  <2>1. PICK q \in 0..(k + 2) : Awaits(t, "comma", k, q) /\ AllBut(t, k, f, q, lag, def)
    BY <1>0, ReadingIs
  <2>2. q = 0
    BY <2>1 DEF Awaits
  <2>. QED
    BY <2>1, <2>2
<1>3. Within(t, f.name, k + 1)
  BY <1>1, WithinStep
<1>4. NamesTo(t, f.name, k + 1) = N \cup {r}
  BY <1>1, NamesStep
<1>5. r \in Nat /\ r > k /\ r <= k + 3 /\ r = NameAt(t, (k + 1) + 1)
  BY DEF NameAt
<1>6. \A p \in N : p \in Nat /\ p # 0
  <2>. DEFINE n == f.name
  <2>1. n \in Nat /\ n < k
    BY <1>1
  <2>. HIDE DEF n
  <2>2. \A p \in NamesTo(t, n, k) : p \in Nat /\ n + 2 <= p
    BY <2>1, NamesAre
  <2>. QED
    BY <2>1, <2>2 DEF n
<1>. HIDE DEF r
<1>7. /\ \A p \in N : p \in 1..k
      /\ Listed(t, f, N, lag)
      /\ def = 1 <=> Defaulted(t, N) # {}
  <2>1. N \ {0} = N
    BY <1>6
  <2>. QED
    BY <1>2, <2>1 DEF AllBut
<1>. HIDE DEF N
<1>8. (N \cup {r}) \ {r} = N
  BY <1>5, <1>7
<1>9. AllBut(t, k + 1, f, r, lag, def)
  <2>1. /\ r \in N \cup {r}
        /\ \A p \in (N \cup {r}) \ {r} : p \in 1..(k + 1) /\ (r # 0 => p < r)
    BY <1>5, <1>7
  <2>. QED
    BY <1>4, <1>7, <1>8, <2>1 DEF AllBut
<1>10. Awaits(t, "ahead", k + 1, r) /\ r \in 0..((k + 1) + 2)
  BY <1>5 DEF Awaits
<1>. QED
  BY <1>0, <1>3, <1>9, <1>10, ReadingIs

LEMMA NameGrows ==
  ASSUME NEW t, NEW k \in Nat, NEW f, f.name \in Nat, ArgsTyped(f),
         SoFar(t, "named", k, f, 0, 0), NEW g, g.name = f.name, Grown(f, g, k)
  PROVE  /\ Within(t, f.name, k) /\ f.name < k
         /\ k \in NamesTo(t, f.name, k) /\ k > f.name + 1
         /\ IsFiniteSet(NamesTo(t, f.name, k))
         /\ \A p \in NamesTo(t, f.name, k) : p \in 1..k
         /\ t[k + 1] # "ASSIGN" =>
              /\ Listed(t, g, NamesTo(t, f.name, k), 1)
              /\ Defaulted(t, NamesTo(t, f.name, k)) = {}
         /\ t[k + 1] = "ASSIGN" =>
              /\ Listed(t, g, NamesTo(t, f.name, k), 0)
              /\ Defaulted(t, NamesTo(t, f.name, k)) # {}
<1>. DEFINE n == f.name
            N == NamesTo(t, n, k)
            M == N \ {k}
<1>0. "named" \in Reading
  BY DEF Reading
<1>1. Within(t, n, k) /\ n < k /\ n \in Nat
  BY <1>0, ReadingIs DEF Within
<1>2. AllBut(t, k, f, k, 0, 0)
  <2>1. PICK q \in 0..(k + 2) : Awaits(t, "named", k, q) /\ AllBut(t, k, f, q, 0, 0)
    BY <1>0, ReadingIs
  <2>2. q = k
    BY <2>1 DEF Awaits
  <2>. QED
    BY <2>1, <2>2
<1>3. k # 0
  BY <1>1
<1>4. /\ k \in N
      /\ \A p \in M : p \in 1..k /\ p < k
      /\ Listed(t, f, M, 0)
      /\ Defaulted(t, M) = {}
  BY <1>2, <1>3 DEF AllBut
<1>. HIDE DEF n
<1>5. k > n + 1 /\ IsFiniteSet(N)
  <2>1. IsFiniteSet(N) /\ \A p \in N : p \in Nat /\ n + 2 <= p
    BY <1>1, NamesAre
  <2>. HIDE DEF N
  <2>2. k \in N
    BY <1>4
  <2>3. n + 2 <= k
    BY <2>1, <2>2
  <2>. QED
    BY <1>1, <2>1, <2>3
<1>. HIDE DEF N
<1>6. M \cup {k} = N /\ IsFiniteSet(M)
  BY <1>4, <1>5, FS_RemoveElement
<1>7. \A p \in N : p \in 1..k
  BY <1>3, <1>4
<1>8. k \in Nat \ {0} /\ \A p \in M : p \in Nat /\ p < k
  BY <1>3, <1>4
<1>. HIDE DEF M
<1>9. /\ t[k + 1] # "ASSIGN" => Listed(t, g, N, 1) /\ Defaulted(t, N) = {}
      /\ t[k + 1] = "ASSIGN" => Listed(t, g, N, 0) /\ Defaulted(t, N) # {}
  BY <1>4, <1>6, <1>8, ListedByName
<1>. QED
  BY <1>1, <1>4, <1>5, <1>7, <1>9 DEF n, N

LEMMA AllButNone ==
  ASSUME NEW t, NEW k \in Nat, NEW f, \A p \in NamesTo(t, f.name, k) : p \in 1..k,
         NEW lag, Listed(t, f, NamesTo(t, f.name, k), lag), NEW def,
         def = 1 <=> Defaulted(t, NamesTo(t, f.name, k)) # {}
  PROVE  AllBut(t, k, f, 0, lag, def)
<1>. DEFINE N == NamesTo(t, f.name, k)
<1>1. N \ {0} = N
  OBVIOUS
<1>. QED
  BY <1>1 DEF AllBut

LEMMA NamedFollows ==
  ASSUME NEW t, NEW k \in Nat, NEW f, f.name \in Nat, ArgsTyped(f),
         SoFar(t, "named", k, f, 0, 0), NEW g, g.name = f.name, Grown(f, g, k)
  PROVE  /\ t[k + 1] = "COMMA" => SoFar(t, "comma", k, g, 1, 0)
         /\ t[k + 1] = "ASSIGN" => SoFar(t, "default", k, g, 0, 1)
<1>0. "comma" \in Reading /\ "default" \in Reading
  BY DEF Reading
<1>1. Within(t, g.name, k)
  BY NameGrows
<1>2. /\ \A p \in NamesTo(t, g.name, k) : p \in 1..k
      /\ t[k + 1] # "ASSIGN" =>
           /\ Listed(t, g, NamesTo(t, g.name, k), 1)
           /\ Defaulted(t, NamesTo(t, g.name, k)) = {}
      /\ t[k + 1] = "ASSIGN" =>
           /\ Listed(t, g, NamesTo(t, g.name, k), 0)
           /\ Defaulted(t, NamesTo(t, g.name, k)) # {}
  BY NameGrows
<1>3. ASSUME t[k + 1] = "COMMA"
      PROVE  AllBut(t, k, g, 0, 1, 0)
  <2>1. /\ Listed(t, g, NamesTo(t, g.name, k), 1)
        /\ 0 = 1 <=> Defaulted(t, NamesTo(t, g.name, k)) # {}
    BY <1>2, <1>3
  <2>. QED
    BY <1>2, <2>1, AllButNone
<1>4. ASSUME t[k + 1] = "ASSIGN"
      PROVE  AllBut(t, k, g, 0, 0, 1)
  BY <1>2, <1>4, AllButNone
<1>5. Awaits(t, "comma", k, 0) /\ Awaits(t, "default", k, 0) /\ 0 \in 0..(k + 2)
  BY DEF Awaits
<1>. QED
  BY <1>0, <1>1, <1>3, <1>4, <1>5, ReadingIs

LEMMA NamedCloses ==
  ASSUME NEW t, NEW k \in Nat, NEW f, f.name \in Nat, ArgsTyped(f),
         SoFar(t, "named", k, f, 0, 0), NEW g, g.name = f.name, Grown(f, g, k),
         t[k + 1] = "RPT", NEW h, h.name = f.name, h.args = g.args, h.dropped = g.dropped,
         h.min_args_count = (g.min_args_count + 1) % (2^ArgBits), NEW x, NEW y
  PROVE  SoFar(t, "close", k, h, x, y)
<1>. DEFINE n == f.name
            N == NamesTo(t, n, k)
<1>1. /\ Within(t, n, k) /\ n < k /\ k > n + 1 /\ n \in Nat /\ IsFiniteSet(N)
      /\ \A p \in N : p \in 1..k
      /\ Listed(t, g, N, 1)
  BY NameGrows
<1>. HIDE DEF n
<1>2. NamesTo(t, n, k + 1) = N
  BY <1>1, NamesStep
<1>. HIDE DEF N
<1>3. Listed(t, h, N, 0)
  BY <1>1, ListedCounted
<1>4. \A p \in N : p < k + 1
  BY <1>1
<1>5. k + 1 > n + 2
  BY <1>1
<1>6. Complete(t, h, k + 1)
  BY <1>2, <1>3, <1>4, <1>5 DEF Complete, n
<1>. QED
  BY <1>1, <1>6 DEF SoFar, Reading, n

LEMMA CountsMandatory ==
  ASSUME NEW t, NEW k \in Nat, NEW f, f.name \in Nat, NEW def,
         SoFar(t, "ahead", k, f, 1, def), NEW h, h.name = f.name, h.args = f.args,
         h.dropped = f.dropped, h.min_args_count = (f.min_args_count + 1) % (2^ArgBits)
  PROVE  SoFar(t, "ahead", k, h, 0, def)
<1>. DEFINE n == f.name
<1>0. "ahead" \in Reading
  BY DEF Reading
<1>1. Within(t, n, k) /\ n < k /\ n \in Nat
  BY <1>0, ReadingIs DEF Within
<1>2. PICK q \in 0..(k + 2) : Awaits(t, "ahead", k, q) /\ AllBut(t, k, f, q, 1, def)
  BY <1>0, ReadingIs
<1>. DEFINE N == NamesTo(t, n, k)
<1>3. /\ q # 0 => q \in N
      /\ \A p \in N \ {q} : p \in 1..k /\ (q # 0 => p < q)
      /\ Listed(t, f, N \ {q}, 1)
      /\ def = 1 <=> Defaulted(t, N \ {q}) # {}
  BY <1>2 DEF AllBut
<1>. HIDE DEF n
<1>4. IsFiniteSet(N)
  BY <1>1, NamesAre
<1>5. IsFiniteSet(N \ {q})
  BY <1>4, FS_Difference, FS_Singleton
<1>. HIDE DEF N
<1>6. Listed(t, h, N \ {q}, 0)
  BY <1>3, <1>5, ListedCounted
<1>7. AllBut(t, k, h, q, 0, def)
  BY <1>3, <1>6 DEF AllBut, N, n
<1>. QED
  BY <1>0, <1>1, <1>2, <1>7, ReadingIs DEF n

LEMMA DefaultCloses ==
  ASSUME NEW t, NEW k \in Nat, NEW f, f.name \in Nat,
         SoFar(t, "default", k, f, 0, 1), t[k + 1] = "RPT", NEW x, NEW y
  PROVE  SoFar(t, "close", k, f, x, y)
<1>. DEFINE n == f.name
            N == NamesTo(t, n, k)
<1>0. "default" \in Reading
  BY DEF Reading
<1>1. Within(t, n, k) /\ n < k /\ n \in Nat
  BY <1>0, ReadingIs DEF Within
<1>2. AllBut(t, k, f, 0, 0, 1)
  <2>1. PICK q \in 0..(k + 2) : Awaits(t, "default", k, q) /\ AllBut(t, k, f, q, 0, 1)
    BY <1>0, ReadingIs
  <2>2. q = 0
    BY <2>1 DEF Awaits
  <2>. QED
    BY <2>1, <2>2
<1>3. /\ \A p \in N \ {0} : p \in 1..k
      /\ Listed(t, f, N \ {0}, 0)
  BY <1>2 DEF AllBut
<1>. HIDE DEF n
<1>4. /\ \A p \in N : p \in Nat /\ n + 2 <= p
      /\ NameAt(t, n + 2) \in N
  BY <1>1, NamesAre
<1>5. NamesTo(t, n, k + 1) = N
  BY <1>1, NamesStep
<1>. HIDE DEF N
<1>6. N \ {0} = N
  BY <1>1, <1>4
<1>7. \A p \in N : p < k + 1
  BY <1>3, <1>6
<1>8. k + 1 > n + 2
  BY <1>1, <1>4, <1>7
<1>9. Listed(t, f, N, 0)
  BY <1>3, <1>6
<1>10. Complete(t, f, k + 1)
  BY <1>5, <1>7, <1>8, <1>9 DEF Complete, n
<1>. QED
  BY <1>1, <1>10 DEF SoFar, Reading, n

LEMMA ValueListed ==
  ASSUME NEW t \in Seq(Tag), NEW k \in Nat, k + 1 = Len(t), NEW f, f.name \in Nat,
         ArgsTyped(f), SoFar(t, "value", k, f, 0, 1), NEW g, g.name = f.name,
         Grown(f, g, 0)
  PROVE  SoFar(t, "default", k, g, 0, 1)
<1>. DEFINE n == f.name
            N == NamesTo(t, n, k)
<1>0. "value" \in Reading /\ "default" \in Reading
  BY DEF Reading
<1>1. Within(t, n, k) /\ n < k /\ n \in Nat
  BY <1>0, ReadingIs DEF Within
<1>2. PICK q \in 0..(k + 2) : Awaits(t, "value", k, q) /\ AllBut(t, k, f, q, 0, 1)
  BY <1>0, ReadingIs
<1>3. q # 0 /\ q \in Nat /\ q + 1 <= Len(t) /\ t[q + 1] = "ASSIGN"
  BY <1>2 DEF Awaits, Is
<1>4. /\ q \in N
      /\ \A p \in N \ {q} : p \in 1..k
      /\ Listed(t, f, N \ {q}, 0)
      /\ Defaulted(t, N \ {q}) # {}
  BY <1>2, <1>3 DEF AllBut
<1>5. q \in 1..k
  BY <1>3
<1>. HIDE DEF n
<1>6. IsFiniteSet(N)
  BY <1>1, NamesAre
<1>. DEFINE M == N \ {q}
<1>. HIDE DEF N
<1>7. IsFiniteSet(M) /\ q \notin M /\ M \cup {q} = N
  BY <1>4, <1>6, FS_Difference, FS_Singleton
<1>8. Listed(t, f, M, 0) /\ Defaulted(t, M) # {}
  BY <1>4
<1>. HIDE DEF M
<1>9. Listed(t, g, N, 0) /\ Defaulted(t, N) # {}
  BY <1>3, <1>7, <1>8, ListedByDefault
<1>10. \A p \in N : p \in 1..k
  BY <1>4, <1>5
<1>11. AllBut(t, k, g, 0, 0, 1)
  BY <1>9, <1>10, AllButNone DEF N, n
<1>12. Awaits(t, "default", k, 0) /\ 0 \in 0..(k + 2)
  BY DEF Awaits
<1>. QED
  BY <1>0, <1>1, <1>11, <1>12, ReadingIs DEF n

LEMMA CloseReads ==
  ASSUME NEW t \in Seq(Tag), NEW k \in Nat, k + 1 < Len(t), NEW f, f.name \in Nat,
         NEW lag, NEW def, SoFar(t, "close", k, f, lag, def), Nest(t, k + 1) = 0
  PROVE  ArgsRead(t, f)
<1>1. Within(t, f.name, k) /\ Complete(t, f, k + 1) /\ f.name < k
  BY DEF SoFar, Within
<1>2. (k + 1) - 1 = k /\ k + 1 \in (f.name + 2)..(Len(t) - 1)
  <2>. DEFINE m == Len(t)
  <2>1. m \in Nat /\ k + 1 < m
    OBVIOUS
  <2>. HIDE DEF m
  <2>2. k + 1 \in (f.name + 2)..(m - 1)
    BY <1>1, <2>1
  <2>. QED
    BY <2>2 DEF m
<1>. QED
  BY <1>1, <1>2 DEF ArgsRead

LEMMA SoFarStarts ==
  ASSUME NEW t, NEW k, Nest(t, k) = 0, NEW f, f.name = k, Fresh(f), NEW lag, NEW def
  PROVE  SoFar(t, "open", k, f, lag, def)
BY DEF SoFar, Reading

-----------------------------------------------------------------------------
(***************************************************************************)
(* Where the parser is in a signature, by the stack                        *)
(***************************************************************************)

\* Behind it, or in an expression
Rest(s) ==
  IF On(s, "fundefarglistp:add") THEN "value"
  ELSE IF On(s, "fundefarglistp") THEN "default" ELSE "done"

Mode(s) ==
  CASE s[1] = "LPT" /\ Below(s, "funarglist") -> "open"
    [] s[1] = "funarglist" -> "list"
    [] s[1] = "COMMA" /\ Below(s, "funarg") -> "comma"
    [] s[1] \in {"funarg", "funarglistp:min"} -> "ahead"
    [] s[1] = "CONST" /\ Below(s, "funarg:arg") -> "const"
    [] s[1] = "ID" /\ Below(s, "funarg:arg") -> "name"
    [] s[1] \in {"funarg:arg", "funarglistp"} -> "named"
    [] s[1] = "assign" /\ Below(s, "fundefarglistp:add") -> "named"
    [] s[1] = "RPT" /\ ~Below(s, "fundefarglistp") /\ ~Below(s, "statlistp") -> "close"
    [] OTHER -> Rest(s)

Plain(s) ==
  /\ s[1] \notin {"funarglist", "funarg", "funarglistp:min", "funarg:arg", "funarglistp"}
  /\ s[1] = "LPT" => ~Below(s, "funarglist")
  /\ s[1] = "COMMA" => ~Below(s, "funarg")
  /\ s[1] \in {"CONST", "ID"} => ~Below(s, "funarg:arg")
  /\ s[1] = "assign" => ~Below(s, "fundefarglistp:add")
  /\ s[1] = "RPT" => Below(s, "fundefarglistp") \/ Below(s, "statlistp")

Lag(s) == IF On(s, "funarglistp:min") THEN 1 ELSE 0

Def(s) == IF On(s, "fundefarglistp") THEN 1 ELSE 0

ArgsSoFar(t, s, k, f, a) ==
  /\ SoFar(t, Mode(s), k, f, Lag(s), Def(s))
  /\ s[1] = "funarglistp" => a = k

\* What is on the stack for a signature, and after it
InSignature(s) ==
  \/ On(s, "fundefarglistp") \/ On(s, "statlistp")
  \/ s[1] \in {"funarglist", "funarg", "funarg:arg", "funarglistp", "funarglistp:min",
               "statlist", "RPG", "nativefundef:fun", "privatefilep:fundef",
               "filep:add_fundef"}
  \/ s[1] = "LPT" /\ Below(s, "funarglist")
  \/ s[1] = "COMMA" /\ Below(s, "funarg")
  \/ s[1] \in {"CONST", "ID"} /\ Below(s, "funarg:arg")
  \/ s[1] = "RPT" /\ ~Below(s, "invokearglistp")

Seats(s) ==
  /\ On(s, "funsig:fun") => Below(s, "funarglist")
  /\ On(s, "funarg") \/ On(s, "funarg:arg") =>
       On(s, "funarglistp") \/ Below(s, "fundefarglistp:add")
  /\ On(s, "fundefarglistp:add") => On(s, "fundefarglistp")
  /\ s[1] = "COMMA" => Below(s, "funarg") \/ Below(s, "invokearglistp")
  /\ FunDue(s) /\ On(s, "statvardeclp") => ~On(s, "fundefarglistp")

Seated(s) == Seats(s) /\ (FunDue(s) => InSignature(s))

LEMMA PlainMode ==
  ASSUME NEW s, Plain(s)
  PROVE  Mode(s) = Rest(s)
BY DEF Mode, Plain

LEMMA ModeCloses ==
  ASSUME NEW s, Mode(s) = "close"
  PROVE  s[1] = "RPT"
BY DEF Mode, Rest

-----------------------------------------------------------------------------
(* More of the shape of the stack *)

LEMMA NotUnder ==
  ASSUME NEW s, Shaped(s), s # << >>, s[1] \notin Tag, NEW x, x \notin Tag,
         ~(Level(s[1]) < Level(x)), Level(s[1]) # 3 \/ Level(x) # 3
  PROVE  ~Below(s, x)
BY Apart DEF Above

LEMMA SecondIs ==
  ASSUME NEW s, Shaped(s), s # << >>, NEW x, Below(s, x)
  PROVE  /\ s[2] \in NextTo(s[1]) /\ Below(s, s[2])
         /\ x # s[2] => Above(s[2], x)
<1>1. Len(s) \in Nat /\ Ordered(s) /\ Adjacent(s)
  BY DEF Shaped
<1>2. PICK i \in 2..Len(s) : s[i] = x
  BY DEF Below
<1>3. s[2] \in NextTo(s[1])
  <2>1. 1 \in 1..(Len(s) - 1) /\ 1 + 1 = 2
    BY <1>1, <1>2
  <2>. QED
    BY <1>1, <2>1 DEF Adjacent
<1>4. Below(s, s[2])
  <2>1. 2 \in 2..Len(s)
    BY <1>1, <1>2
  <2>. QED
    BY <2>1 DEF Below
<1>5. ASSUME x # s[2]
      PROVE  Above(s[2], x)
  <2>1. i # 2 /\ 2 \in 1..Len(s) /\ i \in 1..Len(s) /\ 2 < i
    BY <1>1, <1>2, <1>5
  <2>. QED
    BY <1>1, <1>2, <2>1 DEF Ordered
<1>. QED
  BY <1>3, <1>4, <1>5

LEMMA Behind ==
  ASSUME NEW s, Shaped(s), s # << >>, NEW x, Below(s, x), x # s[2]
  PROVE  \E y : Below(s, y) /\ x \in NextTo(y)
<1>1. Len(s) \in Nat /\ Adjacent(s)
  BY DEF Shaped
<1>2. PICK i \in 2..Len(s) : s[i] = x
  BY DEF Below
<1>. DEFINE j == i - 1
<1>3. j \in 2..Len(s) /\ j \in 1..(Len(s) - 1) /\ j + 1 = i
  BY <1>1, <1>2
<1>. HIDE DEF j
<1>4. s[j + 1] \in NextTo(s[j])
  BY <1>1, <1>3 DEF Adjacent
<1>5. Below(s, s[j])
  BY <1>3 DEF Below
<1>. QED
  BY <1>2, <1>3, <1>4, <1>5

\* What is not the last has something next to it.
LEMMA Ahead ==
  ASSUME NEW s, Shaped(s), s # << >>, NEW y, On(s, y), y \notin Tag, NEW x, Below(s, x),
         x \notin Tag, Level(y) < Level(x)
  PROVE  \E z \in NextTo(y) : Below(s, z)
<1>1. Len(s) \in Nat /\ Len(s) # 0 /\ Ordered(s) /\ Adjacent(s)
  BY DEF Shaped
<1>2. PICK i \in 2..Len(s) : s[i] = x
  BY DEF Below
<1>3. PICK j \in 1..Len(s) : s[j] = y
  BY <1>1 DEF On, Below
<1>4. Level(x) \in Nat /\ Level(y) \in Nat
  BY LevelIsNat
<1>5. i # j
  BY <1>2, <1>3, <1>4
<1>6. ~(i < j)
  <2>1. ~Above(x, y)
    BY <1>4 DEF Above
  <2>2. i \in 1..Len(s)
    BY <1>1, <1>2
  <2>. QED
    BY <1>1, <1>2, <1>3, <2>1, <2>2 DEF Ordered
<1>7. j \in 1..(Len(s) - 1) /\ j + 1 \in 2..Len(s)
  BY <1>1, <1>2, <1>3, <1>5, <1>6
<1>8. s[j + 1] \in NextTo(y)
  BY <1>1, <1>3, <1>7 DEF Adjacent
<1>9. Below(s, s[j + 1])
  BY <1>7 DEF Below
<1>. QED
  BY <1>8, <1>9

LEMMA OneOn ==
  ASSUME NEW s, Shaped(s), s # << >>, NEW x \in Item \ Tag, NEW y \in Item \ Tag, x # y,
         Level(x) = Level(y), Level(x) # 3, On(s, x)
  PROVE  ~On(s, y)
<1>0. Level(x) \in Nat
  BY LevelIsNat
<1>1. ASSUME NEW a \in Item \ Tag, NEW b \in Item \ Tag, Level(a) = Level(b), Level(a) # 3,
             Level(a) \in Nat, s[1] = a
      PROVE  ~Below(s, b)
  BY <1>1, NotUnder
<1>2. CASE s[1] = x
  BY <1>0, <1>1, <1>2 DEF On
<1>3. CASE s[1] = y
  BY <1>0, <1>1, <1>3 DEF On
<1>4. CASE s[1] # x /\ s[1] # y
  BY <1>4, OneOf DEF On
<1>. QED
  BY <1>2, <1>3, <1>4

LEMMA ComesAfter ==
  /\ \A y : "funarglist" \in NextTo(y) => y = "LPT"
  /\ \A y : "LPT" \in NextTo(y) => y = "funsig:fun"
  /\ \A y : "COMMA" \notin NextTo(y)
  /\ \A y : "funarglistp" \in NextTo(y) => y \in {"funarg", "funarg:arg"}
  /\ \A y : "RPT" \in NextTo(y) =>
       y \in {"invokearglist", "invokearglistp", "funarglist", "funarglistp", "fundefarglistp"}
BY DEF NextTo, AfterExpr

LEMMA CommaFirst ==
  ASSUME NEW s, Shaped(s), s # << >>
  PROVE  ~Below(s, "COMMA")
<1>1. SUFFICES ASSUME Below(s, "COMMA") PROVE FALSE
  OBVIOUS
<1>2. s[2] # "COMMA"
  BY <1>1, SecondIs, ComesAfter
<1>. QED
  BY <1>1, <1>2, Behind, ComesAfter

LEMMA LptAfter ==
  ASSUME NEW s, Shaped(s), s # << >>, Below(s, "LPT")
  PROVE  On(s, "funsig:fun")
<1>1. CASE s[2] = "LPT"
  BY <1>1, SecondIs, ComesAfter DEF On
<1>2. CASE s[2] # "LPT"
  BY <1>2, Behind, ComesAfter DEF On
<1>. QED
  BY <1>1, <1>2

\* When a definition is due, its list has not been begun unless it is next.
LEMMA ListIsNext ==
  ASSUME NEW s, Shaped(s), s # << >>, FunDue(s), Below(s, "funarglist")
  PROVE  s[1] = "LPT" /\ s[2] = "funarglist"
<1>1. ~On(s, "funsig:fun")
  BY DEF FunDue, MakesFun
<1>2. ~Below(s, "LPT")
  BY <1>1, LptAfter
<1>3. s[2] = "funarglist"
  BY <1>2, Behind, ComesAfter
<1>. QED
  BY <1>3, SecondIs, ComesAfter

LEMMA DueIs ==
  ASSUME NEW s, Shaped(s), s # << >>, FunDue(s)
  PROVE  /\ s[1] # "filep:add_fundef" => Below(s, "filep:add_fundef")
         /\ ~On(s, "filep:add_stat") /\ ~On(s, "privatefilep:var")
         /\ ~On(s, "funsig:fun")
<1>1. On(s, "filep:add_fundef") /\ ~On(s, "funsig:fun")
  BY DEF FunDue, MakesFun
<1>2. ~On(s, "filep:add_stat")
  BY <1>1, OneOn, ItemsAre, Levels
<1>3. ASSUME On(s, "privatefilep:var")
      PROVE  FALSE
  <2>1. s[1] # "filep:add_fundef"
    BY <1>3, NotUnder, ItemsAre, Levels DEF On
  <2>2. Below(s, "filep:add_fundef")
    BY <1>1, <2>1 DEF On
  <2>3. \E z \in NextTo("privatefilep:var") : Below(s, z)
    BY <1>3, <2>2, Ahead, ItemsAre, Levels
  <2>4. NextTo("privatefilep:var") = {"filep:add_stat"}
    BY DEF NextTo
  <2>. QED
    BY <1>2, <2>3, <2>4 DEF On
<1>. QED
  BY <1>1, <1>2, <1>3 DEF On

LEMMA SignatureEnds ==
  ASSUME NEW s, Shaped(s), s # << >>, FunDue(s),
         s[1] \in {"funarglist", "funarglistp", "fundefarglistp"}
  PROVE  /\ s[2] = "RPT" /\ ~Below(s, "statlistp")
         /\ \A x \in {"fundefarglistp", "funarglistp", "funarglist", "invokearglistp",
                      "funsig:fun", "funarg", "funarg:arg", "funarglistp:min",
                      "fundefarglistp:add", "statvardeclp"} : ~Below(s, x)
<1>1. \A x \in {"fundefarglistp", "funarglistp", "funarglist", "invokearglistp",
                "funsig:fun", "funarg", "funarg:arg", "funarglistp:min",
                "fundefarglistp:add", "statvardeclp"} : ~Below(s, x)
  <2>1. Level(s[1]) = 6 /\ s[1] \notin Tag
    BY Levels, ItemsAre
  <2>2. \A x \in {"fundefarglistp", "funarglistp", "funarglist", "invokearglistp",
                  "funsig:fun", "funarg", "funarg:arg", "funarglistp:min",
                  "fundefarglistp:add", "statvardeclp"} : Level(x) <= 6 /\ x \notin Tag
    BY Levels, ItemsAre
  <2>. QED
    BY <2>1, <2>2, NotUnder, LevelIsNat
<1>2. Below(s, "filep:add_fundef")
  BY DueIs
<1>3. s[2] = "RPT"
  BY <1>2, SecondIs DEF NextTo
<1>4. ASSUME Below(s, "statlistp")
      PROVE  FALSE
  <2>0. "statlistp" # s[2]
    BY <1>3
  <2>1. PICK y : Below(s, y) /\ "statlistp" \in NextTo(y)
    BY <1>4, <2>0, Behind
  <2>2. y \in {"statlistp:add", "LPG"}
    BY <2>1 DEF NextTo, AfterExpr
  <2>3. y # "statlistp:add"
    BY <2>1, NotUnder, Levels, ItemsAre
  <2>4. PICK z : Below(s, z) /\ "LPG" \in NextTo(z)
    BY <1>3, <2>1, <2>2, <2>3, Behind
  <2>. QED
    BY <2>4 DEF NextTo, AfterExpr
<1>. QED
  BY <1>1, <1>3, <1>4

\* The default of an argument is no statement.
LEMMA NoStatement ==
  ASSUME NEW s, Shaped(s), s # << >>, FunDue(s), Tidy(s), On(s, "fundefarglistp"),
         NEW x \in MakesNode
  PROVE  ~On(s, x)
<1>1. SUFFICES ASSUME On(s, x) PROVE FALSE
  OBVIOUS
<1>2. PICK z \in NeedsNode : Below(s, z)
  BY <1>1 DEF Tidy, OneMakes
<1>3. z = "statlistp:add"
  BY <1>2, DueIs DEF NeedsNode, On
<1>. QED
  BY <1>2, <1>3, OneOn, ItemsAre, Levels DEF On

\* The parenthesis that closes a signature comes before a body, or none.
LEMMA BehindSignature ==
  ASSUME NEW s, Shaped(s), s # << >>, FunDue(s), Seats(s), s[1] = "RPT",
         ~Below(s, "fundefarglistp"), ~Below(s, "statlistp"), ~Below(s, "invokearglistp"),
         NEW y \in NextTo("RPT"), Below(s, y)
  PROVE  y \in {"statlist", "nativefundef:fun"}
<1>1. Below(s, "filep:add_fundef")
  BY DueIs
<1>2. y \in AfterExpr \cup {"statlist", "nativefundef:fun"}
  BY DEF NextTo
<1>3. y \notin {"filep:add_stat", "privatefilep:var"}
  BY DueIs DEF On
<1>4. y # "fundefarglistp:add"
  BY DEF Seats, On
<1>5. y # "statlistp:add"
  <2>1. SUFFICES ASSUME Below(s, "statlistp:add") PROVE FALSE
    OBVIOUS
  <2>2. \E z \in NextTo("statlistp:add") : Below(s, z)
    BY <1>1, <2>1, Ahead, ItemsAre, Levels DEF On
  <2>. QED
    BY <2>1, <2>2 DEF NextTo
<1>6. y # "invokearglistp:add"
  <2>1. SUFFICES ASSUME Below(s, "invokearglistp:add") PROVE FALSE
    OBVIOUS
  <2>2. \E z \in NextTo("invokearglistp:add") : Below(s, z)
    BY <1>1, <2>1, Ahead, ItemsAre, Levels DEF On
  <2>. QED
    BY <2>1, <2>2 DEF NextTo
<1>. QED
  BY <1>2, <1>3, <1>4, <1>5, <1>6 DEF AfterExpr

-----------------------------------------------------------------------------
(* The parentheses on the stack *)

LEMMA CountNone ==
  ASSUME NEW s, NEW x, \A i \in 1..Len(s) : s[i] # x
  PROVE  Count(s, Len(s), x) = 0
<1>1. {j \in 1..Len(s) : s[j] = x} = {}
  OBVIOUS
<1>. QED
  BY <1>1, FS_EmptySet DEF Count

LEMMA CountSome ==
  ASSUME NEW s, Len(s) \in Nat, NEW x
  PROVE  /\ Count(s, Len(s), x) \in Nat
         /\ \A i \in 1..Len(s) : s[i] = x => Count(s, Len(s), x) >= 1
         /\ \A i, j \in 1..Len(s) : s[i] = x /\ s[j] = x /\ i # j => Count(s, Len(s), x) >= 2
         /\ \A i \in 1..Len(s) :
              s[i] = x /\ (\A j \in 1..Len(s) : s[j] = x => j = i) => Count(s, Len(s), x) = 1
<1>. DEFINE S == {j \in 1..Len(s) : s[j] = x}
<1>1. IsFiniteSet(S) /\ Cardinality(S) \in Nat
  <2>1. IsFiniteSet(1..Len(s))
    BY FS_Interval
  <2>2. S \subseteq 1..Len(s)
    OBVIOUS
  <2>. HIDE DEF S
  <2>. QED
    BY <2>1, <2>2, FS_Subset, FS_CardinalityType
<1>2. ASSUME NEW i \in S
      PROVE  Cardinality(S) >= 1
  <2>1. {i} \subseteq S /\ Cardinality({i}) = 1
    BY FS_Singleton
  <2>. HIDE DEF S
  <2>. QED
    BY <1>1, <2>1, FS_Subset
<1>3. ASSUME NEW i \in S, NEW j \in S, i # j
      PROVE  Cardinality(S) >= 2
  <2>. DEFINE I == {i}
              R == I \cup {j}
  <2>1. R \subseteq S
    BY <1>3
  <2>2. IsFiniteSet(I) /\ Cardinality(I) = 1 /\ j \notin I
    BY <1>3, FS_Singleton
  <2>. HIDE DEF I
  <2>3. Cardinality(R) = Cardinality(I) + 1
    BY <2>2, FS_AddElement
  <2>. HIDE DEF S, R
  <2>4. Cardinality(R) = 2
    BY <2>2, <2>3
  <2>. HIDE DEF S, R
  <2>. QED
    BY <1>1, <2>1, <2>4, FS_Subset
<1>4. ASSUME NEW i \in S, \A j \in S : j = i
      PROVE  Cardinality(S) = 1
  <2>1. S = {i}
    BY <1>4
  <2>. HIDE DEF S
  <2>. QED
    BY <2>1, FS_Singleton
<1>5. Count(s, Len(s), x) = Cardinality(S)
  BY DEF Count
<1>6. \A i \in 1..Len(s) : s[i] = x => i \in S
  OBVIOUS
<1>7. \A i \in S : i \in 1..Len(s) /\ s[i] = x
  OBVIOUS
<1>. HIDE DEF S
<1>. QED
  BY <1>1, <1>2, <1>3, <1>4, <1>5, <1>6, <1>7

LEMMA NoLpt ==
  ASSUME NEW s, Shaped(s), s # << >>, ~On(s, "funsig:fun"), s[1] # "LPT"
  PROVE  Count(s, Len(s), "LPT") = 0
<1>1. ~Below(s, "LPT")
  BY LptAfter
<1>2. \A i \in 1..Len(s) : i = 1 \/ i \in 2..Len(s)
  BY DEF Shaped
<1>3. \A i \in 1..Len(s) : s[i] # "LPT"
  BY <1>1, <1>2 DEF Below
<1>. QED
  BY <1>3, CountNone

\* What a parenthesis that closes comes after
Closers == {"invokearglist", "invokearglistp", "funarglist", "funarglistp", "fundefarglistp"}

LEMMA ClosersAre ==
  \A x \in Closers : x \in Item \ Tag /\ Level(x) <= 6 /\ Level(x) \in Nat /\ NextTo(x) = {"RPT"}
<1>1. \A x \in Closers : x \in Item \ Tag
  BY ItemsAre DEF Closers
<1>2. \A x \in Closers : Level(x) <= 6 /\ Level(x) \in Nat
  BY Levels DEF Closers
<1>3. \A x \in Closers : NextTo(x) = {"RPT"}
  BY DEF Closers, NextTo
<1>. QED
  BY <1>1, <1>2, <1>3

LEMMA RptBehind ==
  ASSUME NEW s, Shaped(s), s # << >>, NEW i \in 2..Len(s), s[i] = "RPT"
  PROVE  i - 1 \in 1..Len(s) /\ s[i - 1] \in Closers
<1>1. Len(s) \in Nat /\ Adjacent(s)
  BY DEF Shaped
<1>. DEFINE j == i - 1
<1>2. j \in 1..(Len(s) - 1) /\ j + 1 = i /\ j \in 1..Len(s)
  BY <1>1
<1>. HIDE DEF j
<1>3. s[j + 1] \in NextTo(s[j])
  BY <1>1, <1>2 DEF Adjacent
<1>4. s[j] \in Closers
  BY <1>2, <1>3, ComesAfter DEF Closers
<1>. QED
  BY <1>2, <1>4 DEF j

LEMMA RptAhead ==
  ASSUME NEW s, Shaped(s), s # << >>, Below(s, "filep:add_fundef"), NEW j \in 1..Len(s),
         s[j] \in Closers
  PROVE  j + 1 \in 2..Len(s) /\ s[j + 1] = "RPT"
<1>1. Len(s) \in Nat /\ Ordered(s) /\ Adjacent(s)
  BY DEF Shaped
<1>2. PICK i \in 2..Len(s) : s[i] = "filep:add_fundef"
  BY DEF Below
<1>3. i # j /\ i \in 1..Len(s)
  <2>1. "filep:add_fundef" \notin Closers
    BY DEF Closers
  <2>. QED
    BY <1>1, <1>2, <2>1
<1>4. ~(i < j)
  <2>1. ~Above("filep:add_fundef", s[j])
    BY ClosersAre, ItemsAre, Levels DEF Above
  <2>. QED
    BY <1>1, <1>2, <1>3, <2>1 DEF Ordered
<1>5. j \in 1..(Len(s) - 1) /\ j + 1 \in 2..Len(s)
  BY <1>1, <1>2, <1>3, <1>4
<1>6. s[j + 1] \in NextTo(s[j])
  BY <1>1, <1>5 DEF Adjacent
<1>. QED
  BY <1>5, <1>6, ClosersAre

LEMMA OnAt ==
  ASSUME NEW s, s # << >>, Len(s) \in Nat, Len(s) # 0, NEW x, On(s, x)
  PROVE  \E j \in 1..Len(s) : s[j] = x
BY DEF On, Below

\* In a default value
LEMMA NestDefault ==
  ASSUME NEW s, Shaped(s), s # << >>, FunDue(s), s[1] # "LPT", On(s, "fundefarglistp")
  PROVE  /\ Nest(s, Len(s)) <= -1
         /\ Below(s, "invokearglistp") => Nest(s, Len(s)) <= -2
<1>0. Len(s) \in Nat /\ Len(s) # 0
  BY DEF Shaped
<1>1. Count(s, Len(s), "LPT") = 0
  BY NoLpt, DueIs
<1>2. s[1] # "filep:add_fundef"
  BY NotUnder, ItemsAre, Levels DEF On
<1>3. Below(s, "filep:add_fundef")
  BY <1>2, DueIs
<1>4. PICK i \in 1..Len(s) : s[i] = "fundefarglistp"
  BY <1>0, OnAt
<1>5. i + 1 \in 1..Len(s) /\ s[i + 1] = "RPT"
  <2>1. s[i] \in Closers
    BY <1>4 DEF Closers
  <2>. QED
    BY <1>3, <2>1, RptAhead
<1>6. Count(s, Len(s), "RPT") \in Nat /\ Count(s, Len(s), "RPT") >= 1
  BY <1>0, <1>5, CountSome
<1>7. ASSUME Below(s, "invokearglistp")
      PROVE  Count(s, Len(s), "RPT") >= 2
  <2>1. PICK j \in 1..Len(s) : s[j] = "invokearglistp"
    BY <1>0, <1>7, OnAt DEF On
  <2>2. j + 1 \in 1..Len(s) /\ s[j + 1] = "RPT"
    <3>1. s[j] \in Closers
      BY <2>1 DEF Closers
    <3>. QED
      BY <1>3, <3>1, RptAhead
  <2>3. i + 1 # j + 1
    BY <1>4, <2>1
  <2>. QED
    BY <1>0, <1>5, <2>2, <2>3, CountSome
<1>. QED
  BY <1>1, <1>6, <1>7 DEF Nest

LEMMA OneRpt ==
  ASSUME NEW s, Shaped(s), s # << >>, Below(s, "filep:add_fundef"), s[1] # "RPT",
         ~On(s, "invokearglist"), ~On(s, "invokearglistp"),
         NEW x \in {"funarglist", "funarglistp", "fundefarglistp"}, On(s, x)
  PROVE  Count(s, Len(s), "RPT") = 1
<1>0. Len(s) \in Nat /\ Len(s) # 0 /\ Ordered(s)
  BY DEF Shaped
<1>1. PICK i \in 1..Len(s) : s[i] = x
  BY <1>0, OnAt
<1>2. i + 1 \in 1..Len(s) /\ s[i + 1] = "RPT"
  <2>1. s[i] \in Closers
    BY <1>1 DEF Closers
  <2>. QED
    BY <2>1, RptAhead
<1>3. ASSUME NEW j \in 1..Len(s), s[j] = "RPT"
      PROVE  j = i + 1
  <2>1. j \in 2..Len(s)
    BY <1>3
  <2>. DEFINE h == j - 1
  <2>2. h \in 1..Len(s) /\ s[h] \in Closers /\ j = h + 1
    BY <1>3, <2>1, RptBehind
  <2>. HIDE DEF h
  <2>3. s[h] \notin {"invokearglist", "invokearglistp"}
    <3>1. h = 1 \/ h \in 2..Len(s)
      BY <2>2
    <3>. QED
      BY <3>1 DEF On, Below
  <2>4. s[h] \in {"funarglist", "funarglistp", "fundefarglistp"}
    BY <2>2, <2>3 DEF Closers
  <2>5. \A a, b \in {"funarglist", "funarglistp", "fundefarglistp"} : ~Above(a, b)
    BY ItemsAre, Levels DEF Above
  <2>6. ~Above(s[h], s[i]) /\ ~Above(s[i], s[h])
    BY <1>1, <2>4, <2>5
  <2>7. h = i
    BY <1>0, <1>1, <2>2, <2>6 DEF Ordered
  <2>. QED
    BY <2>2, <2>7
<1>. QED
  BY <1>0, <1>2, <1>3, CountSome

LEMMA NestComma ==
  ASSUME NEW s, Shaped(s), s # << >>, FunDue(s), Seats(s), s[1] = "COMMA", Below(s, "funarg")
  PROVE  Nest(s, Len(s)) = -1
<1>1. Count(s, Len(s), "LPT") = 0
  BY NoLpt, DueIs
<1>2. Below(s, "filep:add_fundef")
  BY DueIs
<1>3. PICK x \in {"funarglist", "funarglistp", "fundefarglistp"} : On(s, x)
  BY DEF Seats, On
<1>4. ASSUME NEW y \in {"invokearglist", "invokearglistp"}, Below(s, y)
      PROVE  FALSE
  <2>1. Len(s) \in Nat /\ Ordered(s) /\ Adjacent(s)
    BY DEF Shaped
  <2>2. PICK i \in 2..Len(s) : s[i] = "funarg"
    BY DEF Below
  <2>3. PICK j \in 2..Len(s) : s[j] = y
    BY <1>4 DEF Below
  <2>4. ~Above(y, "funarg") /\ y # "funarg"
    BY ItemsAre, Levels DEF Above
  <2>5. i < j
    BY <2>1, <2>2, <2>3, <2>4 DEF Ordered
  <2>6. i \in 1..(Len(s) - 1) /\ i + 1 \in 1..Len(s) /\ j \in 1..Len(s)
        /\ (i + 1 = j \/ i + 1 < j)
    BY <2>1, <2>2, <2>3, <2>5
  <2>7. s[i + 1] \in {"funarglistp", "assign"}
    BY <2>1, <2>2, <2>6 DEF Adjacent, NextTo
  <2>8. s[i + 1] # y /\ ~Above(s[i + 1], y)
    BY <2>7, ItemsAre, Levels DEF Above
  <2>. QED
    BY <2>1, <2>3, <2>6, <2>8 DEF Ordered
<1>5. Count(s, Len(s), "RPT") = 1
  <2>1. ~On(s, "invokearglist") /\ ~On(s, "invokearglistp")
    BY <1>4 DEF On
  <2>. QED
    BY <1>2, <1>3, <2>1, OneRpt
<1>. QED
  BY <1>1, <1>5 DEF Nest

\* Behind a signature
LEMMA NestBehind ==
  ASSUME NEW s, Shaped(s), s # << >>, s[1] \notin Tag, Level(s[1]) >= 7
  PROVE  Nest(s, Len(s)) = 0
<1>1. s[1] # "funsig:fun"
  BY Levels
<1>2. Count(s, Len(s), "LPT") = 0
  <2>1. ~On(s, "funsig:fun")
    BY SMTT(30), <1>1, NotUnder, Levels, ItemsAre, LevelIsNat DEF On
  <2>. QED
    BY <2>1, NoLpt, TagsAre
<1>3. Count(s, Len(s), "RPT") = 0
  <2>1. SUFFICES ASSUME NEW i \in 1..Len(s), s[i] = "RPT" PROVE FALSE
    BY CountNone
  <2>2. i \in 2..Len(s)
    BY <2>1, TagsAre DEF Shaped
  <2>3. i - 1 \in 1..Len(s) /\ s[i - 1] \in Closers
    BY <2>1, <2>2, RptBehind
  <2>4. i - 1 # 1
    BY <2>3, ClosersAre
  <2>5. i - 1 \in 2..Len(s)
    BY <2>3, <2>4
  <2>6. Below(s, s[i - 1])
    BY <2>5 DEF Below
  <2>. QED
    BY <2>3, <2>6, ClosersAre, NotUnder, LevelIsNat
<1>. QED
  BY <1>2, <1>3 DEF Nest

\* Before one
LEMMA NestBefore ==
  ASSUME NEW s, Shaped(s), s # << >>, s[1] = "funsig:fun", Below(s, "funarglist"),
         Below(s, "filep:add_fundef")
  PROVE  Nest(s, Len(s)) = 0
<1>0. Len(s) \in Nat /\ Len(s) # 0 /\ Ordered(s) /\ Adjacent(s)
  BY DEF Shaped
<1>1. \A i \in 2..Len(s) : s[i] # "funsig:fun"
  BY SMTT(30), NotUnder, ItemsAre, Levels DEF Below
<1>2. ASSUME NEW i \in 2..Len(s), s[i] = "LPT"
      PROVE  i = 2
  <2>. DEFINE j == i - 1
  <2>1. j \in 1..(Len(s) - 1) /\ j + 1 = i
    BY <1>0
  <2>. HIDE DEF j
  <2>2. s[j] = "funsig:fun"
    BY <1>0, <1>2, <2>1, ComesAfter DEF Adjacent
  <2>3. j = 1
    BY <1>0, <1>1, <2>1, <2>2
  <2>. QED
    BY <2>1, <2>3
<1>3. PICK i \in 2..Len(s) : s[i] = "funarglist"
  BY DEF Below
<1>4. i = 3
  <2>. DEFINE j == i - 1
  <2>1. j \in 1..(Len(s) - 1) /\ j + 1 = i
    BY <1>0
  <2>. HIDE DEF j
  <2>2. s[j] = "LPT"
    BY <1>0, <1>3, <2>1, ComesAfter DEF Adjacent
  <2>3. j \in 2..Len(s)
    BY <1>0, <2>1, <2>2
  <2>4. j = 2
    BY <1>2, <2>2, <2>3
  <2>. QED
    BY <2>1, <2>4
<1>5. Len(s) >= 3 /\ s[3] = "funarglist"
  BY <1>3, <1>4
<1>6. s[2] = "LPT"
  BY SecondIs DEF NextTo
<1>7. Count(s, Len(s), "LPT") = 1
  <2>1. 2 \in 1..Len(s) /\ \A j \in 1..Len(s) : s[j] = "LPT" => j = 2
    BY <1>0, <1>2, <1>5
  <2>. QED
    BY <1>0, <1>6, <2>1, CountSome
<1>8. ASSUME NEW y \in {"invokearglist", "invokearglistp"}, Below(s, y)
      PROVE  FALSE
  <2>1. PICK j \in 2..Len(s) : s[j] = y
    BY <1>8 DEF Below
  <2>2. j # 2 /\ j # 3
    BY <1>5, <1>6, <2>1
  <2>3. 3 < j /\ 3 \in 1..Len(s) /\ j \in 1..Len(s)
    BY <1>0, <1>5, <2>2
  <2>4. ~Above("funarglist", y)
    BY ItemsAre, Levels DEF Above
  <2>. QED
    BY <1>0, <1>5, <2>1, <2>3, <2>4 DEF Ordered
<1>9. Count(s, Len(s), "RPT") = 1
  <2>1. ~On(s, "invokearglist") /\ ~On(s, "invokearglistp") /\ On(s, "funarglist")
    BY <1>8 DEF On
  <2>. QED
    BY <2>1, OneRpt
<1>. QED
  BY <1>7, <1>9 DEF Nest

-----------------------------------------------------------------------------
(* What a call and a return do to it *)

\* Nothing changes from s to n for a definition that is due.
Steady(s, n) ==
  /\ Seated(n)
  /\ FunDue(n) => /\ FunDue(s) /\ n[1] # "funarglistp"
                  /\ Mode(n) = Mode(s) /\ Lag(n) = Lag(s) /\ Def(n) = Def(s)

\* A call that does not concern a signature, or begins one
Dull(p, a, others) ==
  /\ p \notin Tag /\ Level(p) > 1
  /\ p \notin {"funarglist", "funarg", "funarglistp", "fundefarglistp", "nativefundef:fun",
               "privatefilep:fundef", "filep:add_fundef", "fundefarglistp:add"}
  /\ \A x \in {"funarg", "funarg:arg", "funarglistp", "funarglistp:min", "fundefarglistp",
               "fundefarglistp:add"} : x # a /\ x \notin others
  /\ a \notin {"funsig:fun", "RPT", "funarglist", "filep:add_fundef"}
  /\ "funsig:fun" \in others <=> "funarglist" \in others
  /\ a = "COMMA" => "invokearglistp" \in others /\ Level(p) > 2
  /\ p \in {"statlist", "statlistp"} => "statlistp" \in others
  /\ a = "statvardeclp" \/ "statvardeclp" \in others => p \in MakesNode
  /\ a = "assign" => p \in MakesNode \cup {"statvardeclp"}
  /\ p \in MakesFun \/ "filep:add_fundef" \in others =>
       \E x \in MakesFun : x = a \/ x \in others

LEMMA DullCallIs ==
  ASSUME NEW s, Shaped(s), s # << >>, Tidy(s), Seated(s), NEW a, NEW others,
         Dull(s[1], a, others), NEW n, Makes(s, n, a, others)
  PROVE  /\ Seated(n)
         /\ FunDue(n) => /\ FunDue(s) /\ n[1] # "funarglistp"
                         /\ Mode(n) = Rest(s) /\ Lag(n) = Lag(s) /\ Def(n) = Def(s)
         /\ FunDue(n) /\ ~(s[1] = "assign" /\ Below(s, "fundefarglistp:add")) =>
              Mode(s) = Rest(s)
<1>1. Shaped(n) /\ n # << >> /\ n[1] = a /\ \A x : Below(n, x) <=> x \in others \/ Below(s, x)
  BY DEF Makes, Called
<1>2. /\ s[1] \notin Tag /\ Level(s[1]) > 1
      /\ s[1] \notin {"funarglist", "funarg", "funarglistp", "fundefarglistp",
                      "nativefundef:fun", "privatefilep:fundef", "filep:add_fundef",
                      "fundefarglistp:add"}
      /\ \A x \in {"funarg", "funarg:arg", "funarglistp", "funarglistp:min",
                   "fundefarglistp", "fundefarglistp:add"} : x # a /\ x \notin others
      /\ a \notin {"funsig:fun", "RPT", "funarglist", "filep:add_fundef"}
      /\ "funsig:fun" \in others <=> "funarglist" \in others
      /\ a = "COMMA" => "invokearglistp" \in others /\ Level(s[1]) > 2
      /\ s[1] \in {"statlist", "statlistp"} => "statlistp" \in others
      /\ a = "statvardeclp" \/ "statvardeclp" \in others => s[1] \in MakesNode
      /\ a = "assign" => s[1] \in MakesNode \cup {"statvardeclp"}
      /\ s[1] \in MakesFun \/ "filep:add_fundef" \in others =>
           \E x \in MakesFun : x = a \/ x \in others
  BY DEF Dull
<1>3. \A x \in {"funarg:arg", "funarglistp:min", "funsig:fun"} : s[1] # x /\ ~Below(s, x)
  <2>1. \A x \in {"funarg:arg", "funarglistp:min", "funsig:fun"} : Level(x) = 1 /\ x \notin Tag
    BY Levels, ItemsAre
  <2>. QED
    BY <1>2, <2>1, NotUnder, LevelIsNat
<1>4. On(n, "fundefarglistp:add") <=> On(s, "fundefarglistp:add")
  BY <1>1, <1>2 DEF On
<1>5. On(n, "fundefarglistp") <=> On(s, "fundefarglistp")
  BY <1>1, <1>2 DEF On
<1>6. ~On(s, "funarglistp:min") /\ ~On(n, "funarglistp:min")
  BY <1>1, <1>2, <1>3 DEF On
<1>7. Seats(s) /\ (FunDue(s) => InSignature(s))
  BY DEF Seated
<1>8. FunDue(n) => FunDue(s)
  <2>1. SUFFICES ASSUME FunDue(n) PROVE FunDue(s)
    OBVIOUS
  <2>2. On(n, "filep:add_fundef") /\ \A x \in MakesFun : ~On(n, x)
    BY <2>1 DEF FunDue
  <2>3. ~("filep:add_fundef" \in others) /\ s[1] \notin MakesFun
    BY <1>1, <1>2, <2>2 DEF On
  <2>4. \A x \in MakesFun : ~On(s, x)
    BY <1>1, <2>2, <2>3 DEF On
  <2>5. On(s, "filep:add_fundef")
    BY <1>1, <1>2, <2>2, <2>3 DEF On
  <2>. QED
    BY <2>4, <2>5 DEF FunDue
<1>9. FunDue(s) /\ (s[1] \in MakesNode \/ s[1] = "statvardeclp") => ~On(s, "fundefarglistp")
  <2>1. CASE s[1] \in MakesNode
    BY <2>1, NoStatement DEF On
  <2>2. CASE s[1] = "statvardeclp"
    BY <1>7, <2>2 DEF Seats, On
  <2>. QED
    BY <2>1, <2>2
<1>10. Seats(n)
  <2>1. On(n, "funsig:fun") => Below(n, "funarglist")
    BY <1>1, <1>2, <1>3 DEF On
  <2>2. On(n, "funarg") \/ On(n, "funarg:arg") =>
          On(n, "funarglistp") \/ Below(n, "fundefarglistp:add")
    <3>1. ASSUME On(n, "funarg") \/ On(n, "funarg:arg")
          PROVE  On(s, "funarg")
      BY <1>1, <1>2, <1>3, <3>1 DEF On
    <3>2. On(s, "funarg") => On(s, "funarglistp") \/ Below(s, "fundefarglistp:add")
      BY <1>7 DEF Seats
    <3>. QED
      BY <1>1, <1>2, <3>1, <3>2 DEF On
  <2>3. On(n, "fundefarglistp:add") => On(n, "fundefarglistp")
    BY <1>4, <1>5, <1>7 DEF Seats
  <2>4. n[1] = "COMMA" => Below(n, "funarg") \/ Below(n, "invokearglistp")
    BY <1>1, <1>2
  <2>5. ASSUME FunDue(n), On(n, "statvardeclp")
        PROVE  ~On(n, "fundefarglistp")
    <3>1. CASE a = "statvardeclp" \/ "statvardeclp" \in others
      BY <1>2, <1>5, <1>8, <1>9, <2>5, <3>1
    <3>2. CASE Below(s, "statvardeclp")
      BY <1>5, <1>7, <1>8, <2>5, <3>2 DEF Seats, On
    <3>. QED
      BY <1>1, <2>5, <3>1, <3>2 DEF On
  <2>. QED
    BY <2>1, <2>2, <2>3, <2>4, <2>5 DEF Seats
<1>11. ASSUME FunDue(n)
       PROVE  InSignature(n)
  <2>1. InSignature(s)
    BY <1>7, <1>8, <1>11
  <2>2. On(s, "fundefarglistp") \/ On(s, "statlistp") \/ s[1] = "statlist"
    BY <1>2, <1>3, <2>1, TagsAre DEF InSignature
  <2>3. On(n, "fundefarglistp") \/ On(n, "statlistp")
    BY <1>1, <1>2, <1>5, <2>2 DEF On
  <2>. QED
    BY <2>3 DEF InSignature
<1>12. ASSUME FunDue(n)
       PROVE  Plain(n)
  <2>1. n[1] \notin {"funarglist", "funarg", "funarglistp:min", "funarg:arg", "funarglistp"}
    BY <1>1, <1>2
  <2>2. n[1] = "LPT" => ~Below(n, "funarglist")
    <3>1. "funarglist" \notin others
      <4>1. ~On(n, "funsig:fun")
        BY <1>12 DEF FunDue, MakesFun
      <4>. QED
        BY <1>1, <1>2, <4>1 DEF On
    <3>2. ~Below(s, "funarglist")
      BY <1>2, <1>8, <1>12, ListIsNext, TagsAre
    <3>. QED
      BY <1>1, <3>1, <3>2
  <2>3. n[1] = "COMMA" => ~Below(n, "funarg")
    <3>1. Level(s[1]) > 2 => ~Below(s, "funarg")
      BY SMTT(30), <1>2, NotUnder, Levels, ItemsAre, LevelIsNat
    <3>. QED
      BY <1>1, <1>2, <3>1
  <2>4. n[1] \in {"CONST", "ID"} => ~Below(n, "funarg:arg")
    BY <1>1, <1>2, <1>3
  <2>5. n[1] = "assign" => ~Below(n, "fundefarglistp:add")
    <3>1. n[1] = "assign" => ~On(s, "fundefarglistp:add")
      BY <1>1, <1>2, <1>7, <1>8, <1>9, <1>12 DEF Seats
    <3>. QED
      BY <1>4, <3>1 DEF On
  <2>. QED
    BY <1>1, <1>2, <2>1, <2>2, <2>3, <2>4, <2>5 DEF Plain
<1>13. ASSUME ~(s[1] = "assign" /\ Below(s, "fundefarglistp:add"))
       PROVE  Plain(s)
  BY <1>2, <1>3, <1>13, TagsAre DEF Plain
<1>14. Rest(n) = Rest(s) /\ Lag(n) = Lag(s) /\ Def(n) = Def(s)
  BY <1>4, <1>5, <1>6 DEF Rest, Lag, Def
<1>15. n[1] # "funarglistp"
  BY <1>1, <1>2
<1>. QED
  BY <1>8, <1>10, <1>11, <1>12, <1>13, <1>14, <1>15, PlainMode DEF Seated

LEMMA DullCallKeeps ==
  ASSUME NEW s, Shaped(s), s # << >>, Tidy(s), Seated(s), NEW a, NEW others,
         Dull(s[1], a, others), s[1] # "assign", NEW n, Makes(s, n, a, others)
  PROVE  Steady(s, n)
BY DullCallIs DEF Steady

LEMMA DullCalls ==
  /\ Dull("file", "importlist", {"filep", "EOF"})
  /\ Dull("importlist", "IMPORT", {"qid", "importlist:add", "importlist"})
  /\ Dull("filep", "PRIVATE", {"privatefilep", "filep"})
  /\ Dull("filep", "nativefundef", {"filep:add_fundef", "filep"})
  /\ Dull("filep", "fundef", {"filep:add_fundef", "filep"})
  /\ Dull("filep", "stat", {"filep:add_stat", "filep"})
  /\ Dull("privatefilep", "statvardecl", {"privatefilep:var", "filep:add_stat"})
  /\ Dull("privatefilep", "nativefundef", {"privatefilep:fundef", "filep:add_fundef"})
  /\ Dull("privatefilep", "fundef", {"privatefilep:fundef", "filep:add_fundef"})
  /\ Dull("nativefundef", "NATIVE", {"funsig", "nativefundef:fun"})
  /\ Dull("qid", "ID", {"qid:id", "qidp"})
  /\ Dull("qidp", "DOT", {"ID", "qidp:id", "qidp"})
  /\ Dull("stat", "statvardecl", {})
  /\ Dull("stat", "qid", {"qidstatp"})
  /\ Dull("statvardecl", "CONST", {"ID", "statvardecl:const", "assign"})
  /\ Dull("statvardecl", "VAR", {"ID", "statvardecl:var", "statvardeclp"})
  /\ Dull("statvardeclp", "assign", {})
  /\ Dull("qidstatp", "assign", {})
  /\ Dull("qidstatp", "invokeargs", {})
  /\ Dull("assign", "ASSIGN", {"expr"})
  /\ Dull("expr", "qid", {"qidexprp"})
  /\ Dull("expr", "literal", {})
  /\ Dull("literal", "NUM", {})
  /\ Dull("qidexprp", "invokeargs", {})
  /\ Dull("invokeargs", "LPT", {"invokearglist", "RPT"})
  /\ Dull("invokearglist", "expr", {"invokearglistp"})
  /\ Dull("invokearglistp", "COMMA", {"expr", "invokearglistp:add", "invokearglistp"})
  /\ Dull("fundef", "funsig", {"statlist"})
  /\ Dull("funsig", "FUN", {"ID", "funsig:fun", "LPT", "funarglist", "RPT"})
  /\ Dull("statlist", "LPG", {"statlistp", "RPG"})
  /\ Dull("statlistp", "stat", {"statlistp:add", "statlistp"})
BY ItemsAre, Levels DEF Dull, MakesFun, MakesNode

LEMMA ReturnOn ==
  ASSUME NEW s, NEW n, Returns(s, n)
  PROVE  /\ \A x : On(n, x) <=> Below(s, x)
         /\ n[1] \in NextTo(s[1]) /\ Shaped(n) /\ n # << >>
BY DEF Returns, Returned, On

LEMMA ReturnDue ==
  ASSUME NEW s, NEW n, Returns(s, n), FunDue(n)
  PROVE  FunDue(s) \/ s[1] \in MakesFun
<1>1. On(n, "filep:add_fundef") /\ \A x \in MakesFun : ~On(n, x)
  BY DEF FunDue
<1>. QED
  BY <1>1, ReturnOn DEF FunDue, On

LEMMA ReturnSeats ==
  ASSUME NEW s, Shaped(s), s # << >>, Seats(s), NEW n, Returns(s, n)
  PROVE  Seats(n)
<1>1. /\ \A x : On(n, x) <=> Below(s, x)
      /\ n[1] \in NextTo(s[1]) /\ Shaped(n) /\ n # << >>
  BY ReturnOn
<1>2. ASSUME On(n, "funsig:fun")
      PROVE  Below(n, "funarglist")
  <2>1. On(n, "funarglist")
    BY <1>1, <1>2 DEF Seats, On
  <2>2. n[1] # "funarglist"
    BY <1>1, <1>2, NotUnder, Levels, ItemsAre DEF On
  <2>. QED
    BY <2>1, <2>2 DEF On
<1>3. ASSUME On(n, "funarg") \/ On(n, "funarg:arg")
      PROVE  On(n, "funarglistp") \/ Below(n, "fundefarglistp:add")
  <2>1. On(s, "funarglistp") \/ Below(s, "fundefarglistp:add")
    BY <1>1, <1>3 DEF Seats, On
  <2>2. s[1] # "funarglistp"
    BY <1>1, <1>3, NotUnder, Levels, ItemsAre
  <2>3. n[1] # "fundefarglistp:add"
    BY <1>1, <1>3, NotUnder, Levels, ItemsAre DEF On
  <2>. QED
    BY <1>1, <2>1, <2>2, <2>3 DEF On
<1>4. ASSUME On(n, "fundefarglistp:add")
      PROVE  On(n, "fundefarglistp")
  <2>1. On(s, "fundefarglistp")
    BY <1>1, <1>4 DEF Seats, On
  <2>2. s[1] # "fundefarglistp"
    BY <1>1, <1>4, NotUnder, Levels, ItemsAre
  <2>. QED
    BY <1>1, <2>1, <2>2 DEF On
<1>5. n[1] # "COMMA"
  BY <1>1, ComesAfter
<1>6. ASSUME FunDue(n), On(n, "statvardeclp"), On(n, "fundefarglistp")
      PROVE  FALSE
  <2>1. On(s, "statvardeclp") /\ On(s, "fundefarglistp") /\ Below(s, "statvardeclp")
    BY <1>1, <1>6 DEF On
  <2>2. s[1] \in MakesFun
    BY <1>6, <2>1, ReturnDue DEF Seats
  <2>3. s[1] = "funsig:fun"
    BY <2>1, <2>2, NotUnder, Levels, ItemsAre DEF MakesFun
  <2>4. On(s, "funarglist")
    BY <2>3 DEF Seats, On
  <2>. QED
    BY <2>1, <2>4, OneOn, Levels, ItemsAre
<1>. QED
  BY <1>2, <1>3, <1>4, <1>5, <1>6 DEF Seats

LEMMA DullReturns ==
  ASSUME NEW s, Shaped(s), s # << >>, Tidy(s), Seated(s), NEW n, Returns(s, n),
         s[1] \in {"importlist", "filep", "qidp", "statvardeclp", "qidexprp", "invokearglist",
                   "invokearglistp", "statlistp", "importlist:add", "filep:add_stat",
                   "privatefilep:var", "privatefilep:fundef", "nativefundef:fun", "qid:id",
                   "qidp:id", "statvardecl:const", "statvardecl:var", "statlistp:add",
                   "invokearglistp:add"}
  PROVE  Steady(s, n)
<1>1. /\ \A x : On(n, x) <=> Below(s, x)
      /\ n[1] \in NextTo(s[1]) /\ Shaped(n) /\ n # << >>
  BY ReturnOn
<1>2. Seats(s) /\ (FunDue(s) => InSignature(s))
  BY DEF Seated
<1>3. Seats(n)
  BY <1>2, ReturnSeats
<1>4. FunDue(n) => FunDue(s)
  <2>1. s[1] \notin MakesFun
    BY DEF MakesFun
  <2>. QED
    BY <2>1, ReturnDue
<1>5. /\ On(n, "fundefarglistp:add") <=> On(s, "fundefarglistp:add")
      /\ On(n, "fundefarglistp") <=> On(s, "fundefarglistp")
      /\ On(n, "funarglistp:min") <=> On(s, "funarglistp:min")
  BY <1>1 DEF On
<1>6. /\ n[1] \notin {"funarglist", "funarg", "funarglistp:min", "funarg:arg", "funarglistp",
                      "LPT", "COMMA", "CONST", "ID"}
      /\ n[1] = "assign" => s[1] = "statvardecl:const"
      /\ n[1] = "RPT" => s[1] \in {"invokearglist", "invokearglistp"}
      /\ s[1] = "statlistp" => n[1] = "RPG"
      /\ s[1] \in {"nativefundef:fun", "privatefilep:fundef"} =>
           n[1] \in {"filep:add_fundef", "privatefilep:fundef"}
  BY <1>1 DEF NextTo, AfterExpr
<1>7. s[1] \notin Tag
  BY ItemsAre
<1>8. ASSUME FunDue(n)
      PROVE  InSignature(n)
  <2>1. \/ On(s, "fundefarglistp") \/ On(s, "statlistp")
        \/ s[1] \in {"nativefundef:fun", "privatefilep:fundef"}
    BY <1>2, <1>4, <1>7, <1>8, TagsAre DEF InSignature
  <2>2. CASE On(s, "fundefarglistp")
    BY <1>5, <2>2 DEF InSignature
  <2>3. CASE On(s, "statlistp") /\ s[1] # "statlistp"
    BY <1>1, <2>3 DEF InSignature, On
  <2>4. CASE s[1] = "statlistp"
    BY <1>6, <2>4 DEF InSignature
  <2>5. CASE s[1] \in {"nativefundef:fun", "privatefilep:fundef"}
    BY <1>6, <2>5 DEF InSignature
  <2>. QED
    BY <2>1, <2>2, <2>3, <2>4, <2>5
<1>9. ASSUME FunDue(n)
      PROVE  Plain(n)
  <2>1. n[1] = "assign" => ~Below(n, "fundefarglistp:add")
    <3>1. s[1] = "statvardecl:const" => ~On(s, "fundefarglistp")
      BY <1>4, <1>9, NoStatement DEF On, MakesNode
    <3>. QED
      BY <1>2, <1>5, <1>6, <3>1 DEF Seats, On
  <2>2. n[1] = "RPT" => Below(n, "fundefarglistp") \/ Below(n, "statlistp")
    <3>1. ASSUME n[1] = "RPT"
          PROVE  On(s, "fundefarglistp") \/ On(s, "statlistp")
      BY <1>2, <1>4, <1>6, <1>7, <1>9, <3>1, TagsAre DEF InSignature
    <3>. QED
      BY <1>1, <1>6, <3>1 DEF On
  <2>. QED
    BY <1>6, <2>1, <2>2 DEF Plain
<1>10. Plain(s)
  BY <1>7, TagsAre DEF Plain
<1>11. Rest(n) = Rest(s) /\ Lag(n) = Lag(s) /\ Def(n) = Def(s)
  BY <1>5 DEF Rest, Lag, Def
<1>. QED
  BY <1>3, <1>4, <1>6, <1>8, <1>9, <1>10, <1>11, PlainMode DEF Steady, Seated

-----------------------------------------------------------------------------
(* What is known of the arguments, step by step *)

Sits(t, s, k, f, a) == Seated(s) /\ (FunDue(s) => ArgsSoFar(t, s, k, f, a))

\* What a definition has that is due
DueHas(s, f) == FunDue(s) => f.name \in Nat /\ ArgsTyped(f)

LEMMA SteadySits ==
  ASSUME NEW t, NEW s, NEW k, NEW f, NEW a, Sits(t, s, k, f, a), NEW n, Steady(s, n),
         NEW g, NEW b,
         FunDue(s) => /\ g.name = f.name /\ g.args = f.args /\ g.dropped = f.dropped
                      /\ g.min_args_count = f.min_args_count
  PROVE  Sits(t, n, k, g, b)
<1>1. ASSUME FunDue(n)
      PROVE  ArgsSoFar(t, n, k, g, b)
  <2>1. FunDue(s) /\ n[1] # "funarglistp"
        /\ Mode(n) = Mode(s) /\ Lag(n) = Lag(s) /\ Def(n) = Def(s)
    BY <1>1 DEF Steady
  <2>2. SoFar(t, Mode(s), k, f, Lag(s), Def(s))
    BY <2>1 DEF Sits, ArgsSoFar
  <2>3. SoFar(t, Mode(s), k, g, Lag(s), Def(s))
    BY <2>1, <2>2, SoFarSame
  <2>. QED
    BY <2>1, <2>3 DEF ArgsSoFar
<1>. QED
  BY <1>1 DEF Sits, Steady

LEMMA CallDue ==
  ASSUME NEW s, NEW n, NEW a, NEW others, Makes(s, n, a, others), s[1] \notin MakesFun,
         a # "filep:add_fundef", "filep:add_fundef" \notin others, FunDue(n)
  PROVE  FunDue(s)
BY DEF Makes, Called, FunDue, On

\* A signature is opened, and has arguments.
LEMMA ListBegins ==
  ASSUME NEW t, NEW s, Shaped(s), s # << >>, NEW k \in Nat, NEW f, NEW a,
         Sits(t, s, k, f, a), DueHas(s, f), s[1] = "funarglist", NEW n,
         Makes(s, n, "funarg", {"funarglistp"})
  PROVE  Sits(t, n, k, f, a)
<1>1. Shaped(n) /\ n # << >> /\ n[1] = "funarg"
      /\ \A x : Below(n, x) <=> x = "funarglistp" \/ Below(s, x)
  BY DEF Makes, Called
<1>2. /\ ~Below(s, "funsig:fun") /\ ~Below(s, "fundefarglistp:add")
      /\ ~Below(s, "statvardeclp") /\ ~Below(s, "funarglistp:min")
      /\ ~Below(s, "fundefarglistp")
  BY NotUnder, Levels, ItemsAre
<1>3. Seats(n)
  BY <1>1, <1>2 DEF Seats, On
<1>4. InSignature(n)
  BY <1>1 DEF InSignature
<1>5. ASSUME FunDue(n)
      PROVE  ArgsSoFar(t, n, k, f, a)
  <2>1. FunDue(s)
    BY <1>5, CallDue DEF MakesFun
  <2>2. Mode(s) = "list" /\ Mode(n) = "ahead" /\ Lag(n) = 0 /\ Def(n) = 0
    BY <1>1, <1>2 DEF Mode, Lag, Def, On
  <2>3. SoFar(t, "list", k, f, Lag(s), Def(s)) /\ f.name \in Nat
    BY <2>1, <2>2 DEF Sits, ArgsSoFar, DueHas
  <2>4. SoFar(t, "ahead", k, f, 0, 0)
    BY <2>3, NoneListed
  <2>. QED
    BY <1>1, <2>2, <2>4 DEF ArgsSoFar
<1>. QED
  BY <1>3, <1>4, <1>5 DEF Sits, Seated

\* CONST or the name of an argument is next.
LEMMA ArgumentBegins ==
  ASSUME NEW t, NEW s, Shaped(s), s # << >>, NEW k \in Nat, NEW f, NEW a,
         Sits(t, s, k, f, a), s[1] = "funarg", NEW n, k + 1 \in 1..Len(t),
         \/ t[k + 1] = "CONST" /\ Makes(s, n, "CONST", {"ID", "funarg:arg"})
         \/ t[k + 1] = "ID" /\ Makes(s, n, "ID", {"funarg:arg"})
  PROVE  Sits(t, n, k, f, a)
<1>1. PICK others : /\ n[1] = t[k + 1] /\ n[1] \in {"CONST", "ID"}
                    /\ Makes(s, n, n[1], others)
                    /\ \A x : x \in others => x \in {"ID", "funarg:arg"}
                    /\ "funarg:arg" \in others
  <2>1. CASE t[k + 1] = "CONST" /\ Makes(s, n, "CONST", {"ID", "funarg:arg"})
    BY <2>1 DEF Makes, Called
  <2>2. CASE t[k + 1] = "ID" /\ Makes(s, n, "ID", {"funarg:arg"})
    BY <2>2 DEF Makes, Called
  <2>. QED
    BY <2>1, <2>2
<1>2. Shaped(n) /\ n # << >> /\ \A x : Below(n, x) <=> x \in others \/ Below(s, x)
  BY <1>1 DEF Makes, Called
<1>3. ~Below(s, "funsig:fun") /\ ~Below(s, "funarglistp:min")
  BY NotUnder, Levels, ItemsAre
<1>4. Seats(s)
  BY DEF Sits, Seated
<1>5. FunDue(n) => FunDue(s)
  BY <1>1, CallDue DEF MakesFun
<1>6. Seats(n)
  <2>1. ~On(n, "funsig:fun")
    BY <1>1, <1>2, <1>3 DEF On
  <2>2. On(n, "funarglistp") \/ Below(n, "fundefarglistp:add")
    BY <1>2, <1>4 DEF Seats, On
  <2>3. On(n, "fundefarglistp:add") => On(n, "fundefarglistp")
    BY <1>1, <1>2, <1>4 DEF Seats, On
  <2>4. FunDue(n) /\ On(n, "statvardeclp") => ~On(n, "fundefarglistp")
    BY <1>1, <1>2, <1>4, <1>5 DEF Seats, On
  <2>. QED
    BY <1>1, <2>1, <2>2, <2>3, <2>4 DEF Seats
<1>7. InSignature(n)
  BY <1>1, <1>2 DEF InSignature
<1>8. ASSUME FunDue(n)
      PROVE  ArgsSoFar(t, n, k, f, a)
  <2>1. /\ Mode(s) = "ahead" /\ Lag(n) = Lag(s) /\ Def(n) = Def(s)
        /\ n[1] = "CONST" => Mode(n) = "const"
        /\ n[1] = "ID" => Mode(n) = "name"
    BY <1>1, <1>2, <1>3 DEF Mode, Lag, Def, On
  <2>2. SoFar(t, "ahead", k, f, Lag(s), Def(s))
    BY <1>5, <1>8, <2>1 DEF Sits, ArgsSoFar
  <2>3. \A q \in Nat : Awaits(t, "ahead", k, q) => Awaits(t, Mode(n), k, q)
    BY <1>1, <2>1 DEF Awaits, NameAt, Is
  <2>4. SoFar(t, Mode(n), k, f, Lag(s), Def(s))
    BY <1>1, <2>1, <2>2, <2>3, ReadingTurns DEF Reading
  <2>. QED
    BY <1>1, <2>1, <2>4 DEF ArgsSoFar
<1>. QED
  BY <1>6, <1>7, <1>8 DEF Sits, Seated

\* The name of an argument is read.
LEMMA ArgumentNamed ==
  ASSUME NEW t, NEW s, Shaped(s), s # << >>, NEW k \in Nat, NEW f, NEW a,
         Sits(t, s, k, f, a), s[1] = "funarg:arg", NEW n, Returns(s, n)
  PROVE  Sits(t, n, k, f, k)
<1>1. (\A x : On(n, x) <=> Below(s, x)) /\ n[1] \in NextTo(s[1]) /\ Shaped(n) /\ n # << >>
  BY ReturnOn
<1>2. n[1] \in {"funarglistp", "assign"}
  BY <1>1 DEF NextTo
<1>3. Seats(s) /\ Seats(n)
  BY ReturnSeats DEF Sits, Seated
<1>4. ~Below(s, "funarglistp:min")
  BY NotUnder, Levels, ItemsAre
<1>5. n[1] = "assign" => Below(n, "fundefarglistp:add") /\ On(n, "fundefarglistp")
  <2>1. SUFFICES ASSUME n[1] = "assign"
                 PROVE  Below(n, "fundefarglistp:add") /\ On(n, "fundefarglistp")
    OBVIOUS
  <2>2. ~Below(n, "funarglistp")
    <3>1. Below(n, "funarglistp") => n[2] # "funarglistp"
      <4>1. "funarglistp" \notin NextTo("assign")
        BY DEF NextTo, AfterExpr
      <4>. QED
        BY <2>1, <1>1, <4>1, SecondIs
    <3>2. ~Below(n, "funarg") /\ ~Below(n, "funarg:arg")
      BY <1>1, <2>1, NotUnder, Levels, ItemsAre
    <3>. QED
      BY <1>1, <3>1, <3>2, Behind, ComesAfter
  <2>3. Below(s, "fundefarglistp:add")
    BY <1>1, <1>3, <2>1, <2>2 DEF Seats, On
  <2>. QED
    BY <1>1, <1>3, <2>1, <2>3 DEF Seats, On
<1>6. InSignature(n)
  BY <1>2, <1>5 DEF InSignature
<1>7. ASSUME FunDue(n)
      PROVE  ArgsSoFar(t, n, k, f, k)
  <2>1. FunDue(s)
    BY <1>7, ReturnDue DEF MakesFun
  <2>2. Mode(s) = "named" /\ Mode(n) = "named"
    BY <1>2, <1>5 DEF Mode
  <2>3. Lag(n) = Lag(s) /\ Def(n) = Def(s)
    BY <1>1, <1>4 DEF Lag, Def, On
  <2>. QED
    BY <2>1, <2>2, <2>3 DEF Sits, ArgsSoFar
<1>. QED
  BY <1>3, <1>6, <1>7 DEF Sits, Seated

\* An argument without a default is counted.
LEMMA ArgumentCounted ==
  ASSUME NEW t, NEW s, Shaped(s), s # << >>, NEW k \in Nat, NEW f, NEW a,
         Sits(t, s, k, f, a), DueHas(s, f), s[1] = "funarglistp:min", NEW n, Returns(s, n),
         NEW g, FunDue(s) => /\ g.name = f.name /\ g.args = f.args /\ g.dropped = f.dropped
                             /\ g.min_args_count = (f.min_args_count + 1) % (2^ArgBits)
  PROVE  Sits(t, n, k, g, a)
<1>1. (\A x : On(n, x) <=> Below(s, x)) /\ n[1] \in NextTo(s[1]) /\ Shaped(n) /\ n # << >>
  BY ReturnOn
<1>2. n[1] = "funarg"
  BY <1>1 DEF NextTo
<1>3. Seats(n)
  BY ReturnSeats DEF Sits, Seated
<1>4. ~Below(s, "funarglistp:min")
  BY NotUnder, Levels, ItemsAre
<1>5. InSignature(n)
  BY <1>2 DEF InSignature
<1>6. ASSUME FunDue(n)
      PROVE  ArgsSoFar(t, n, k, g, a)
  <2>1. FunDue(s)
    BY <1>6, ReturnDue DEF MakesFun
  <2>2. Mode(s) = "ahead" /\ Mode(n) = "ahead" /\ Lag(s) = 1 /\ Lag(n) = 0 /\ Def(n) = Def(s)
    BY <1>1, <1>2, <1>4 DEF Mode, Lag, Def, On
  <2>3. SoFar(t, "ahead", k, f, 1, Def(s)) /\ f.name \in Nat
    BY <2>1, <2>2 DEF Sits, ArgsSoFar, DueHas
  <2>4. SoFar(t, "ahead", k, g, 0, Def(s))
    BY <2>1, <2>3, CountsMandatory
  <2>. QED
    BY <1>2, <2>2, <2>4 DEF ArgsSoFar
<1>. QED
  BY <1>3, <1>5, <1>6 DEF Sits, Seated

\* What is left of an argument's list, when it is by itself
LEMMA NoneBehind ==
  ASSUME NEW s, Shaped(s), s # << >>,
         s[1] \in {"funarglist", "funarglistp", "fundefarglistp"}
  PROVE  \A x \in {"funsig:fun", "funarg", "funarg:arg", "funarglist", "funarglistp",
                   "funarglistp:min", "fundefarglistp", "fundefarglistp:add",
                   "statvardeclp"} :
           ~Below(s, x)
<1>1. Level(s[1]) = 6 /\ s[1] \notin Tag
  BY Levels, ItemsAre
<1>2. \A x \in {"funsig:fun", "funarg", "funarg:arg", "funarglist", "funarglistp",
                "funarglistp:min", "fundefarglistp", "fundefarglistp:add", "statvardeclp"} :
        x \notin Tag /\ Level(x) \in Nat /\ Level(x) <= 6
  BY Levels, ItemsAre
<1>. QED
  BY <1>1, <1>2, NotUnder

\* An argument goes into the list, and another one follows.
LEMMA ArgumentsGoOn ==
  ASSUME NEW t, NEW s, Shaped(s), s # << >>, NEW k \in Nat, NEW f, NEW a,
         Sits(t, s, k, f, a), DueHas(s, f), s[1] = "funarglistp", NEW n,
         t[k + 1] = "COMMA",
         Makes(s, n, "COMMA", {"funarglistp:min", "funarg", "funarglistp"}),
         NEW g, FunDue(s) => g.name = f.name /\ Grown(f, g, a)
  PROVE  Sits(t, n, k, g, a)
<1>1. Shaped(n) /\ n # << >> /\ n[1] = "COMMA"
      /\ \A x : Below(n, x) <=>
           x \in {"funarglistp:min", "funarg", "funarglistp"} \/ Below(s, x)
  BY DEF Makes, Called
<1>2. \A x \in {"funsig:fun", "funarglistp:min", "fundefarglistp", "fundefarglistp:add",
                "statvardeclp"} : ~Below(s, x)
  BY NoneBehind
<1>3. Seats(n)
  BY <1>1, <1>2 DEF Seats, On
<1>4. InSignature(n)
  BY <1>1 DEF InSignature
<1>5. ASSUME FunDue(n)
      PROVE  ArgsSoFar(t, n, k, g, a)
  <2>1. FunDue(s)
    BY <1>5, CallDue DEF MakesFun
  <2>2. /\ Mode(s) = "named" /\ Lag(s) = 0 /\ Def(s) = 0
        /\ Mode(n) = "comma" /\ Lag(n) = 1 /\ Def(n) = 0
    BY <1>1, <1>2 DEF Mode, Lag, Def, On
  <2>3. SoFar(t, "named", k, f, 0, 0) /\ f.name \in Nat /\ ArgsTyped(f) /\ a = k
    BY <2>1, <2>2 DEF Sits, ArgsSoFar, DueHas
  <2>4. SoFar(t, "comma", k, g, 1, 0)
    BY <2>1, <2>3, NamedFollows
  <2>. QED
    BY <1>1, <2>2, <2>4 DEF ArgsSoFar
<1>. QED
  BY <1>3, <1>4, <1>5 DEF Sits, Seated

\* The first argument with a default
LEMMA DefaultsBegin ==
  ASSUME NEW t, NEW s, Shaped(s), s # << >>, NEW k \in Nat, NEW f, NEW a,
         Sits(t, s, k, f, a), DueHas(s, f), s[1] = "funarglistp", NEW n,
         t[k + 1] = "ASSIGN", Makes(s, n, "assign", {"fundefarglistp"}),
         NEW g, FunDue(s) => g.name = f.name /\ Grown(f, g, a)
  PROVE  Sits(t, n, k, g, a)
<1>1. Shaped(n) /\ n # << >> /\ n[1] = "assign"
      /\ \A x : Below(n, x) <=> x = "fundefarglistp" \/ Below(s, x)
  BY DEF Makes, Called
<1>2. \A x \in {"funsig:fun", "funarg", "funarg:arg", "funarglistp:min", "fundefarglistp",
                "fundefarglistp:add", "statvardeclp"} : ~Below(s, x)
  BY NoneBehind
<1>3. Seats(n)
  BY <1>1, <1>2 DEF Seats, On
<1>4. InSignature(n)
  BY <1>1 DEF InSignature, On
<1>5. ASSUME FunDue(n)
      PROVE  ArgsSoFar(t, n, k, g, a)
  <2>1. FunDue(s)
    BY <1>5, CallDue DEF MakesFun
  <2>2. /\ Mode(s) = "named" /\ Lag(s) = 0 /\ Def(s) = 0
        /\ Mode(n) = "default" /\ Lag(n) = 0 /\ Def(n) = 1
    BY <1>1, <1>2 DEF Mode, Rest, Lag, Def, On
  <2>3. SoFar(t, "named", k, f, 0, 0) /\ f.name \in Nat /\ ArgsTyped(f) /\ a = k
    BY <2>1, <2>2 DEF Sits, ArgsSoFar, DueHas
  <2>4. SoFar(t, "default", k, g, 0, 1)
    BY <2>1, <2>3, NamedFollows
  <2>. QED
    BY <1>1, <2>2, <2>4 DEF ArgsSoFar
<1>. QED
  BY <1>3, <1>4, <1>5 DEF Sits, Seated

\* Another argument with a default
LEMMA DefaultsGoOn ==
  ASSUME NEW t, NEW s, Shaped(s), s # << >>, NEW k \in Nat, NEW f, NEW a,
         Sits(t, s, k, f, a), s[1] = "fundefarglistp", NEW n,
         Makes(s, n, "COMMA", {"funarg", "assign", "fundefarglistp:add", "fundefarglistp"})
  PROVE  Sits(t, n, k, f, a)
<1>1. Shaped(n) /\ n # << >> /\ n[1] = "COMMA"
      /\ \A x : Below(n, x) <=>
           x \in {"funarg", "assign", "fundefarglistp:add", "fundefarglistp"} \/ Below(s, x)
  BY DEF Makes, Called
<1>2. \A x \in {"funsig:fun", "funarglistp:min", "fundefarglistp", "fundefarglistp:add",
                "statvardeclp"} : ~Below(s, x)
  BY NoneBehind
<1>3. Seats(n)
  BY <1>1, <1>2 DEF Seats, On
<1>4. InSignature(n)
  BY <1>1 DEF InSignature
<1>5. ASSUME FunDue(n)
      PROVE  ArgsSoFar(t, n, k, f, a)
  <2>1. FunDue(s)
    BY <1>5, CallDue DEF MakesFun
  <2>2. /\ Mode(s) = "default" /\ Lag(s) = 0 /\ Def(s) = 1
        /\ Mode(n) = "comma" /\ Lag(n) = 0 /\ Def(n) = 1
    BY <1>1, <1>2 DEF Mode, Rest, Lag, Def, On
  <2>3. SoFar(t, "default", k, f, 0, 1)
    BY <2>1, <2>2 DEF Sits, ArgsSoFar
  <2>4. \A q \in Nat : Awaits(t, "default", k, q) => Awaits(t, "comma", k, q)
    BY DEF Awaits
  <2>5. SoFar(t, "comma", k, f, 0, 1)
    BY <2>3, <2>4, ReadingTurns DEF Reading
  <2>. QED
    BY <1>1, <2>2, <2>5 DEF ArgsSoFar
<1>. QED
  BY <1>3, <1>4, <1>5 DEF Sits, Seated

\* No argument follows.
LEMMA ListEnds ==
  ASSUME NEW t, NEW s, Shaped(s), s # << >>, NEW k \in Nat, NEW f, NEW a,
         Sits(t, s, k, f, a), DueHas(s, f), NEW n, Returns(s, n), t[k + 1] = "RPT",
         NEW g,
         \/ s[1] \in {"funarglist", "fundefarglistp"} /\ g = f
         \/ /\ s[1] = "funarglistp"
            /\ FunDue(s) =>
                 \E h : /\ h.name = f.name /\ Grown(f, h, a)
                        /\ g.name = h.name /\ g.args = h.args /\ g.dropped = h.dropped
                        /\ g.min_args_count = (h.min_args_count + 1) % (2^ArgBits)
  PROVE  Sits(t, n, k, g, a)
<1>1. (\A x : On(n, x) <=> Below(s, x)) /\ n[1] \in NextTo(s[1]) /\ Shaped(n) /\ n # << >>
  BY ReturnOn
<1>2. n[1] = "RPT"
  BY <1>1 DEF NextTo
<1>3. Seats(n)
  BY ReturnSeats DEF Sits, Seated
<1>4. /\ ~Below(n, "fundefarglistp") /\ ~Below(s, "fundefarglistp")
      /\ ~Below(s, "fundefarglistp:add") /\ ~Below(s, "funarglistp:min")
  BY <1>1, NoneBehind DEF On
<1>5. ASSUME FunDue(n)
      PROVE  InSignature(n) /\ ArgsSoFar(t, n, k, g, a)
  <2>1. FunDue(s)
    BY <1>5, ReturnDue DEF MakesFun
  <2>2. ~Below(n, "statlistp") /\ ~Below(n, "invokearglistp")
    BY <1>1, <2>1, SignatureEnds DEF On
  <2>3. Mode(n) = "close"
    BY <1>2, <1>4, <2>2 DEF Mode
  <2>4. InSignature(n)
    BY <1>2, <2>2 DEF InSignature
  <2>5. SoFar(t, Mode(s), k, f, Lag(s), Def(s)) /\ f.name \in Nat /\ ArgsTyped(f)
        /\ (s[1] = "funarglistp" => a = k)
    BY <2>1 DEF Sits, ArgsSoFar, DueHas
  <2>6. CASE s[1] = "funarglist" /\ g = f
    <3>1. Mode(s) = "list"
      BY <2>6 DEF Mode
    <3>2. SoFar(t, "close", k, g, Lag(n), Def(n))
      BY <2>5, <2>6, <3>1, NoneListed
    <3>. QED
      BY <1>2, <2>3, <2>4, <3>2 DEF ArgsSoFar
  <2>7. CASE s[1] = "fundefarglistp" /\ g = f
    <3>1. Mode(s) = "default" /\ Lag(s) = 0 /\ Def(s) = 1
      BY <1>4, <2>7 DEF Mode, Rest, Lag, Def, On
    <3>2. SoFar(t, "close", k, g, Lag(n), Def(n))
      BY <2>5, <2>7, <3>1, DefaultCloses
    <3>. QED
      BY <1>2, <2>3, <2>4, <3>2 DEF ArgsSoFar
  <2>8. CASE s[1] = "funarglistp"
    <3>1. PICK h : /\ h.name = f.name /\ Grown(f, h, k)
                   /\ g.name = h.name /\ g.args = h.args /\ g.dropped = h.dropped
                   /\ g.min_args_count = (h.min_args_count + 1) % (2^ArgBits)
      BY <2>1, <2>5, <2>8
    <3>2. Mode(s) = "named" /\ Lag(s) = 0 /\ Def(s) = 0
      BY <1>4, <2>8 DEF Mode, Lag, Def, On
    <3>3. g.name = f.name /\ SoFar(t, "named", k, f, 0, 0)
      BY <2>5, <3>1, <3>2
    <3>4. SoFar(t, "close", k, g, Lag(n), Def(n))
      BY <2>5, <3>1, <3>3, NamedCloses
    <3>. QED
      BY <1>2, <2>3, <2>4, <3>4 DEF ArgsSoFar
  <2>. QED
    BY <2>6, <2>7, <2>8
<1>. QED
  BY <1>3, <1>5 DEF Sits, Seated

\* The value of a default
LEMMA DefaultBegins ==
  ASSUME NEW t, NEW s, Shaped(s), s # << >>, Tidy(s), NEW k \in Nat, NEW f, NEW a,
         Sits(t, s, k, f, a), DueHas(s, f), s[1] = "assign", NEW n, Makes(s, n, "ASSIGN", {"expr"}),
         k + 1 \in 1..Len(t), t[k + 1] = "ASSIGN"
  PROVE  Sits(t, n, k, f, a)
<1>1. CASE ~Below(s, "fundefarglistp:add")
  <2>1. Seated(s) /\ Dull(s[1], "ASSIGN", {"expr"})
    BY DullCalls DEF Sits
  <2>2. Steady(s, n)
    BY <1>1, <2>1, DullCallIs DEF Steady
  <2>. QED
    BY <2>2, SteadySits
<1>2. CASE Below(s, "fundefarglistp:add")
  <2>1. Seated(s) /\ Dull(s[1], "ASSIGN", {"expr"})
    BY DullCalls DEF Sits
  <2>2. /\ Seated(n)
        /\ FunDue(n) => /\ FunDue(s) /\ n[1] # "funarglistp"
                        /\ Mode(n) = Rest(s) /\ Lag(n) = Lag(s) /\ Def(n) = Def(s)
    BY <2>1, DullCallIs
  <2>3. ASSUME FunDue(n)
        PROVE  ArgsSoFar(t, n, k, f, a)
    <3>1. Mode(s) = "named" /\ Rest(s) = "value"
      BY <1>2 DEF Mode, Rest, On
    <3>2. SoFar(t, "named", k, f, Lag(s), Def(s)) /\ f.name \in Nat
      BY <2>2, <2>3, <3>1 DEF Sits, ArgsSoFar, DueHas
    <3>3. k # 0
      <4>1. Within(t, f.name, k)
        BY <3>2, ReadingIs DEF Reading
      <4>. QED
        BY <3>2, <4>1 DEF Within
    <3>4. \A q \in Nat : Awaits(t, "named", k, q) => Awaits(t, "value", k, q)
      BY <3>3 DEF Awaits, Is
    <3>5. SoFar(t, "value", k, f, Lag(s), Def(s))
      BY <3>2, <3>4, ReadingTurns DEF Reading
    <3>. QED
      BY <2>2, <2>3, <3>1, <3>5 DEF ArgsSoFar
  <2>. QED
    BY <2>2, <2>3 DEF Sits
<1>. QED
  BY <1>1, <1>2

\* An argument with a default goes into the list.
LEMMA DefaultEnds ==
  ASSUME NEW t \in Seq(Tag), NEW s, Shaped(s), s # << >>, NEW k \in Nat, k + 1 = Len(t),
         NEW f, NEW a, Sits(t, s, k, f, a), DueHas(s, f), s[1] = "fundefarglistp:add",
         NEW n, Returns(s, n), NEW g, FunDue(s) => g.name = f.name /\ Grown(f, g, 0)
  PROVE  Sits(t, n, k, g, a)
<1>1. (\A x : On(n, x) <=> Below(s, x)) /\ n[1] \in NextTo(s[1]) /\ Shaped(n) /\ n # << >>
  BY ReturnOn
<1>2. n[1] = "fundefarglistp" /\ Below(s, "fundefarglistp")
  <2>1. n[1] = "fundefarglistp"
    BY <1>1 DEF NextTo
  <2>. QED
    BY <1>1, <2>1 DEF On
<1>3. Seats(n)
  BY ReturnSeats DEF Sits, Seated
<1>4. InSignature(n)
  BY <1>2 DEF InSignature, On
<1>5. ASSUME FunDue(n)
      PROVE  ArgsSoFar(t, n, k, g, a)
  <2>1. FunDue(s)
    BY <1>5, ReturnDue DEF MakesFun
  <2>2. ~Below(s, "funarglistp:min") /\ ~Below(s, "fundefarglistp:add")
    BY NotUnder, Levels, ItemsAre
  <2>3. Mode(s) = "value" /\ Lag(s) = 0 /\ Def(s) = 1
    BY <1>2, <2>2 DEF Mode, Rest, Lag, Def, On
  <2>4. Mode(n) = "default" /\ Lag(n) = 0 /\ Def(n) = 1
    BY <1>1, <1>2, <2>2 DEF Mode, Rest, Lag, Def
  <2>5. SoFar(t, "value", k, f, 0, 1) /\ f.name \in Nat /\ ArgsTyped(f)
    BY <2>1, <2>3 DEF Sits, ArgsSoFar, DueHas
  <2>6. SoFar(t, "default", k, g, 0, 1)
    BY <2>1, <2>5, ValueListed
  <2>. QED
    BY <1>2, <2>4, <2>6 DEF ArgsSoFar
<1>. QED
  BY <1>3, <1>4, <1>5 DEF Sits, Seated

\* A definition is made.
LEMMA SignatureBegins ==
  ASSUME NEW t, NEW s, Shaped(s), s # << >>, NEW k \in Nat, Nest(t, k) + Nest(s, Len(s)) = 0,
         NEW f, NEW a, Sits(t, s, k, f, a), s[1] = "funsig:fun", NEW n, Returns(s, n),
         NEW g, g.name = k, Fresh(g)
  PROVE  Sits(t, n, k, g, a)
<1>1. (\A x : On(n, x) <=> Below(s, x)) /\ n[1] \in NextTo(s[1]) /\ Shaped(n) /\ n # << >>
  BY ReturnOn
<1>2. n[1] = "LPT"
  BY <1>1 DEF NextTo
<1>3. Below(s, "funarglist") /\ Below(n, "funarglist")
  <2>1. Below(s, "funarglist")
    BY DEF Sits, Seated, Seats, On
  <2>. QED
    BY <1>1, <1>2, <2>1 DEF On
<1>4. Seats(n)
  BY ReturnSeats DEF Sits, Seated
<1>5. InSignature(n)
  BY <1>2, <1>3 DEF InSignature
<1>6. ASSUME FunDue(n)
      PROVE  ArgsSoFar(t, n, k, g, a)
  <2>1. Below(s, "filep:add_fundef")
    BY <1>1, <1>6 DEF FunDue
  <2>2. Nest(s, Len(s)) = 0
    BY <1>3, <2>1, NestBefore
  <2>3. Nest(t, k) = 0
    BY <2>2, NestStep
  <2>4. SoFar(t, "open", k, g, Lag(n), Def(n))
    BY <2>3, SoFarStarts
  <2>5. Mode(n) = "open"
    BY <1>2, <1>3 DEF Mode
  <2>. QED
    BY <1>2, <2>4, <2>5 DEF ArgsSoFar
<1>. QED
  BY <1>4, <1>5, <1>6 DEF Sits, Seated

\* A definition is complete.
LEMMA SignatureListed ==
  ASSUME NEW t, NEW s, Shaped(s), s # << >>, NEW k, NEW f, NEW a, Sits(t, s, k, f, a),
         s[1] = "filep:add_fundef"
  PROVE  /\ ArgsRead(t, f)
         /\ \A n, g, b : Returns(s, n) => Sits(t, n, k, g, b)
<1>2. /\ ~Below(s, "filep:add_fundef") /\ \A x \in MakesFun : ~On(s, x)
      /\ ~Below(s, "fundefarglistp") /\ ~Below(s, "fundefarglistp:add")
  BY NotUnder, Levels, ItemsAre DEF MakesFun, On
<1>3. Mode(s) = "done"
  BY <1>2 DEF Mode, Rest, On
<1>4. FunDue(s)
  BY <1>2 DEF FunDue, On
<1>5. ArgsRead(t, f)
  BY <1>3, <1>4 DEF Sits, ArgsSoFar, SoFar
<1>6. ASSUME NEW n, Returns(s, n)
      PROVE  Seats(n) /\ ~FunDue(n)
  <2>1. (\A x : On(n, x) <=> Below(s, x)) /\ n[1] \in NextTo(s[1]) /\ Shaped(n) /\ n # << >>
    BY <1>6, ReturnOn
  <2>2. ~FunDue(n)
    BY <1>2, <2>1 DEF FunDue
  <2>3. Seats(n)
    BY <1>6, ReturnSeats DEF Sits, Seated
  <2>. QED
    BY <2>2, <2>3
<1>. QED
  BY <1>5, <1>6 DEF Sits, Seated

-----------------------------------------------------------------------------
(* The next token of a signature *)

\* s has a tag that is token k + 1 of t, and n is what is left.
Reader(t, s, n, k) ==
  /\ Shaped(s) /\ s # << >> /\ s[1] \in Tag /\ Returns(s, n)
  /\ k \in Nat /\ t[k + 1] = s[1]
  /\ Nest(t, k) + Nest(s, Len(s)) = 0
  /\ Nest(t, k + 1) + Nest(n, Len(n)) = 0

LEMMA ReaderIs ==
  ASSUME NEW t, NEW s, NEW n, NEW k, Reader(t, s, n, k)
  PROVE  /\ Shaped(s) /\ s # << >> /\ s[1] \in Tag /\ Returns(s, n)
         /\ \A x : On(n, x) <=> Below(s, x)
         /\ n[1] \in NextTo(s[1]) /\ Shaped(n) /\ n # << >>
         /\ k \in Nat /\ t[k + 1] = s[1]
         /\ \A x : x \notin Tag => (On(n, x) <=> On(s, x))
         /\ Rest(n) = Rest(s) /\ Lag(n) = Lag(s) /\ Def(n) = Def(s)
         /\ FunDue(n) => FunDue(s)
<1>1. Shaped(s) /\ s # << >> /\ s[1] \in Tag /\ Returns(s, n) /\ k \in Nat /\ t[k + 1] = s[1]
  BY DEF Reader
<1>2. (\A x : On(n, x) <=> Below(s, x)) /\ n[1] \in NextTo(s[1]) /\ Shaped(n) /\ n # << >>
  BY <1>1, ReturnOn
<1>3. \A x : x \notin Tag => (On(n, x) <=> On(s, x))
  BY <1>1, <1>2 DEF On
<1>4. Rest(n) = Rest(s) /\ Lag(n) = Lag(s) /\ Def(n) = Def(s)
  BY <1>3, ItemsAre DEF Rest, Lag, Def
<1>5. s[1] \notin MakesFun
  BY <1>1, ItemsAre DEF MakesFun
<1>. QED
  BY <1>1, <1>2, <1>3, <1>4, <1>5, ReturnDue

\* In the value of a default, and behind a signature
LEMMA RestReads ==
  ASSUME NEW t, NEW s, NEW n, NEW k, Reader(t, s, n, k), FunDue(n), Seats(s),
         s[1] = "COMMA" => Below(s, "invokearglistp"),
         NEW f, f.name \in Nat, SoFar(t, Rest(s), k, f, Lag(s), Def(s))
  PROVE  SoFar(t, Rest(s), k + 1, f, Lag(s), Def(s))
<1>1. /\ Shaped(s) /\ s # << >> /\ s[1] \in Tag
      /\ n[1] \in NextTo(s[1]) /\ Shaped(n) /\ n # << >>
      /\ k \in Nat /\ t[k + 1] = s[1] /\ FunDue(s)
      /\ \A x : x \notin Tag => (On(n, x) <=> On(s, x))
  BY ReaderIs
<1>2. CASE ~On(s, "fundefarglistp") /\ ~On(s, "fundefarglistp:add")
  <2>1. Rest(s) = "done"
    BY <1>2 DEF Rest
  <2>. QED
    BY <2>1 DEF SoFar, Reading
<1>3. CASE On(s, "fundefarglistp") \/ On(s, "fundefarglistp:add")
  <2>1. On(s, "fundefarglistp")
    BY <1>3 DEF Seats
  <2>2. Rest(s) \in {"value", "default"}
    BY <2>1 DEF Rest
  <2>3. n[1] # "LPT"
    <3>1. s[1] # "funsig:fun"
      BY <1>1, ItemsAre
    <3>. QED
      BY <1>1, <3>1, ComesAfter
  <2>4. Nest(n, Len(n)) <= -1
    BY <1>1, <2>1, <2>3, NestDefault, ItemsAre
  <2>5. Nest(t, k) \in Int /\ Nest(t, k + 1) \in Int
        /\ (s[1] = "COMMA" => Nest(t, k + 1) = Nest(t, k))
    <3>1. Nest(t, k) \in Int /\ (s[1] = "COMMA" => Nest(t, k + 1) = Nest(t, k))
      BY <1>1, NestStep
    <3>2. Nest(t, k + 1) \in Int
      <4>1. k + 1 \in Nat
        BY <1>1
      <4>. QED
        BY <4>1, NestStep
    <3>. QED
      BY <3>1, <3>2
  <2>6. Nest(s, Len(s)) \in Int /\ Nest(n, Len(n)) \in Int
    <3>1. Len(s) \in Nat /\ Len(n) \in Nat
      BY <1>1 DEF Shaped
    <3>. QED
      BY <3>1, NestStep
  <2>7. Nest(t, k + 1) > 0
    BY <2>4, <2>5, <2>6 DEF Reader
  <2>8. s[1] = "COMMA" => Nest(t, k + 1) # 1
    <3>1. SUFFICES ASSUME s[1] = "COMMA" PROVE Nest(t, k + 1) # 1
      OBVIOUS
    <3>2. Nest(s, Len(s)) <= -2
      BY <1>1, <2>1, <3>1, NestDefault
    <3>3. Nest(t, k) + Nest(s, Len(s)) = 0
      BY DEF Reader
    <3>. QED
      BY <2>5, <2>6, <3>1, <3>2, <3>3
  <2>9. \A q \in Nat : Awaits(t, Rest(s), k, q) => Awaits(t, Rest(s), k + 1, q)
    BY <2>2 DEF Awaits
  <2>. QED
    BY <1>1, <2>2, <2>7, <2>8, <2>9, ReadingOn DEF Reading
<1>. QED
  BY <1>2, <1>3

LEMMA PlainReads ==
  ASSUME NEW t, NEW s, NEW n, NEW k, Reader(t, s, n, k), NEW f, NEW a,
         Sits(t, s, k, f, a), DueHas(s, f),
         FunDue(n) => /\ Plain(s) /\ Plain(n) /\ InSignature(n)
                      /\ s[1] = "COMMA" => Below(s, "invokearglistp")
  PROVE  Sits(t, n, k + 1, f, a)
<1>1. Shaped(s) /\ s # << >> /\ Returns(s, n)
      /\ Rest(n) = Rest(s) /\ Lag(n) = Lag(s) /\ Def(n) = Def(s)
      /\ (FunDue(n) => FunDue(s))
  BY ReaderIs
<1>2. Seats(s) /\ Seats(n)
  BY <1>1, ReturnSeats DEF Sits, Seated
<1>3. ASSUME FunDue(n)
      PROVE  ArgsSoFar(t, n, k + 1, f, a)
  <2>1. Mode(s) = Rest(s) /\ Mode(n) = Rest(s)
    BY <1>1, <1>3, PlainMode
  <2>2. SoFar(t, Rest(s), k, f, Lag(s), Def(s)) /\ f.name \in Nat
    BY <1>1, <1>3, <2>1 DEF Sits, ArgsSoFar, DueHas
  <2>3. SoFar(t, Rest(s), k + 1, f, Lag(s), Def(s))
    BY <1>2, <1>3, <2>2, RestReads
  <2>4. n[1] # "funarglistp"
    BY <1>3 DEF Plain
  <2>. QED
    BY <1>1, <2>1, <2>3, <2>4 DEF ArgsSoFar
<1>. QED
  BY <1>2, <1>3 DEF Sits, Seated

\* A step within a signature
LEMMA SignatureReads ==
  ASSUME NEW t, NEW s, NEW n, NEW k, Reader(t, s, n, k), NEW f, NEW a,
         Sits(t, s, k, f, a), DueHas(s, f), InSignature(n), n[1] # "funarglistp",
         FunDue(n) /\ FunDue(s) /\ f.name \in Nat /\ SoFar(t, Mode(s), k, f, Lag(s), Def(s)) =>
           SoFar(t, Mode(n), k + 1, f, Lag(s), Def(s))
  PROVE  Sits(t, n, k + 1, f, a)
<1>1. Shaped(s) /\ s # << >> /\ Returns(s, n)
      /\ Rest(n) = Rest(s) /\ Lag(n) = Lag(s) /\ Def(n) = Def(s)
      /\ (FunDue(n) => FunDue(s))
  BY ReaderIs
<1>2. Seats(n)
  BY <1>1, ReturnSeats DEF Sits, Seated
<1>3. ASSUME FunDue(n)
      PROVE  ArgsSoFar(t, n, k + 1, f, a)
  BY <1>1, <1>3 DEF Sits, ArgsSoFar, DueHas
<1>. QED
  BY <1>2, <1>3 DEF Sits, Seated

\* Parentheses are open in a signature.
LEMMA OpenHere ==
  ASSUME NEW t, NEW m \in Reading, NEW k \in Nat, NEW f, f.name \in Nat, NEW lag, NEW def,
         SoFar(t, m, k, f, lag, def), t[k + 1] \notin {"LPT", "RPT"}
  PROVE  Nest(t, k + 1) > 0
<1>1. Within(t, f.name, k)
  BY ReadingIs
<1>2. k \in f.name + 1..k
  BY <1>1 DEF Within
<1>3. Nest(t, k) > 0
  BY <1>1, <1>2 DEF Within
<1>. QED
  BY <1>3, NestStep

LEMMA LptReads ==
  ASSUME NEW t, NEW s, NEW n, NEW k, Reader(t, s, n, k), NEW f, NEW a,
         Sits(t, s, k, f, a), DueHas(s, f), s[1] = "LPT"
  PROVE  Sits(t, n, k + 1, f, a)
<1>1. /\ Shaped(s) /\ s # << >> /\ s[1] \in Tag
      /\ \A x : On(n, x) <=> Below(s, x)
      /\ n[1] \in NextTo(s[1]) /\ Shaped(n) /\ n # << >>
      /\ k \in Nat /\ t[k + 1] = s[1]
      /\ \A x : x \notin Tag => (On(n, x) <=> On(s, x))
      /\ (FunDue(n) => FunDue(s))
  BY ReaderIs
<1>2. n[1] \in {"invokearglist", "funarglist"}
  BY <1>1 DEF NextTo
<1>3. CASE FunDue(n) /\ Below(s, "funarglist")
  <2>1. n[1] = "funarglist"
    <3>1. n[1] # "LPT"
      BY <1>2
    <3>. QED
      BY <1>1, <1>3, <3>1, ListIsNext DEF On
  <2>2. InSignature(n)
    BY <2>1 DEF InSignature
  <2>3. Mode(s) = "open" /\ Mode(n) = "list"
    BY <1>3, <2>1 DEF Mode
  <2>4. ASSUME f.name \in Nat, SoFar(t, Mode(s), k, f, Lag(s), Def(s))
        PROVE  SoFar(t, Mode(n), k + 1, f, Lag(s), Def(s))
    <3>1. Nest(t, k) = 0 /\ SoFar(t, "open", k, f, Lag(s), Def(s))
      BY <2>3, <2>4 DEF SoFar
    <3>2. Nest(t, k + 1) > 0
      BY <1>1, <3>1, NestStep
    <3>. QED
      BY <1>1, <2>3, <2>4, <3>1, <3>2, OpenReads
  <2>. QED
    BY <2>1, <2>2, <2>4, SignatureReads
<1>4. CASE ~(FunDue(n) /\ Below(s, "funarglist"))
  <2>1. ASSUME FunDue(n)
        PROVE  Plain(s) /\ Plain(n) /\ InSignature(n)
    <3>1. ~Below(s, "funarglist")
      BY <1>4, <2>1
    <3>2. InSignature(s)
      BY <1>1, <2>1 DEF Sits, Seated
    <3>3. On(s, "fundefarglistp") \/ On(s, "statlistp")
      BY <3>1, <3>2 DEF InSignature
    <3>4. On(n, "fundefarglistp") \/ On(n, "statlistp")
      BY <1>1, <3>3, ItemsAre
    <3>5. n[1] = "invokearglist"
      BY <1>1, <1>2, <3>1 DEF On
    <3>. QED
      BY <3>1, <3>4, <3>5 DEF Plain, InSignature
  <2>. QED
    BY <2>1, PlainReads
<1>. QED
  BY <1>3, <1>4

LEMMA CommaSits ==
  ASSUME NEW t, NEW s, NEW n, NEW k, Reader(t, s, n, k), NEW f, NEW a,
         Sits(t, s, k, f, a), DueHas(s, f), s[1] = "COMMA"
  PROVE  Sits(t, n, k + 1, f, a)
<1>1. /\ Shaped(s) /\ s # << >> /\ s[1] \in Tag
      /\ \A x : On(n, x) <=> Below(s, x)
      /\ n[1] \in NextTo(s[1]) /\ Shaped(n) /\ n # << >>
      /\ k \in Nat /\ t[k + 1] = s[1]
      /\ \A x : x \notin Tag => (On(n, x) <=> On(s, x))
      /\ (FunDue(n) => FunDue(s))
  BY ReaderIs
<1>2. n[1] \in {"expr", "funarglistp:min", "funarg"}
  BY <1>1 DEF NextTo
<1>3. Seats(s)
  BY DEF Sits, Seated
<1>4. CASE Below(s, "funarg")
  <2>1. n[1] \in {"funarglistp:min", "funarg"}
    <3>1. n[1] # "expr"
      BY <1>1, <1>4, NotUnder, Levels, ItemsAre DEF On
    <3>. QED
      BY <1>2, <3>1
  <2>2. InSignature(n)
    BY <2>1 DEF InSignature
  <2>3. Mode(s) = "comma" /\ Mode(n) = "ahead"
    BY <1>4, <2>1 DEF Mode
  <2>4. ASSUME FunDue(s), f.name \in Nat, SoFar(t, Mode(s), k, f, Lag(s), Def(s))
        PROVE  SoFar(t, Mode(n), k + 1, f, Lag(s), Def(s))
    <3>1. Nest(s, Len(s)) = -1
      BY <1>1, <1>3, <1>4, <2>4, NestComma
    <3>2. Nest(t, k) + Nest(s, Len(s)) = 0
      BY DEF Reader
    <3>3. Nest(t, k) \in Int /\ Nest(t, k + 1) = Nest(t, k)
      BY <1>1, NestStep
    <3>4. Nest(t, k + 1) = 1
      BY <3>1, <3>2, <3>3
    <3>. QED
      BY <1>1, <2>3, <2>4, <3>4, CommaReads
  <2>. QED
    BY <2>1, <2>2, <2>4, SignatureReads
<1>5. CASE ~Below(s, "funarg")
  <2>1. Below(s, "invokearglistp")
    BY <1>3, <1>5 DEF Seats
  <2>2. n[1] # "funarg"
    BY <1>1, <1>5 DEF On
  <2>3. n[1] # "funarglistp:min"
    <3>1. SUFFICES ASSUME n[1] = "funarglistp:min" PROVE FALSE
      OBVIOUS
    <3>2. Below(n, "invokearglistp")
      BY <1>1, <2>1, <3>1 DEF On
    <3>3. NextTo("funarglistp:min") = {"funarg"}
      BY DEF NextTo
    <3>4. Below(n, "funarg")
      BY <1>1, <3>1, <3>2, <3>3, SecondIs
    <3>. QED
      BY <1>1, <1>5, <3>4 DEF On
  <2>4. n[1] = "expr"
    BY <1>2, <2>2, <2>3
  <2>5. ASSUME FunDue(n)
        PROVE  InSignature(n)
    <3>1. InSignature(s)
      BY <1>1, <2>5 DEF Sits, Seated
    <3>2. On(s, "fundefarglistp") \/ On(s, "statlistp")
      BY <1>5, <3>1 DEF InSignature
    <3>. QED
      BY <1>1, <3>2, ItemsAre DEF InSignature
  <2>6. Plain(s) /\ Plain(n)
    BY <1>5, <2>4 DEF Plain
  <2>. QED
    BY <2>1, <2>5, <2>6, PlainReads
<1>. QED
  BY <1>4, <1>5

LEMMA ConstSits ==
  ASSUME NEW t, NEW s, NEW n, NEW k, Reader(t, s, n, k), NEW f, NEW a,
         Sits(t, s, k, f, a), DueHas(s, f), s[1] = "CONST"
  PROVE  Sits(t, n, k + 1, f, a)
<1>1. /\ Shaped(s) /\ s # << >> /\ s[1] \in Tag
      /\ \A x : On(n, x) <=> Below(s, x)
      /\ n[1] \in NextTo(s[1]) /\ Shaped(n) /\ n # << >>
      /\ k \in Nat /\ t[k + 1] = s[1]
      /\ \A x : x \notin Tag => (On(n, x) <=> On(s, x))
      /\ (FunDue(n) => FunDue(s))
  BY ReaderIs
<1>2. n[1] = "ID"
  BY <1>1 DEF NextTo
<1>3. Below(n, "funarg:arg") <=> Below(s, "funarg:arg")
  BY <1>1, <1>2 DEF On
<1>4. CASE Below(s, "funarg:arg")
  <2>1. InSignature(n)
    BY <1>2, <1>3, <1>4 DEF InSignature
  <2>2. Mode(s) = "const" /\ Mode(n) = "name"
    BY <1>2, <1>3, <1>4 DEF Mode
  <2>3. ASSUME f.name \in Nat, SoFar(t, Mode(s), k, f, Lag(s), Def(s))
        PROVE  SoFar(t, Mode(n), k + 1, f, Lag(s), Def(s))
    <3>1. SoFar(t, "const", k, f, Lag(s), Def(s))
      BY <2>2, <2>3
    <3>2. Nest(t, k + 1) > 0
      BY <1>1, <2>3, <3>1, OpenHere DEF Reading
    <3>3. \A q \in Nat : Awaits(t, "const", k, q) => Awaits(t, "name", k + 1, q)
      BY <1>1 DEF Awaits
    <3>4. SoFar(t, "name", k + 1, f, Lag(s), Def(s))
      BY <1>1, <2>3, <3>1, <3>2, <3>3, ReadingOn DEF Reading
    <3>. QED
      BY <2>2, <3>4
  <2>. QED
    BY <1>2, <2>1, <2>3, SignatureReads
<1>5. CASE ~Below(s, "funarg:arg")
  <2>1. ASSUME FunDue(n)
        PROVE  InSignature(n)
    <3>1. InSignature(s)
      BY <1>1, <2>1 DEF Sits, Seated
    <3>2. On(s, "fundefarglistp") \/ On(s, "statlistp")
      BY <1>5, <3>1 DEF InSignature
    <3>. QED
      BY <1>1, <3>2, ItemsAre DEF InSignature
  <2>2. Plain(s) /\ Plain(n)
    BY <1>2, <1>3, <1>5 DEF Plain
  <2>. QED
    BY <2>1, <2>2, PlainReads
<1>. QED
  BY <1>4, <1>5

LEMMA NameSits ==
  ASSUME NEW t, NEW s, NEW n, NEW k, Reader(t, s, n, k), NEW f, NEW a,
         Sits(t, s, k, f, a), DueHas(s, f), s[1] = "ID"
  PROVE  Sits(t, n, k + 1, f, a)
<1>1. /\ Shaped(s) /\ s # << >> /\ s[1] \in Tag
      /\ \A x : On(n, x) <=> Below(s, x)
      /\ n[1] \in NextTo(s[1]) /\ Shaped(n) /\ n # << >>
      /\ k \in Nat /\ t[k + 1] = s[1]
      /\ \A x : x \notin Tag => (On(n, x) <=> On(s, x))
      /\ (FunDue(n) => FunDue(s))
  BY ReaderIs
<1>2. n[1] \in NameCode
  BY <1>1 DEF NextTo, NameCode
<1>4. CASE Below(s, "funarg:arg")
  <2>0. n[1] = "funarg:arg"
    <3>1. Below(s, n[1])
      BY <1>1 DEF On
    <3>. QED
      BY <1>1, <1>2, <1>4, <3>1, OneCode DEF NameCode
  <2>1. InSignature(n)
    BY <2>0 DEF InSignature
  <2>2. Mode(s) = "name" /\ Mode(n) = "named"
    BY <1>4, <2>0 DEF Mode
  <2>3. ASSUME f.name \in Nat, SoFar(t, Mode(s), k, f, Lag(s), Def(s))
        PROVE  SoFar(t, Mode(n), k + 1, f, Lag(s), Def(s))
    <3>1. SoFar(t, "name", k, f, Lag(s), Def(s))
      BY <2>2, <2>3
    <3>2. Nest(t, k + 1) > 0
      BY <1>1, <2>3, <3>1, OpenHere DEF Reading
    <3>3. \A q \in Nat : Awaits(t, "name", k, q) => Awaits(t, "named", k + 1, q)
      BY <1>1 DEF Awaits
    <3>4. SoFar(t, "named", k + 1, f, Lag(s), Def(s))
      BY <1>1, <2>3, <3>1, <3>2, <3>3, ReadingOn DEF Reading
    <3>. QED
      BY <2>2, <3>4
  <2>. QED
    BY <2>0, <2>1, <2>3, SignatureReads
<1>5. CASE ~Below(s, "funarg:arg")
  <2>0. n[1] # "funarg:arg"
    BY <1>1, <1>5 DEF On
  <2>1. ASSUME FunDue(n)
        PROVE  InSignature(n)
    <3>1. InSignature(s)
      BY <1>1, <2>1 DEF Sits, Seated
    <3>2. On(s, "fundefarglistp") \/ On(s, "statlistp")
      BY <1>5, <3>1 DEF InSignature
    <3>. QED
      BY <1>1, <3>2, ItemsAre DEF InSignature
  <2>2. Plain(s) /\ Plain(n)
    BY <1>2, <1>5, <2>0 DEF Plain, NameCode
  <2>. QED
    BY <2>1, <2>2, PlainReads
<1>. QED
  BY <1>4, <1>5

LEMMA RptReads ==
  ASSUME NEW t \in Seq(Tag), NEW s, NEW n, NEW k, k + 1 < Len(t), Reader(t, s, n, k), NEW f,
         NEW a, Sits(t, s, k, f, a), DueHas(s, f), s[1] = "RPT"
  PROVE  Sits(t, n, k + 1, f, a)
<1>1. /\ Shaped(s) /\ s # << >> /\ s[1] \in Tag
      /\ \A x : On(n, x) <=> Below(s, x)
      /\ n[1] \in NextTo(s[1]) /\ Shaped(n) /\ n # << >>
      /\ k \in Nat /\ t[k + 1] = s[1]
      /\ \A x : x \notin Tag => (On(n, x) <=> On(s, x))
      /\ Rest(n) = Rest(s) /\ (FunDue(n) => FunDue(s))
  BY ReaderIs
<1>2. n[1] \in AfterExpr \cup {"statlist", "nativefundef:fun"}
  BY <1>1 DEF NextTo
<1>3. Seats(s) /\ (FunDue(s) => InSignature(s))
  BY DEF Sits, Seated
<1>4. CASE FunDue(n) /\ ~Below(s, "fundefarglistp") /\ ~Below(s, "statlistp")
  <2>1. ~Below(s, "invokearglistp")
    BY <1>1, <1>3, <1>4 DEF InSignature, On
  <2>2. n[1] \in {"statlist", "nativefundef:fun"}
    BY <1>1, <1>3, <1>4, <2>1, BehindSignature DEF On
  <2>3. InSignature(n)
    BY <2>2 DEF InSignature
  <2>4. Mode(s) = "close"
    BY <1>4 DEF Mode
  <2>5. Mode(n) = "done"
    <3>1. Plain(n)
      BY <2>2 DEF Plain
    <3>2. Rest(s) = "done"
      BY <1>3, <1>4 DEF Rest, On, Seats
    <3>. QED
      BY <1>1, <3>1, <3>2, PlainMode
  <2>6. ASSUME f.name \in Nat, SoFar(t, Mode(s), k, f, Lag(s), Def(s))
        PROVE  SoFar(t, Mode(n), k + 1, f, Lag(s), Def(s))
    <3>1. Nest(n, Len(n)) = 0
      BY <1>1, <2>2, NestBehind, Levels, ItemsAre
    <3>2. Nest(t, k + 1) \in Int
      <4>1. k + 1 \in Nat
        BY <1>1
      <4>. QED
        BY <4>1, NestStep
    <3>3. Nest(t, k + 1) = 0
      BY <3>1, <3>2 DEF Reader
    <3>4. ArgsRead(t, f)
      BY <1>1, <2>4, <2>6, <3>3, CloseReads
    <3>. QED
      BY <2>5, <3>4 DEF SoFar, Reading
  <2>. QED
    BY <2>2, <2>3, <2>6, SignatureReads
<1>5. CASE ~(FunDue(n) /\ ~Below(s, "fundefarglistp") /\ ~Below(s, "statlistp"))
  <2>1. ASSUME FunDue(n)
        PROVE  Plain(s) /\ Plain(n) /\ InSignature(n)
    <3>1. Below(s, "fundefarglistp") \/ Below(s, "statlistp")
      BY <1>5, <2>1
    <3>2. Plain(s) /\ Plain(n)
      BY <1>2, <3>1 DEF Plain, AfterExpr
    <3>. QED
      BY <1>1, <3>1, <3>2 DEF InSignature
  <2>. QED
    BY <2>1, PlainReads
<1>. QED
  BY <1>4, <1>5

\* The other tags are read outside of the names of a signature.
LEMMA OtherSits ==
  ASSUME NEW t, NEW s, NEW n, NEW k, Reader(t, s, n, k), NEW f, NEW a,
         Sits(t, s, k, f, a), DueHas(s, f), Place(s),
         s[1] \notin {"LPT", "COMMA", "CONST", "ID", "RPT"}
  PROVE  Sits(t, n, k + 1, f, a)
<1>1. /\ Shaped(s) /\ s # << >> /\ s[1] \in Tag
      /\ \A x : On(n, x) <=> Below(s, x)
      /\ n[1] \in NextTo(s[1]) /\ Shaped(n) /\ n # << >>
      /\ \A x : x \notin Tag => (On(n, x) <=> On(s, x))
      /\ (FunDue(n) => FunDue(s))
  BY ReaderIs
<1>2. /\ n[1] \notin {"funarglist", "funarg", "funarglistp:min", "funarg:arg", "funarglistp",
                      "LPT", "COMMA", "CONST", "assign", "RPT"}
      /\ n[1] = "ID" => s[1] \in {"VAR", "DOT", "FUN"}
      /\ s[1] = "RPG" => n[1] \in {"filep:add_fundef", "privatefilep:fundef"}
  BY <1>1 DEF NextTo, AfterExpr, Tag
<1>3. ASSUME FunDue(n)
      PROVE  InSignature(n)
  <2>1. InSignature(s)
    BY <1>1, <1>3 DEF Sits, Seated
  <2>2. On(s, "fundefarglistp") \/ On(s, "statlistp") \/ s[1] = "RPG"
    BY <1>1, <2>1, ItemsAre DEF InSignature
  <2>. QED
    BY <1>1, <1>2, <2>2, ItemsAre DEF InSignature
<1>4. n[1] = "ID" => ~Below(n, "funarg:arg")
  <2>1. SUFFICES ASSUME n[1] = "ID", Below(s, "funarg:arg") PROVE FALSE
    BY <1>1 DEF On
  <2>2. \E x \in {"statvardecl:var", "qidp:id", "funsig:fun"} : Below(s, x)
    BY <1>2, <2>1 DEF Place
  <2>. QED
    BY <1>1, <2>1, <2>2, OneCode DEF NameCode
<1>5. Plain(s)
  BY <1>1, ItemsAre DEF Plain
<1>6. Plain(n)
  BY <1>2, <1>4 DEF Plain
<1>. QED
  BY <1>3, <1>5, <1>6, PlainReads

LEMMA SitsLater ==
  ASSUME NEW t \in Seq(Tag), NEW tag \in Tag, NEW k \in Nat, k < Len(t), NEW s, NEW f, NEW a,
         t[k + 1] = s[1], Sits(t, s, k, f, a), DueHas(s, f)
  PROVE  Sits(Append(t, tag), s, k, f, a)
<1>1. ASSUME FunDue(s)
      PROVE  ArgsSoFar(Append(t, tag), s, k, f, a)
  <2>1. SoFar(t, Mode(s), k, f, Lag(s), Def(s)) /\ f.name \in Nat
        /\ (s[1] = "funarglistp" => a = k)
    BY <1>1 DEF Sits, ArgsSoFar, DueHas
  <2>2. Mode(s) = "close" => t[k + 1] = "RPT"
    BY ModeCloses
  <2>3. SoFar(Append(t, tag), Mode(s), k, f, Lag(s), Def(s))
    BY <2>1, <2>2, SoFarLater
  <2>. QED
    BY <2>1, <2>3 DEF ArgsSoFar
<1>. QED
  BY <1>1 DEF Sits

\* A tag that is matched
LEMMA TagSits ==
  ASSUME NEW t \in Seq(Tag), NEW tag \in Tag, NEW k \in Nat, k + 1 = Len(t), NEW s, NEW n,
         NEW f, NEW a, Sits(t, s, k, f, a), DueHas(s, f), Place(s),
         Reader(Append(t, tag), s, n, k)
  PROVE  Sits(Append(t, tag), n, k + 1, f, a)
<1>. DEFINE u == Append(t, tag)
<1>1. u \in Seq(Tag) /\ Len(u) = k + 2 /\ u[k + 1] = t[k + 1] /\ k < Len(t)
  OBVIOUS
<1>2. u[k + 1] = s[1]
  BY ReaderIs
<1>3. Sits(u, s, k, f, a)
  BY <1>1, <1>2, SitsLater
<1>4. k + 1 < Len(u)
  BY <1>1
<1>. HIDE DEF u
<1>5. Reader(u, s, n, k)
  BY DEF u
<1>6. Sits(u, n, k + 1, f, a)
  BY <1>1, <1>3, <1>4, <1>5, LptReads, CommaSits, ConstSits, NameSits, RptReads, OtherSits
<1>. QED
  BY <1>6 DEF u

-----------------------------------------------------------------------------
(***************************************************************************)
(* The arguments of every definition that is listed are those of the text, *)
(* and so are those of the one that is being made, as far as it is read.   *)
(***************************************************************************)
ListReads(t, list) ==
  \A i \in 1..Len(list) : list[i].type = "PROGRAM_FUNDEF" => ArgsRead(t, list[i])

SitsHere == Sits(tokens, stack, prev, fun, arg)

ArgsInv ==
  mismatch = 0 =>
    /\ ListReads(tokens, stats)
    /\ outcome = "parsing" /\ stack # << >> => SitsHere

Basis == TypeInv /\ TreeInv /\ HasInv /\ NestInv /\ ArgsInv

Knows ==
  /\ Shaped(stack) /\ stack # << >> /\ Place(stack) /\ Tidy(stack)
  /\ SitsHere /\ DueHas(stack, fun) /\ ListReads(tokens, stats)
  /\ tokens \in Seq(Tag) /\ prev \in Nat /\ prev + 1 = Len(tokens) /\ curr = tokens[prev + 1]
  /\ Nest(tokens, prev) + Nest(stack, Len(stack)) = 0

LEMMA DefIs ==
  ASSUME NEW f \in FunDef
  PROVE  f.name \in Nat /\ ArgsTyped(f)
<1>1. f.min_args_count \in 0..MaxArgs
  BY DEF FunDef
<1>2. f.name \in Nat /\ f.args \in Seq(Nat) /\ f.dropped \in Nat
  BY DEF FunDef, Name
<1>3. f.min_args_count \in Nat
  BY <1>1, ModulusIs
<1>. QED
  BY <1>2, <1>3 DEF ArgsTyped

LEMMA KnowsAt ==
  ASSUME Basis, NEW p, At(p), p # "parse", mismatch = 0
  PROVE  Knows /\ stack[1] = p
<1>1. TypeInv /\ TreeInv /\ HasInv /\ NestInv /\ ArgsInv
  BY DEF Basis
<1>2. Shaped(stack) /\ stack # << >> /\ stack[1] = p /\ SeesHere
  BY <1>1, AtIs
<1>3. outcome = "parsing"
  BY DEF At
<1>4. Place(stack)
  BY <1>2 DEF SeesHere, Sees
<1>5. Tidy(stack)
  BY <1>1, <1>2, <1>3 DEF HasInv, Has
<1>6. SitsHere /\ ListReads(tokens, stats)
  BY <1>1, <1>2, <1>3 DEF ArgsInv
<1>7. DueHas(stack, fun)
  BY <1>1, <1>2, DueTyped, DefIs DEF DueHas
<1>8. tokens \in Seq(Tag) /\ prev \in Nat /\ prev + 1 = Len(tokens) /\ curr = tokens[prev + 1]
  BY <1>1, CurrIs
<1>9. Nest(tokens, prev) + Nest(stack, Len(stack)) = 0
  BY <1>1 DEF NestInv
<1>. QED
  BY <1>2, <1>4, <1>5, <1>6, <1>7, <1>8, <1>9 DEF Knows

\* A step of a function
LEMMA TurnSits ==
  ASSUME Basis, NEW p, At(p), p # "parse", tokens' = tokens, mismatch' = mismatch,
         mismatch = 0 /\ Knows /\ stack[1] = p =>
           /\ ListReads(tokens, stats')
           /\ stack' # << >> => Sits(tokens, stack', prev, fun', arg')
  PROVE  ArgsInv'
<1>1. prev' = prev
  BY DEF prev
<1>2. mismatch = 0 => Knows /\ stack[1] = p
  BY KnowsAt
<1>. QED
  BY <1>1, <1>2 DEF ArgsInv, SitsHere

LEMMA EndSits ==
  ASSUME Basis, outcome' # "parsing", UNCHANGED <<tokens, stats, mismatch>>
  PROVE  ArgsInv'
BY DEF Basis, ArgsInv

LEMMA StopSits ==
  ASSUME Basis, NEW how, how # "parsing", Stop(how)
  PROVE  ArgsInv'
BY EndSits DEF Stop, tree

LEMMA DefaultSits ==
  ASSUME Basis, NEW p, NEW tags, Default(p, tags)
  PROVE  ArgsInv'
<1>1. outcome' = "unexpected token" /\ UNCHANGED <<tokens, stats, mismatch>>
  BY DEF Default, Stop, tree
<1>2. outcome' # "parsing"
  BY <1>1
<1>. QED
  BY <1>1, <1>2, EndSits

\* A case that calls, whatever is known with what it leaves to be done
LEMMA CaseSits ==
  ASSUME Basis, NEW p, p # "parse", NEW tags, NEW todo, Case(p, tags, todo),
         /\ mismatch = 0 /\ Knows /\ stack[1] = p /\ curr \in tags
         /\ stack' = todo \o Tail(stack) /\ stack' # << >>
         => Sits(tokens, stack', prev, fun, arg)
  PROVE  ArgsInv'
<1>1. /\ At(p) /\ curr \in tags /\ stack' = todo \o Tail(stack)
      /\ tokens' = tokens /\ mismatch' = mismatch /\ UNCHANGED <<fun, arg, stats>>
  BY DEF Case, Then, Keep, tree
<1>2. mismatch = 0 /\ Knows /\ stack[1] = p =>
        /\ ListReads(tokens, stats')
        /\ stack' # << >> => Sits(tokens, stack', prev, fun', arg')
  BY <1>1 DEF Knows
<1>. QED
  BY <1>1, <1>2, TurnSits

LEMMA DullCaseSits ==
  ASSUME Basis, NEW p, NEW tags, NEW todo, Case(p, tags, todo), NEW a, NEW others,
         Dull(p, a, others), p # "assign",
         Shaped(stack) /\ stack # << >> /\ stack[1] = p =>
           Makes(stack, todo \o Tail(stack), a, others)
  PROVE  ArgsInv'
<1>1. p # "parse"
  BY Levels DEF Dull
<1>2. ASSUME Knows, stack[1] = p, stack' = todo \o Tail(stack)
      PROVE  Sits(tokens, stack', prev, fun, arg)
  <2>1. Makes(stack, stack', a, others)
    BY <1>2 DEF Knows
  <2>2. Steady(stack, stack')
    BY <1>2, <2>1, DullCallKeeps DEF Knows, SitsHere, Sits
  <2>. QED
    BY <1>2, <2>2, SteadySits DEF Knows, SitsHere
<1>. QED
  BY <1>1, <1>2, CaseSits

DullCode ==
  {"importlist", "filep", "qidp", "statvardeclp", "qidexprp", "invokearglist",
   "invokearglistp", "statlistp", "importlist:add", "filep:add_stat", "privatefilep:var",
   "privatefilep:fundef", "nativefundef:fun", "qid:id", "qidp:id", "statvardecl:const",
   "statvardecl:var", "statlistp:add", "invokearglistp:add"}

\* What is left after a return
LEMMA LeftIs ==
  ASSUME Knows, stack' = << >> \o Tail(stack), stack' # << >>
  PROVE  Returns(stack, stack')
<1>1. Shaped(stack) /\ stack # << >>
  BY DEF Knows
<1>2. << >> \in Seq(Item) /\ ~(<< >> # << >>)
  OBVIOUS
<1>3. Shaped(stack')
  BY <1>1, <1>2, ShapedKept
<1>4. Returned(stack, stack')
  BY <1>1, ReturnedIs
<1>. QED
  BY <1>3, <1>4 DEF Returns

LEMMA DullReturnSits ==
  ASSUME Basis, NEW p \in DullCode, NEW tags, Case(p, tags, << >>)
  PROVE  ArgsInv'
<1>1. p # "parse"
  BY DEF DullCode
<1>2. ASSUME Knows, stack[1] = p, stack' = << >> \o Tail(stack), stack' # << >>
      PROVE  Sits(tokens, stack', prev, fun, arg)
  <2>1. Returns(stack, stack')
    BY <1>2, LeftIs
  <2>2. Steady(stack, stack')
    BY <1>2, <2>1, DullReturns DEF Knows, SitsHere, Sits, DullCode
  <2>. QED
    BY <1>2, <2>2, SteadySits DEF Knows, SitsHere
<1>. QED
  BY <1>1, <1>2, CaseSits

\* Code after a call
LEMMA AfterSits ==
  ASSUME Basis, NEW code, code # "parse", After(code),
         mismatch = 0 /\ Knows /\ stack[1] = code =>
           /\ ListReads(tokens, stats')
           /\ Returns(stack, stack') => Sits(tokens, stack', prev, fun', arg')
  PROVE  ArgsInv'
<1>1. At(code) /\ stack' = << >> \o Tail(stack) /\ tokens' = tokens /\ mismatch' = mismatch
  BY DEF After, Then
<1>. QED
  BY <1>1, LeftIs, TurnSits

LEMMA DullAfterSits ==
  ASSUME Basis, NEW code \in DullCode, After(code),
         Knows => ListReads(tokens, stats'),
         Knows /\ FunDue(stack) => /\ fun'.name = fun.name /\ fun'.args = fun.args
                                   /\ fun'.dropped = fun.dropped
                                   /\ fun'.min_args_count = fun.min_args_count
  PROVE  ArgsInv'
<1>1. code # "parse"
  BY DEF DullCode
<1>2. ASSUME Knows, stack[1] = code, Returns(stack, stack')
      PROVE  Sits(tokens, stack', prev, fun', arg')
  <2>1. Steady(stack, stack')
    BY <1>2, DullReturns DEF Knows, SitsHere, Sits, DullCode
  <2>. QED
    BY <1>2, <2>1, SteadySits DEF Knows, SitsHere
<1>. QED
  BY <1>1, <1>2, AfterSits

-----------------------------------------------------------------------------
(* The steps *)

LEMMA PlainSits ==
  ASSUME Basis,
         \/ file \/ stat \/ statvardeclp \/ expr \/ literal \/ qidexprp
         \/ invokeargs \/ invokearglist \/ invokearglistp \/ fundef \/ statlist
  PROVE  ArgsInv'
<1>0. \A p \in {"statvardeclp", "qidexprp", "invokearglist", "invokearglistp",
                "invokearglistp:add"} : p \in DullCode
  BY DEF DullCode
<1>1. CASE file
  BY <1>1, DullCaseSits, FileCalls, DullCalls, DefaultSits DEF file
<1>2. CASE stat
  BY <1>2, DullCaseSits, StatCalls, DullCalls DEF stat
<1>3. CASE statvardeclp
  BY <1>0, <1>3, DullCaseSits, StatvardeclpCalls, DullCalls, DullReturnSits, DefaultSits
     DEF statvardeclp
<1>4. CASE expr
  BY <1>4, DullCaseSits, ExprCalls, DullCalls, DefaultSits DEF expr
<1>5. CASE literal
  BY <1>5, DullCaseSits, LiteralCalls, DullCalls DEF literal
<1>6. CASE qidexprp
  BY <1>0, <1>6, DullCaseSits, QidexprpCalls, DullCalls, DullReturnSits, DefaultSits
     DEF qidexprp
<1>7. CASE invokeargs
  BY <1>7, DullCaseSits, InvokeargsCalls, DullCalls DEF invokeargs
<1>8. CASE invokearglist
  BY <1>0, <1>8, DullCaseSits, InvokearglistCalls, DullCalls, DullReturnSits, DefaultSits
     DEF invokearglist
<1>9. CASE invokearglistp
  <2>1. ASSUME After("invokearglistp:add"), UNCHANGED tree
        PROVE  ArgsInv'
    <3>1. UNCHANGED <<fun, stats>>
      BY <2>1 DEF tree
    <3>. QED
      BY <1>0, <2>1, <3>1, DullAfterSits DEF Knows
  <2>2. Stop("crash") => ArgsInv'
    BY StopSits
  <2>. QED
    BY <1>0, <1>9, <2>1, <2>2, DullCaseSits, InvokearglistpCalls, DullCalls,
       DullReturnSits, DefaultSits DEF invokearglistp
<1>10. CASE fundef
  BY <1>10, DullCaseSits, FundefCalls, DullCalls DEF fundef
<1>11. CASE statlist
  BY <1>11, DullCaseSits, StatlistCalls, DullCalls, DefaultSits DEF statlist
<1>. QED
  BY <1>1, <1>2, <1>3, <1>4, <1>5, <1>6, <1>7, <1>8, <1>9, <1>10, <1>11

LEMMA AssignSits ==
  ASSUME Basis, assign
  PROVE  ArgsInv'
<1>1. CASE Case("assign", {"ASSIGN"}, <<"ASSIGN", "expr">>)
  <2>1. ASSUME Knows, stack[1] = "assign", curr = "ASSIGN",
               stack' = <<"ASSIGN", "expr">> \o Tail(stack)
        PROVE  Sits(tokens, stack', prev, fun, arg)
    <3>1. Makes(stack, stack', "ASSIGN", {"expr"})
      BY <2>1, AssignCalls DEF Knows
    <3>2. prev + 1 \in 1..Len(tokens) /\ tokens[prev + 1] = "ASSIGN" /\ prev \in Nat
      BY <2>1 DEF Knows
    <3>. QED
      BY <2>1, <3>1, <3>2, DefaultBegins DEF Knows, SitsHere
  <2>. QED
    BY <1>1, <2>1, CaseSits
<1>. QED
  BY <1>1, DefaultSits DEF assign

\* What al_add makes of the arguments
LEMMA GrownIs ==
  ASSUME fun \in FunDef, NEW x \in Name, NEW def \in Argued(x)
  PROVE  def.name = fun.name /\ Grown(fun, def, x) /\ def \in FunDef
<1>1. def \in FunDef
  BY ArguedTyped
<1>2. CASE \E args \in Added(fun.args, x, MaxArgs) :
             def = [fun EXCEPT !.args = args,
                      !.dropped = IF args = fun.args THEN fun.dropped + 1
                                  ELSE fun.dropped]
  <2>1. PICK args \in Added(fun.args, x, MaxArgs) :
          def = [fun EXCEPT !.args = args,
                   !.dropped = IF args = fun.args THEN fun.dropped + 1
                               ELSE fun.dropped]
    BY <1>2
  <2>2. /\ def.name = fun.name /\ def.args = args
        /\ def.min_args_count = fun.min_args_count
        /\ def.dropped = IF args = fun.args THEN fun.dropped + 1 ELSE fun.dropped
    BY <2>1 DEF FunDef
  <2>3. CASE args = fun.args
    BY <1>1, <2>2, <2>3 DEF Grown
  <2>4. CASE args # fun.args
    <3>1. Len(fun.args) < MaxArgs /\ args = Append(fun.args, x)
      BY <2>4 DEF Added
    <3>. QED
      BY <1>1, <2>2, <2>4, <3>1 DEF Grown
  <2>. QED
    BY <2>3, <2>4
<1>3. CASE def = [fun EXCEPT !.args = << >>,
                    !.dropped = fun.dropped + Len(fun.args) + 1,
                    !.lost = fun.lost \cup {"args"}]
  <2>1. /\ def.name = fun.name /\ def.args = << >>
        /\ def.min_args_count = fun.min_args_count
        /\ def.dropped = fun.dropped + Len(fun.args) + 1
    BY <1>3 DEF FunDef
  <2>. QED
    BY <1>1, <2>1 DEF Grown
<1>. QED
  BY <1>2, <1>3 DEF Argued

LEMMA MandatoryIs ==
  ASSUME NEW f \in FunDef
  PROVE  LET g == Mandatory(f) IN
         /\ g.name = f.name /\ g.args = f.args /\ g.dropped = f.dropped
         /\ g.min_args_count = (f.min_args_count + 1) % (2^ArgBits)
BY DEF Mandatory, FunDef

LEMMA FunarglistSits ==
  ASSUME Basis, funarglist
  PROVE  ArgsInv'
<1>1. CASE Case("funarglist", {"CONST", "ID"}, <<"funarg", "funarglistp">>)
  <2>1. ASSUME Knows, stack[1] = "funarglist", stack' = <<"funarg", "funarglistp">> \o Tail(stack)
        PROVE  Sits(tokens, stack', prev, fun, arg)
    <3>1. Makes(stack, stack', "funarg", {"funarglistp"})
      BY <2>1, FunarglistCalls DEF Knows
    <3>. QED
      BY <2>1, <3>1, ListBegins DEF Knows, SitsHere
  <2>. QED
    BY <1>1, <2>1, CaseSits
<1>2. CASE Case("funarglist", {"RPT"}, << >>)
  <2>1. ASSUME Knows, stack[1] = "funarglist", curr = "RPT", stack' # << >>,
               stack' = << >> \o Tail(stack)
        PROVE  Sits(tokens, stack', prev, fun, arg)
    <3>1. Returns(stack, stack') /\ tokens[prev + 1] = "RPT"
      BY <2>1, LeftIs DEF Knows
    <3>. QED
      BY <2>1, <3>1, ListEnds DEF Knows, SitsHere
  <2>. QED
    BY <1>2, <2>1, CaseSits
<1>. QED
  BY <1>1, <1>2, DefaultSits DEF funarglist

LEMMA FunargSits ==
  ASSUME Basis, funarg
  PROVE  ArgsInv'
<1>1. ASSUME NEW todo, NEW tag \in {"CONST", "ID"}, Case("funarg", {tag}, todo),
             \/ tag = "CONST" /\ todo = <<"CONST", "ID", "funarg:arg">>
             \/ tag = "ID" /\ todo = <<"ID", "funarg:arg">>
      PROVE  ArgsInv'
  <2>1. ASSUME Knows, stack[1] = "funarg", curr = tag, stack' = todo \o Tail(stack)
        PROVE  Sits(tokens, stack', prev, fun, arg)
    <3>1. \/ tag = "CONST" /\ Makes(stack, stack', "CONST", {"ID", "funarg:arg"})
          \/ tag = "ID" /\ Makes(stack, stack', "ID", {"funarg:arg"})
      BY <1>1, <2>1, FunargCalls DEF Knows
    <3>2. prev + 1 \in 1..Len(tokens) /\ tokens[prev + 1] = tag /\ prev \in Nat
      BY <2>1 DEF Knows
    <3>. QED
      BY <2>1, <3>1, <3>2, ArgumentBegins DEF Knows, SitsHere
  <2>. QED
    BY <1>1, <2>1, CaseSits
<1>2. CASE /\ After("funarg:arg")
           /\ arg' = prev
           /\ UNCHANGED <<id, node, fun, imports, stats>>
  <2>1. ASSUME Knows, stack[1] = "funarg:arg", Returns(stack, stack')
        PROVE  Sits(tokens, stack', prev, fun', arg')
    BY <1>2, <2>1, ArgumentNamed DEF Knows, SitsHere
  <2>2. Knows => ListReads(tokens, stats')
    BY <1>2 DEF Knows
  <2>3. After("funarg:arg")
    BY <1>2
  <2>. QED
    BY <2>1, <2>2, <2>3, AfterSits
<1>. QED
  BY <1>1, <1>2, DefaultSits DEF funarg

LEMMA CountMandatorySits ==
  ASSUME Basis, countMandatory
  PROVE  ArgsInv'
<1>1. After("funarglistp:min") /\ fun' = Mandatory(fun) /\ UNCHANGED <<arg, stats>>
  BY DEF countMandatory
<1>2. fun \in FunDef
  BY <1>1, HeadNeeds DEF After, At, NeedsFun, Basis
<1>3. ASSUME Knows, stack[1] = "funarglistp:min", Returns(stack, stack')
      PROVE  Sits(tokens, stack', prev, fun', arg')
  BY <1>1, <1>2, <1>3, MandatoryIs, ArgumentCounted DEF Knows, SitsHere
<1>4. Knows => ListReads(tokens, stats')
  BY <1>1 DEF Knows
<1>. QED
  BY <1>1, <1>3, <1>4, AfterSits

LEMMA FundefarglistpSits ==
  ASSUME Basis, fundefarglistp
  PROVE  ArgsInv'
<1>1. CASE Case("fundefarglistp", {"COMMA"},
                <<"COMMA", "funarg", "assign", "fundefarglistp:add", "fundefarglistp">>)
  <2>1. ASSUME Knows, stack[1] = "fundefarglistp",
               stack' = <<"COMMA", "funarg", "assign", "fundefarglistp:add", "fundefarglistp">>
                          \o Tail(stack)
        PROVE  Sits(tokens, stack', prev, fun, arg)
    <3>1. Makes(stack, stack', "COMMA",
                {"funarg", "assign", "fundefarglistp:add", "fundefarglistp"})
      BY <2>1, FundefarglistpCalls DEF Knows
    <3>. QED
      BY <2>1, <3>1, DefaultsGoOn DEF Knows, SitsHere
  <2>. QED
    BY <1>1, <2>1, CaseSits
<1>2. CASE Case("fundefarglistp", {"RPT"}, << >>)
  <2>1. ASSUME Knows, stack[1] = "fundefarglistp", curr = "RPT", stack' # << >>,
               stack' = << >> \o Tail(stack)
        PROVE  Sits(tokens, stack', prev, fun, arg)
    <3>1. Returns(stack, stack') /\ tokens[prev + 1] = "RPT"
      BY <2>1, LeftIs DEF Knows
    <3>. QED
      BY <2>1, <3>1, ListEnds DEF Knows, SitsHere
  <2>. QED
    BY <1>2, <2>1, CaseSits
<1>3. CASE /\ After("fundefarglistp:add")
           /\ fun' \in Argued(0)
           /\ UNCHANGED <<id, node, arg, imports, stats>>
  <2>0. After("fundefarglistp:add") /\ fun' \in Argued(0) /\ 0 \in Name
    BY <1>3 DEF Name
  <2>1. fun \in FunDef
    BY <2>0, HeadNeeds DEF After, At, NeedsFun, Basis
  <2>2. fun'.name = fun.name /\ Grown(fun, fun', 0)
    BY <2>0, <2>1, GrownIs
  <2>3. ASSUME Knows, stack[1] = "fundefarglistp:add", Returns(stack, stack')
        PROVE  Sits(tokens, stack', prev, fun', arg')
    BY <1>3, <2>2, <2>3, DefaultEnds DEF Knows, SitsHere
  <2>4. Knows => ListReads(tokens, stats')
    BY <1>3 DEF Knows
  <2>. QED
    BY <2>0, <2>3, <2>4, AfterSits
<1>4. AddCrash("fundefarglistp:add", "args") => ArgsInv'
  BY StopSits DEF AddCrash
<1>. QED
  BY <1>1, <1>2, <1>3, <1>4, DefaultSits DEF fundefarglistp

LEMMA FunarglistpSits ==
  ASSUME Basis, funarglistp
  PROVE  ArgsInv'
<1>0. CASE AddCrash("funarglistp", "args")
  BY <1>0, StopSits DEF AddCrash
<1>. SUFFICES ASSUME ~AddCrash("funarglistp", "args")
              PROVE  ArgsInv'
  BY <1>0
<1>1. /\ At("funarglistp") /\ UNCHANGED <<tokens, arg, stats, mismatch>>
      /\ fun \in FunDef /\ arg \in Name
  BY HeadNeeds, TypeIs DEF funarglistp, At, NeedsFun, Basis, TypeInv, TreeOK
<1>2. PICK def \in Argued(arg) :
        \/ /\ curr = "COMMA" /\ fun' = def
           /\ Then(<<"COMMA", "funarglistp:min", "funarg", "funarglistp">>)
        \/ curr = "ASSIGN" /\ fun' = def /\ Then(<<"assign", "fundefarglistp">>)
        \/ curr = "RPT" /\ fun' = Mandatory(def) /\ Then(<< >>)
        \/ outcome' = "unexpected token"
  BY DEF funarglistp
<1>3. def.name = fun.name /\ Grown(fun, def, arg) /\ def \in FunDef
  BY <1>1, GrownIs
<1>4. CASE outcome' = "unexpected token"
  <2>1. outcome' # "parsing"
    BY <1>4
  <2>. QED
    BY <1>1, <2>1, EndSits
<1>5. ASSUME Knows, stack[1] = "funarglistp", stack' # << >>, outcome' # "unexpected token"
      PROVE  Sits(tokens, stack', prev, fun', arg)
  <2>0. /\ Shaped(stack) /\ stack # << >> /\ prev \in Nat /\ curr = tokens[prev + 1]
        /\ Sits(tokens, stack, prev, fun, arg) /\ DueHas(stack, fun)
    BY <1>5 DEF Knows, SitsHere
  <2>1. CASE /\ curr = "COMMA" /\ fun' = def
             /\ Then(<<"COMMA", "funarglistp:min", "funarg", "funarglistp">>)
    <3>1. Makes(stack, stack', "COMMA", {"funarglistp:min", "funarg", "funarglistp"})
      BY <1>5, <2>0, <2>1, FunarglistpCalls DEF Then
    <3>. QED
      BY <1>3, <1>5, <2>0, <2>1, <3>1, ArgumentsGoOn
  <2>2. CASE curr = "ASSIGN" /\ fun' = def /\ Then(<<"assign", "fundefarglistp">>)
    <3>1. Makes(stack, stack', "assign", {"fundefarglistp"})
      BY <1>5, <2>0, <2>2, FunarglistpCalls DEF Then
    <3>. QED
      BY <1>3, <1>5, <2>0, <2>2, <3>1, DefaultsBegin
  <2>3. CASE curr = "RPT" /\ fun' = Mandatory(def) /\ Then(<< >>)
    <3>1. Returns(stack, stack')
      BY <1>5, <2>3, LeftIs DEF Then
    <3>2. /\ def.name = fun.name /\ Grown(fun, def, arg)
          /\ fun'.name = def.name /\ fun'.args = def.args /\ fun'.dropped = def.dropped
          /\ fun'.min_args_count = (def.min_args_count + 1) % (2^ArgBits)
      BY <1>3, <2>3, MandatoryIs
    <3>. QED
      BY <1>5, <2>0, <2>3, <3>1, <3>2, ListEnds
  <2>. QED
    BY <1>2, <1>5, <2>1, <2>2, <2>3
<1>6. CASE outcome' # "unexpected token"
  <2>1. Knows => ListReads(tokens, stats')
    BY <1>1 DEF Knows
  <2>. QED
    BY <1>1, <1>5, <1>6, <2>1, TurnSits
<1>. QED
  BY <1>4, <1>6

\* Code after a call that leaves the definition and the list alone
LEMMA SameSits ==
  ASSUME Basis, NEW code \in DullCode, After(code), UNCHANGED <<fun, stats>>
  PROVE  ArgsInv'
BY DullAfterSits DEF Knows

LEMMA ImportlistSits ==
  ASSUME Basis, importlist
  PROVE  ArgsInv'
<1>0. "importlist" \in DullCode /\ "importlist:add" \in DullCode
  BY DEF DullCode
<1>1. At("importlist:add") /\ Stop("abort") => ArgsInv'
  BY StopSits
<1>. QED
  BY <1>0, <1>1, SameSits, DullCaseSits, ImportlistCalls, DullCalls, DullReturnSits,
     DefaultSits DEF importlist

\* A definition goes into the list.
LEMMA StatsGrow ==
  ASSUME NEW t, NEW list \in Seq(Stat \cup FunDef), ListReads(t, list),
         NEW e, e.type = "PROGRAM_FUNDEF" => ArgsRead(t, e)
  PROVE  ListReads(t, Append(list, e))
<1>. DEFINE n == Append(list, e)
<1>1. ASSUME NEW i \in 1..Len(n), n[i].type = "PROGRAM_FUNDEF"
      PROVE  ArgsRead(t, n[i])
  <2>1. CASE i \in 1..Len(list)
    <3>1. n[i] = list[i]
      BY <2>1
    <3>. QED
      BY <1>1, <2>1, <3>1 DEF ListReads
  <2>2. CASE i \notin 1..Len(list)
    <3>1. n[i] = e
      BY <2>2
    <3>. QED
      BY <1>1, <3>1
  <2>. QED
    BY <2>1, <2>2
<1>. HIDE DEF n
<1>2. ListReads(t, n)
  BY <1>1 DEF ListReads
<1>. QED
  BY <1>2 DEF n

LEMMA FilepSits ==
  ASSUME Basis, filep
  PROVE  ArgsInv'
<1>0. "filep" \in DullCode /\ "filep:add_stat" \in DullCode
  BY DEF DullCode
<1>1. CASE Case("filep", {"PRIVATE"}, <<"PRIVATE", "privatefilep", "filep">>)
  BY <1>1, DullCaseSits, FilepCalls, DullCalls
<1>2. CASE Case("filep", {"NATIVE", "FUN"},
                <<IF curr = "NATIVE" THEN "nativefundef" ELSE "fundef",
                  "filep:add_fundef", "filep">>)
  <2>1. CASE curr = "NATIVE"
    BY <1>2, <2>1, DullCaseSits, FilepCalls, DullCalls
  <2>2. CASE curr # "NATIVE"
    BY <1>2, <2>2, DullCaseSits, FilepCalls, DullCalls
  <2>. QED
    BY <2>1, <2>2
<1>3. CASE Case("filep", {"CONST", "VAR", "ID", "EOF"},
                IF curr = "EOF" THEN << >> ELSE <<"stat", "filep:add_stat", "filep">>)
  <2>1. curr # "EOF"
    BY <1>3, CurrIs DEF Case, Basis
  <2>. QED
    BY <1>3, <2>1, DullCaseSits, FilepCalls, DullCalls
<1>4. ASSUME After("filep:add_fundef"), stats' = Append(stats, fun),
             UNCHANGED <<id, node, arg, fun, imports>>
      PROVE  ArgsInv'
  <2>1. stats \in Seq(Stat \cup FunDef)
    BY TypeIs DEF Basis, TypeInv, TreeOK
  <2>2. ASSUME Knows, stack[1] = "filep:add_fundef"
        PROVE  /\ ArgsRead(tokens, fun)
               /\ Returns(stack, stack') => Sits(tokens, stack', prev, fun', arg')
    BY <2>2, SignatureListed DEF Knows, SitsHere
  <2>3. ASSUME Knows, stack[1] = "filep:add_fundef"
        PROVE  ListReads(tokens, stats')
    <3>1. ArgsRead(tokens, fun)
      BY <2>2, <2>3
    <3>. QED
      BY <1>4, <2>1, <2>3, <3>1, StatsGrow DEF Knows
  <2>. QED
    BY <1>4, <2>2, <2>3, AfterSits
<1>5. ASSUME After("filep:add_stat"), stats' = Append(stats, node),
             UNCHANGED <<id, node, arg, fun, imports>>
      PROVE  ArgsInv'
  <2>1. stats \in Seq(Stat \cup FunDef) /\ node \in Stat
    BY <1>5, HeadNeeds, TypeIs DEF Basis, TypeInv, TreeOK, NeedsNode, After, At
  <2>2. node.type # "PROGRAM_FUNDEF"
    BY <2>1 DEF Stat, VarDecl
  <2>3. Knows => ListReads(tokens, stats')
    BY <1>5, <2>1, <2>2, StatsGrow DEF Knows
  <2>. QED
    BY <1>0, <1>5, <2>3, DullAfterSits
<1>6. /\ At("filep:add_fundef") /\ Stop("abort") => ArgsInv'
      /\ At("filep:add_stat") /\ Stop("abort") => ArgsInv'
  BY StopSits
<1>. QED
  BY <1>1, <1>2, <1>3, <1>4, <1>5, <1>6, DefaultSits DEF filep

\* A definition that is private or native has the same arguments.
LEMMA ArgumentsStay ==
  ASSUME fun \in FunDef, NEW value,
         \/ fun' = [fun EXCEPT !.is_private = value]
         \/ fun' = [fun EXCEPT !.is_native = value]
  PROVE  /\ fun'.name = fun.name /\ fun'.args = fun.args /\ fun'.dropped = fun.dropped
         /\ fun'.min_args_count = fun.min_args_count
BY DEF FunDef

LEMMA PrivatefilepSits ==
  ASSUME Basis, privatefilep
  PROVE  ArgsInv'
<1>0. "privatefilep:var" \in DullCode /\ "privatefilep:fundef" \in DullCode
  BY DEF DullCode
<1>1. CASE Case("privatefilep", {"CONST", "VAR"},
                <<"statvardecl", "privatefilep:var", "filep:add_stat">>)
  BY <1>1, DullCaseSits, PrivatefilepCalls, DullCalls
<1>2. CASE Case("privatefilep", {"NATIVE", "FUN"},
                <<IF curr = "NATIVE" THEN "nativefundef" ELSE "fundef",
                  "privatefilep:fundef", "filep:add_fundef">>)
  <2>1. CASE curr = "NATIVE"
    BY <1>2, <2>1, DullCaseSits, PrivatefilepCalls, DullCalls
  <2>2. CASE curr # "NATIVE"
    BY <1>2, <2>2, DullCaseSits, PrivatefilepCalls, DullCalls
  <2>. QED
    BY <2>1, <2>2
<1>3. CASE After("privatefilep:var") /\ UNCHANGED <<id, arg, fun, imports, stats>>
  BY <1>0, <1>3, SameSits
<1>4. CASE /\ After("privatefilep:fundef")
           /\ fun' = [fun EXCEPT !.is_private = TRUE]
           /\ UNCHANGED <<id, node, arg, imports, stats>>
  <2>1. fun \in FunDef
    BY <1>4, HeadNeeds DEF After, At, NeedsFun, Basis
  <2>2. Knows => ListReads(tokens, stats')
    BY <1>4 DEF Knows
  <2>. QED
    BY <1>0, <1>4, <2>1, <2>2, ArgumentsStay, DullAfterSits
<1>. QED
  BY <1>1, <1>2, <1>3, <1>4, DefaultSits DEF privatefilep

LEMMA NativefundefSits ==
  ASSUME Basis, nativefundef
  PROVE  ArgsInv'
<1>1. CASE Case("nativefundef", {"NATIVE"}, <<"NATIVE", "funsig", "nativefundef:fun">>)
  BY <1>1, DullCaseSits, NativefundefCalls, DullCalls
<1>2. CASE /\ After("nativefundef:fun")
           /\ fun' = [fun EXCEPT !.is_native = TRUE]
           /\ UNCHANGED <<id, node, arg, imports, stats>>
  <2>0. "nativefundef:fun" \in DullCode
    BY DEF DullCode
  <2>1. fun \in FunDef
    BY <1>2, HeadNeeds DEF After, At, NeedsFun, Basis
  <2>2. Knows => ListReads(tokens, stats')
    BY <1>2 DEF Knows
  <2>. QED
    BY <1>2, <2>0, <2>1, <2>2, ArgumentsStay, DullAfterSits
<1>. QED
  BY <1>1, <1>2 DEF nativefundef

LEMMA NamesSit ==
  ASSUME Basis, qid \/ qidp
  PROVE  ArgsInv'
<1>0. "qid:id" \in DullCode /\ "qidp:id" \in DullCode /\ "qidp" \in DullCode
  BY DEF DullCode
<1>1. ASSUME NEW code \in {"qid:id", "qidp:id"}, After(code),
             UNCHANGED <<node, fun, imports, stats>>
      PROVE  ArgsInv'
  BY <1>0, <1>1, SameSits
<1>2. CASE qid
  BY <1>1, <1>2, DullCaseSits, QidCalls, DullCalls, DefaultSits DEF qid
<1>3. CASE qidp
  <2>1. At("qidp:id") /\ Stop("exit") => ArgsInv'
    BY StopSits
  <2>. QED
    BY <1>0, <1>1, <1>3, <2>1, DullCaseSits, QidpCalls, DullCalls, DullReturnSits, DefaultSits
       DEF qidp
<1>. QED
  BY <1>2, <1>3

LEMMA StatvardeclSits ==
  ASSUME Basis, statvardecl
  PROVE  ArgsInv'
<1>0. "statvardecl:const" \in DullCode /\ "statvardecl:var" \in DullCode
  BY DEF DullCode
<1>1. ASSUME NEW code \in {"statvardecl:const", "statvardecl:var"}, After(code),
             UNCHANGED <<id, arg, fun, imports, stats>>
      PROVE  ArgsInv'
  BY <1>0, <1>1, SameSits
<1>. QED
  BY <1>1, DullCaseSits, StatvardeclCalls, DullCalls DEF statvardecl

LEMMA QidstatpSits ==
  ASSUME Basis, qidstatp
  PROVE  ArgsInv'
<1>1. ASSUME At("qidstatp"), UNCHANGED <<tokens, arg, fun, imports, stats, mismatch>>,
             NEW a \in {"invokeargs", "assign"}, Then(<<a>>)
      PROVE  ArgsInv'
  <2>1. ASSUME Knows, stack[1] = "qidstatp"
        PROVE  Sits(tokens, stack', prev, fun', arg')
    <3>1. Makes(stack, stack', a, {}) /\ Dull("qidstatp", a, {})
      BY <1>1, <2>1, QidstatpCalls, DullCalls DEF Knows, Then
    <3>2. Steady(stack, stack')
      BY <2>1, <3>1, DullCallKeeps DEF Knows, SitsHere, Sits
    <3>. QED
      BY <1>1, <2>1, <3>2, SteadySits DEF Knows, SitsHere
  <2>2. Knows => ListReads(tokens, stats')
    BY <1>1 DEF Knows
  <2>. QED
    BY <1>1, <2>1, <2>2, TurnSits
<1>. QED
  BY <1>1, DefaultSits DEF qidstatp

LEMMA FunsigSits ==
  ASSUME Basis, funsig
  PROVE  ArgsInv'
<1>1. ASSUME After("funsig:fun"), UNCHANGED <<id, node, arg, imports, stats>>,
             fun'.name = prev, Fresh(fun')
      PROVE  ArgsInv'
  <2>1. ASSUME Knows, stack[1] = "funsig:fun", Returns(stack, stack')
        PROVE  Sits(tokens, stack', prev, fun', arg')
    BY <1>1, <2>1, SignatureBegins DEF Knows, SitsHere
  <2>2. Knows => ListReads(tokens, stats')
    BY <1>1 DEF Knows
  <2>. QED
    BY <1>1, <2>1, <2>2, AfterSits
<1>2. ASSUME fun' = [type |-> "PROGRAM_FUNDEF", is_private |-> FALSE,
                     is_native |-> FALSE, name |-> prev, min_args_count |-> 0,
                     args |-> << >>, dropped |-> 0, stats |-> << >>, lost |-> {}]
      PROVE  fun'.name = prev /\ Fresh(fun')
  BY <1>2 DEF Fresh
<1>. QED
  BY <1>1, <1>2, DullCaseSits, FunsigCalls, DullCalls, DefaultSits DEF funsig

LEMMA StatlistpSits ==
  ASSUME Basis, statlistp
  PROVE  ArgsInv'
<1>0. "statlistp" \in DullCode /\ "statlistp:add" \in DullCode
  BY DEF DullCode
<1>1. ASSUME After("statlistp:add"), NEW def \in Bodied, fun' = def,
             UNCHANGED <<id, node, arg, imports, stats>>
      PROVE  ArgsInv'
  <2>1. fun \in FunDef
    BY <1>1, HeadNeeds DEF After, At, NeedsFun, Basis
  <2>2. Knows => ListReads(tokens, stats')
    BY <1>1 DEF Knows
  <2>. QED
    BY <1>0, <1>1, <2>1, <2>2, BodiedIs, DullAfterSits
<1>2. CASE \/ Case("statlistp", {"CONST", "VAR", "ID"},
                   <<"stat", "statlistp:add", "statlistp">>)
           \/ Case("statlistp", {"RPG"}, << >>)
           \/ Default("statlistp", {"CONST", "VAR", "ID", "RPG"})
  BY <1>0, <1>2, DullCaseSits, StatlistpCalls, DullCalls, DullReturnSits, DefaultSits
<1>3. AddCrash("statlistp:add", "stats") => ArgsInv'
  BY StopSits DEF AddCrash
<1>. QED
  BY <1>1, <1>2, <1>3 DEF statlistp

-----------------------------------------------------------------------------
\* The definitions that are listed, when a token is read
LEMMA ListReadsLater ==
  ASSUME NEW t \in Seq(Tag), NEW tag \in Tag, NEW list \in Seq(Stat \cup FunDef),
         ListReads(t, list)
  PROVE  ListReads(Append(t, tag), list)
<1>1. ASSUME NEW i \in 1..Len(list), list[i].type = "PROGRAM_FUNDEF"
      PROVE  ArgsRead(Append(t, tag), list[i])
  <2>1. list[i] \in Stat \cup FunDef
    OBVIOUS
  <2>2. list[i] \notin Stat
    BY <1>1 DEF Stat, VarDecl
  <2>3. list[i].name \in Nat
    BY <2>1, <2>2, DefIs
  <2>4. ArgsRead(t, list[i])
    BY <1>1 DEF ListReads
  <2>. QED
    BY <2>3, <2>4, ArgsReadLater
<1>. QED
  BY <1>1 DEF ListReads

LEMMA ParseSits ==
  ASSUME Basis, parse
  PROVE  ArgsInv'
<1>0. TypeInv /\ ArgsInv
  BY DEF Basis
<1>1. At("parse") /\ move(<< >>)
  BY DEF parse
<1>2. stack = <<"parse", "file">> /\ tokens = << >>
  <2>1. ASSUME tokens # << >> PROVE FALSE
    <3>1. Head(stack) \in Pending
      BY <1>0, <1>1, <2>1 DEF TypeInv, Ready, At
    <3>. QED
      BY <1>1, <3>1, Sets DEF At, Pending, Symbol, Code, Functions, Terminal
  <2>. QED
    BY <1>0, <2>1 DEF TypeInv, Ready
<1>3. CASE \E how : how # "parsing" /\ Stop(how)
  BY <1>3, StopSits
<1>4. ASSUME NEW tag \in Found, tokens' = Append(tokens, tag), Then(<< >>),
             UNCHANGED <<tree, mismatch, outcome>>
      PROVE  ArgsInv'
  <2>1. stack' = <<"file">>
    BY <1>2, <1>4 DEF Then
  <2>2. tokens \in Seq(Tag) /\ tag \in Tag /\ stats \in Seq(Stat \cup FunDef) /\ stats' = stats
    <3>1. << >> \in Seq(Tag)
      OBVIOUS
    <3>. QED
      BY <1>0, <1>2, <1>4, <3>1, FoundAre, TypeIs DEF TypeInv, TreeOK, tree
  <2>3. mismatch = 0 => ListReads(tokens', stats')
    BY <1>0, <1>4, <2>2, ListReadsLater DEF ArgsInv
  <2>4. ASSUME NEW t, NEW k, NEW f, NEW a
        PROVE  Sits(t, <<"file">>, k, f, a)
    <3>. DEFINE s == <<"file">>
    <3>1. s[1] = "file" /\ \A y : ~Below(s, y)
      BY DEF Below
    <3>. HIDE DEF s
    <3>2. ~FunDue(s) /\ Seats(s)
      BY <3>1 DEF FunDue, MakesFun, On, Seats
    <3>3. Sits(t, s, k, f, a)
      BY <3>2 DEF Sits, Seated
    <3>. QED
      BY <3>3 DEF s
  <2>. QED
    BY <1>4, <2>1, <2>3, <2>4 DEF ArgsInv, SitsHere
<1>. QED
  <2>1. CASE \E tag \in Found : tokens' = Append(tokens, tag) /\ Then(<< >>)
                                  /\ UNCHANGED <<tree, mismatch, outcome>>
    BY <1>4, <2>1
  <2>. QED
    BY <1>1, <1>3, <2>1 DEF move

LEMMA ComplainsSit ==
  ASSUME TypeInv, match, complains
  PROVE  ArgsInv'
<1>1. mismatch' # 0
  <2>1. tokens \in Seq(Tag \ {"EOF"}) /\ mismatch \in 0..Len(tokens) /\ tokens # << >>
    BY TypeIs DEF TypeInv, match
  <2>2. Len(tokens) # 0
    BY <2>1
  <2>. QED
    BY <2>1, <2>2 DEF complains
<1>. QED
  BY <1>1 DEF ArgsInv

LEMMA MatchesSit ==
  ASSUME Basis, NestInv', match, matches
  PROVE  ArgsInv'
<1>0. TypeInv /\ TreeInv /\ NestInv /\ ArgsInv
  BY DEF Basis
<1>1. tokens \in Seq(Tag) /\ tokens # << >> /\ Len(tokens) \in Nat /\ curr \in Tag \ {"EOF"}
  <2>1. tokens \in Seq(Tag \ {"EOF"}) /\ tokens # << >>
    BY <1>0 DEF match, TypeInv, Ready
  <2>. QED
    BY <2>1 DEF curr
<1>2. At(curr) /\ move(<< >>)
  BY <1>1 DEF matches
<1>3. CASE \E how : how # "parsing" /\ Stop(how)
  BY <1>3, StopSits
<1>4. ASSUME NEW tag \in Found, tokens' = Append(tokens, tag), Then(<< >>),
             UNCHANGED <<tree, mismatch, outcome>>
      PROVE  ArgsInv'
  <2>1. /\ tag \in Tag /\ Len(tokens') = Len(tokens) + 1
        /\ prev = Len(tokens) - 1 /\ prev \in Nat /\ prev' = prev + 1
        /\ tokens'[prev + 1] = curr
        /\ stack' = << >> \o Tail(stack)
        /\ UNCHANGED <<arg, fun, stats, mismatch>>
    <3>1. tag \in Tag
      BY FoundAre
    <3>2. Len(tokens) # 0
      BY <1>1
    <3>. QED
      BY <1>1, <1>4, <3>1, <3>2 DEF prev, curr, Then, tree
  <2>2. stats \in Seq(Stat \cup FunDef)
    BY <1>0, TypeIs DEF TypeInv, TreeOK
  <2>3. ASSUME mismatch = 0
        PROVE  Knows /\ stack[1] = curr
    <3>1. curr # "parse"
      BY <1>1, ItemsAre DEF Functions
    <3>. QED
      BY <1>2, <2>3, <3>1, KnowsAt
  <2>4. mismatch = 0 => ListReads(tokens', stats')
    BY <1>1, <1>4, <2>1, <2>2, <2>3, ListReadsLater DEF Knows
  <2>5. ASSUME mismatch = 0, stack' # << >>
        PROVE  Sits(tokens', stack', prev', fun', arg')
    <3>1. Returns(stack, stack')
      BY <2>1, <2>3, <2>5, LeftIs
    <3>2. /\ Shaped(stack) /\ stack # << >> /\ Place(stack)
          /\ Sits(tokens, stack, prev, fun, arg) /\ DueHas(stack, fun)
          /\ Nest(tokens, prev) + Nest(stack, Len(stack)) = 0
      BY <2>3, <2>5 DEF Knows, SitsHere
    <3>3. Nest(tokens', prev + 1) + Nest(stack', Len(stack')) = 0
      BY <2>1, <2>5 DEF NestInv
    <3>4. Nest(tokens', prev) = Nest(tokens, prev)
      BY <1>1, <1>4, <2>1, NestLater
    <3>5. Reader(tokens', stack, stack', prev)
      BY <1>1, <2>1, <2>3, <2>5, <3>1, <3>2, <3>3, <3>4 DEF Reader
    <3>6. Sits(Append(tokens, tag), stack', prev + 1, fun, arg)
      BY <1>1, <1>4, <2>1, <3>2, <3>5, TagSits
    <3>. QED
      BY <1>4, <2>1, <3>6
  <2>. QED
    BY <2>1, <2>4, <2>5 DEF ArgsInv, SitsHere
<1>. QED
  <2>1. CASE \E tag \in Found : tokens' = Append(tokens, tag) /\ Then(<< >>)
                                  /\ UNCHANGED <<tree, mismatch, outcome>>
    BY <1>4, <2>1
  <2>. QED
    BY <1>2, <1>3, <2>1 DEF move

LEMMA ArgsInvKept ==
  ASSUME Basis, NestInv', [Next]_vars
  PROVE  ArgsInv'
<1>1. CASE UNCHANGED vars
  <2>1. UNCHANGED <<tokens, stack, arg, fun, stats, mismatch, outcome>>
    BY <1>1 DEF vars, tree
  <2>2. prev' = prev
    BY <2>1 DEF prev
  <2>. QED
    BY <2>1, <2>2 DEF ArgsInv, SitsHere, Basis
<1>2. CASE match
  BY <1>2, ComplainsSit, MatchesSit DEF match, Basis
<1>3. CASE Next /\ ~match
  BY <1>3, ParseSits, PlainSits, ImportlistSits, FilepSits, PrivatefilepSits,
     NativefundefSits, NamesSit, StatvardeclSits, QidstatpSits, AssignSits, FunsigSits,
     FunarglistSits, FunargSits, FunarglistpSits, CountMandatorySits, FundefarglistpSits,
     StatlistpSits DEF Next
<1>. QED
  BY <1>1, <1>2, <1>3

LEMMA NestInvInit ==
  ASSUME Init
  PROVE  NestInv
<1>1. stack = <<"parse", "file">> /\ tokens = << >> /\ prev = -1
  BY DEF Init, prev
<1>2. \A t, x : Count(t, -1, x) = 0
  <2>1. ASSUME NEW t, NEW x
        PROVE  Count(t, -1, x) = 0
    <3>1. {j \in 1..(-1) : t[j] = x} = {}
      OBVIOUS
    <3>. QED
      BY <3>1, FS_EmptySet DEF Count
  <2>. QED
    BY <2>1
<1>3. \A x \in {"LPT", "RPT"} : Count(<<"parse", "file">>, 2, x) = 0
  <2>1. ASSUME NEW x \in {"LPT", "RPT"}
        PROVE  Count(<<"parse", "file">>, 2, x) = 0
    <3>1. {j \in 1..2 : <<"parse", "file">>[j] = x} = {}
      OBVIOUS
    <3>. QED
      BY <3>1, FS_EmptySet DEF Count
  <2>. QED
    BY <2>1
<1>4. Len(stack) = 2
  BY <1>1
<1>. QED
  BY <1>1, <1>2, <1>3, <1>4 DEF NestInv, Nest

LEMMA ArgsInvInit ==
  ASSUME Init
  PROVE  ArgsInv
<1>1. stack = <<"parse", "file">> /\ stats = << >>
  BY DEF Init, tree
<1>2. stack[1] = "parse" /\ \A x : Below(stack, x) => x = "file"
  BY <1>1 DEF Below
<1>3. ~FunDue(stack) /\ Seats(stack)
  BY <1>2 DEF FunDue, MakesFun, On, Seats
<1>4. ListReads(tokens, stats)
  BY <1>1 DEF ListReads
<1>. QED
  BY <1>3, <1>4 DEF ArgsInv, SitsHere, Sits, Seated

-----------------------------------------------------------------------------
(* From the lists to the property *)

LEMMA NestingIs ==
  \A k : Nesting(k, "LPT", "RPT") = Nest(tokens, k)
BY DEF Nesting, Nest, Count

LEMMA ListingSmall ==
  ASSUME NEW f, f.args \in Seq(Nat)
  PROVE  IsFiniteSet(Listing(f)) /\ Cardinality(Listing(f)) <= Len(f.args)
         /\ Cardinality(Listing(f)) \in Nat
<1>. DEFINE a == f.args
            R == {a[i] : i \in DOMAIN a}
<1>1. Len(a) \in Nat /\ DOMAIN a = 1..Len(a) /\ a \in [1..Len(a) -> R]
  OBVIOUS
<1>. HIDE DEF a
<1>2. IsFiniteSet(1..Len(a)) /\ Cardinality(1..Len(a)) = Len(a)
  <2>1. \A m \in Nat : IsFiniteSet(1..m) /\ Cardinality(1..m) = m
    BY FS_Interval
  <2>. QED
    BY <1>1, <2>1
<1>3. a \in Surjection(1..Len(a), R)
  BY <1>1 DEF Surjection
<1>. HIDE DEF R
<1>4. IsFiniteSet(R) /\ Cardinality(R) <= Len(a)
  BY <1>2, <1>3, FS_Surjection
<1>5. Listing(f) \subseteq R
  BY <1>1 DEF Listing, a, R
<1>6. IsFiniteSet(Listing(f)) /\ Cardinality(Listing(f)) <= Cardinality(R)
  BY <1>4, <1>5, FS_Subset
<1>7. Cardinality(Listing(f)) \in Nat /\ Cardinality(R) \in Nat
  BY <1>4, <1>6, FS_CardinalityType
<1>. QED
  BY <1>1, <1>4, <1>6, <1>7 DEF a

LEMMA ParametersAre ==
  ASSUME NEW f, f.name \in Nat, tokens \in Seq(Tag), NEW c \in f.name + 2..(Len(tokens) - 1),
         Within(tokens, f.name, c - 1), Nest(tokens, c) = 0
  PROVE  Parameters(f) = IF c = f.name + 2 THEN {} ELSE NamesTo(tokens, f.name, c)
<1>. DEFINE n == f.name
            Inside(k) == Nesting(k, "LPT", "RPT") - Nesting(n, "LPT", "RPT")
            Closes(k) == Inside(k) = 0 /\ \A j \in n + 1..k - 1 : Inside(j) # 0
            close == CHOOSE k \in n + 2..Len(tokens) : Closes(k)
            begins == {n + 2} \cup
                        {k + 1 : k \in {j \in n + 2..close : tokens[j] = "COMMA" /\ Inside(j) = 1}}
<1>1. n \in Nat /\ Len(tokens) \in Nat /\ c \in Nat /\ n + 2 <= c /\ c < Len(tokens)
  OBVIOUS
<1>2. \A k \in Nat : Inside(k) = Nest(tokens, k)
  <2>1. Nest(tokens, n) = 0
    BY DEF Within
  <2>2. \A k \in Nat : Nest(tokens, k) \in Int
    BY NestStep
  <2>. QED
    BY <2>1, <2>2, NestingIs
<1>3. \A j \in n + 1..c - 1 : Nest(tokens, j) > 0
  BY DEF Within
<1>4. Parameters(f) = IF close = n + 2
                      THEN {}
                      ELSE {IF tokens[k] = "CONST" THEN k + 1 ELSE k : k \in begins}
  BY DEF Parameters
<1>. HIDE DEF Inside
<1>5. \A k \in n + 2..Len(tokens) : Closes(k) <=> k = c
  <2>1. Closes(c)
    <3>1. \A j \in n + 1..c - 1 : j \in Nat /\ Nest(tokens, j) \in Int
      BY <1>1, NestStep
    <3>. QED
      BY <1>1, <1>2, <1>3, <3>1
  <2>2. ASSUME NEW k \in n + 2..Len(tokens), Closes(k), k < c
        PROVE  FALSE
    <3>1. k \in n + 1..c - 1 /\ k \in Nat
      BY <1>1, <2>2
    <3>2. Nest(tokens, k) > 0 /\ Nest(tokens, k) = 0
      BY <1>2, <1>3, <2>2, <3>1
    <3>. QED
      BY <3>2
  <2>3. ASSUME NEW k \in n + 2..Len(tokens), Closes(k), k > c
        PROVE  FALSE
    <3>1. c \in n + 1..k - 1
      BY <1>1, <2>3
    <3>. QED
      BY <1>1, <1>2, <2>3, <3>1
  <2>. QED
    BY <1>1, <2>1, <2>2, <2>3
<1>6. close = c
  <2>1. c \in n + 2..Len(tokens)
    BY <1>1
  <2>. HIDE DEF Closes
  <2>. QED
    BY <1>5, <2>1
<1>7. begins = ParametersBegin(tokens, n, c)
  <2>1. \A j \in n + 2..c : Inside(j) = Nest(tokens, j)
    BY <1>1, <1>2
  <2>. QED
    BY <1>6, <2>1 DEF ParametersBegin
<1>. HIDE DEF begins, close
<1>. QED
  BY <1>4, <1>6, <1>7 DEF NamesTo, NameAt

-----------------------------------------------------------------------------
(***************************************************************************)
(* A list that was lost stays empty: al_add adds to it no more.            *)
(***************************************************************************)

Emptied(f) == "args" \in f.lost => f.args = << >>

ListEmptied(list) ==
  \A i \in 1..Len(list) : list[i].type = "PROGRAM_FUNDEF" => Emptied(list[i])

LostInv == (fun \in FunDef => Emptied(fun)) /\ ListEmptied(stats)

LEMMA LostInvInit ==
  ASSUME Init
  PROVE  LostInv
BY NullAssumption DEF Init, LostInv, ListEmptied

LEMMA ArguedEmptied ==
  ASSUME fun \in FunDef, Emptied(fun), "args" \notin fun.lost, NEW x, NEW def \in Argued(x)
  PROVE  Emptied(def)
<1>1. CASE \E args \in Added(fun.args, x, MaxArgs) :
             def = [fun EXCEPT !.args = args,
                      !.dropped = IF args = fun.args THEN fun.dropped + 1
                                  ELSE fun.dropped]
  <2>1. def.lost = fun.lost
    BY <1>1 DEF FunDef
  <2>. QED
    BY <2>1 DEF Emptied
<1>2. CASE def = [fun EXCEPT !.args = << >>,
                    !.dropped = fun.dropped + Len(fun.args) + 1,
                    !.lost = fun.lost \cup {"args"}]
  <2>1. def.args = << >>
    BY <1>2 DEF FunDef
  <2>. QED
    BY <2>1 DEF Emptied
<1>. QED
  BY <1>1, <1>2 DEF Argued

LEMMA FunEmptied ==
  ASSUME TypeInv, LostInv, stack # << >>, Head(stack) \in NeedsFun
  PROVE  fun \in FunDef /\ Emptied(fun)
BY HeadNeeds DEF LostInv

\* Steps that leave the definition and the list of the file alone
LEMMA SameEmptied ==
  ASSUME LostInv, UNCHANGED <<fun, stats>>
  PROVE  LostInv'
BY DEF LostInv

LEMMA CaseEmptied ==
  ASSUME LostInv, NEW p, NEW tags, NEW todo,
         Case(p, tags, todo) \/ Default(p, tags)
  PROVE  LostInv'
BY SameEmptied DEF Case, Default, Stop, Keep, tree

LEMMA StopEmptied ==
  ASSUME LostInv, NEW how, Stop(how)
  PROVE  LostInv'
BY SameEmptied DEF Stop, tree

\* Steps that leave the definitions of the file alone
LEMMA FunStepEmptied ==
  ASSUME LostInv, fun' \in FunDef => Emptied(fun'), UNCHANGED stats
  PROVE  LostInv'
BY DEF LostInv

LEMMA PlainEmptied ==
  ASSUME LostInv,
         \/ match \/ parse \/ file \/ importlist \/ qid \/ qidp
         \/ stat \/ statvardecl \/ statvardeclp \/ qidstatp \/ assign
         \/ expr \/ literal \/ qidexprp
         \/ invokeargs \/ invokearglist \/ invokearglistp
         \/ fundef \/ funarglist \/ funarg \/ statlist
  PROVE  LostInv'
<1>1. CASE match \/ parse
  <2>1. ASSUME NEW todo, move(todo) PROVE UNCHANGED <<fun, stats>>
    BY <2>1 DEF move, Stop, tree
  <2>2. matches => UNCHANGED <<fun, stats>>
    BY <2>1 DEF matches, Keep, tree
  <2>3. complains => UNCHANGED <<fun, stats>>
    BY DEF complains, tree
  <2>4. parse => UNCHANGED <<fun, stats>>
    BY <2>1 DEF parse
  <2>. QED
    BY <1>1, <2>2, <2>3, <2>4, SameEmptied DEF match
<1>2. CASE file \/ stat \/ statvardeclp \/ assign \/ expr \/ literal \/ qidexprp
  BY <1>2, CaseEmptied
     DEF file, stat, statvardeclp, assign, expr, literal, qidexprp
<1>3. CASE \/ invokeargs \/ invokearglist \/ invokearglistp
           \/ fundef \/ funarglist \/ statlist
  BY <1>3, CaseEmptied, StopEmptied, SameEmptied
     DEF invokeargs, invokearglist, invokearglistp, fundef, funarglist, statlist, tree
<1>4. CASE importlist \/ qid \/ qidp
  BY <1>4, CaseEmptied, StopEmptied, SameEmptied DEF importlist, qid, qidp
<1>5. CASE statvardecl \/ qidstatp \/ funarg
  BY <1>5, CaseEmptied, StopEmptied, SameEmptied DEF statvardecl, qidstatp, funarg
<1>. QED
  BY <1>1, <1>2, <1>3, <1>4, <1>5

\* A definition is made, or what is not its arguments changes.
LEMMA FlagsEmptied ==
  ASSUME TypeInv, LostInv, privatefilep \/ nativefundef \/ funsig \/ statlistp
  PROVE  LostInv'
<1>1. CASE privatefilep
  <2>1. CASE /\ After("privatefilep:fundef")
             /\ fun' = [fun EXCEPT !.is_private = TRUE]
             /\ UNCHANGED <<id, node, arg, imports, stats>>
    <3>1. fun \in FunDef /\ Emptied(fun)
      BY <2>1, FunEmptied DEF After, At, NeedsFun
    <3>2. fun'.args = fun.args /\ fun'.lost = fun.lost
      BY <2>1, <3>1 DEF FunDef
    <3>. QED
      BY <2>1, <3>1, <3>2, FunStepEmptied DEF Emptied
  <2>. QED
    BY <1>1, <2>1, CaseEmptied, SameEmptied DEF privatefilep
<1>2. CASE nativefundef
  <2>1. CASE /\ After("nativefundef:fun")
             /\ fun' = [fun EXCEPT !.is_native = TRUE]
             /\ UNCHANGED <<id, node, arg, imports, stats>>
    <3>1. fun \in FunDef /\ Emptied(fun)
      BY <2>1, FunEmptied DEF After, At, NeedsFun
    <3>2. fun'.args = fun.args /\ fun'.lost = fun.lost
      BY <2>1, <3>1 DEF FunDef
    <3>. QED
      BY <2>1, <3>1, <3>2, FunStepEmptied DEF Emptied
  <2>. QED
    BY <1>2, <2>1, CaseEmptied DEF nativefundef
<1>3. CASE funsig
  <2>1. ASSUME fun'.lost = {}, UNCHANGED stats
        PROVE  LostInv'
    BY <2>1, FunStepEmptied DEF Emptied
  <2>. QED
    BY <1>3, <2>1, CaseEmptied DEF funsig
<1>4. CASE statlistp
  <2>1. ASSUME After("statlistp:add"), NEW def \in Bodied, fun' = def, UNCHANGED stats
        PROVE  LostInv'
    <3>1. fun \in FunDef /\ Emptied(fun)
      BY <2>1, FunEmptied DEF After, At, NeedsFun
    <3>2. def.args = fun.args /\ ("args" \in def.lost <=> "args" \in fun.lost)
      BY <3>1, BodiedIs
    <3>. QED
      BY <2>1, <3>1, <3>2, FunStepEmptied DEF Emptied
  <2>. QED
    BY <1>4, <2>1, CaseEmptied, StopEmptied DEF statlistp, AddCrash
<1>. QED
  BY <1>1, <1>2, <1>3, <1>4

LEMMA MandatoryEmptied ==
  ASSUME NEW def \in FunDef, Emptied(def)
  PROVE  Emptied(Mandatory(def))
BY DEF Mandatory, FunDef, Emptied

LEMMA ArgumentsEmptied ==
  ASSUME TypeInv, LostInv, countMandatory \/ fundefarglistp \/ funarglistp
  PROVE  LostInv'
<1>1. CASE countMandatory
  <2>1. fun \in FunDef /\ Emptied(fun)
    BY <1>1, FunEmptied DEF countMandatory, After, At, NeedsFun
  <2>. QED
    BY <1>1, <2>1, MandatoryEmptied, FunStepEmptied DEF countMandatory
<1>2. CASE fundefarglistp
  <2>1. ASSUME After("fundefarglistp:add"), "args" \notin fun.lost, NEW def \in Argued(0),
               fun' = def, UNCHANGED stats
        PROVE  LostInv'
    <3>1. fun \in FunDef /\ Emptied(fun)
      BY <2>1, FunEmptied DEF After, At, NeedsFun
    <3>. QED
      BY <2>1, <3>1, ArguedEmptied, FunStepEmptied
  <2>. QED
    BY <1>2, <2>1, CaseEmptied, StopEmptied DEF fundefarglistp, AddCrash
<1>3. CASE funarglistp
  <2>1. ASSUME At("funarglistp"), "args" \notin fun.lost, NEW def \in Argued(arg),
               fun' \in {def, Mandatory(def)}, UNCHANGED stats
        PROVE  LostInv'
    <3>1. fun \in FunDef /\ Emptied(fun) /\ arg \in Name
      BY <2>1, FunEmptied, TypeIs DEF At, NeedsFun, TypeInv, TreeOK
    <3>2. def \in FunDef /\ Emptied(def)
      BY <2>1, <3>1, ArguedTyped, ArguedEmptied
    <3>. QED
      BY <2>1, <3>2, MandatoryEmptied, FunStepEmptied
  <2>. QED
    BY <1>3, <2>1, StopEmptied DEF funarglistp, AddCrash
<1>. QED
  BY <1>1, <1>2, <1>3

LEMMA FilepEmptied ==
  ASSUME TypeInv, LostInv, filep
  PROVE  LostInv'
<1>1. ASSUME NEW code \in {"filep:add_fundef", "filep:add_stat"}, After(code),
             stats' = Append(stats, IF code = "filep:add_stat" THEN node ELSE fun),
             UNCHANGED <<id, node, arg, fun, imports>>
      PROVE  LostInv'
  <2>1. Head(stack) = code /\ stack # << >>
    BY <1>1 DEF After, At
  <2>2. stats \in Seq(Stat \cup FunDef)
    BY TypeIs DEF TypeInv, TreeOK
  <2>3. PICK e : e = IF code = "filep:add_stat" THEN node ELSE fun
    OBVIOUS
  <2>4. e \in Stat \cup FunDef /\ (e.type = "PROGRAM_FUNDEF" => Emptied(e))
    <3>1. CASE code = "filep:add_stat"
      <4>1. node \in Stat
        BY <2>1, <3>1, HeadNeeds DEF NeedsNode
      <4>. QED
        BY <2>3, <3>1, <4>1 DEF Stat, VarDecl
    <3>2. CASE code = "filep:add_fundef"
      BY <2>1, <2>3, <3>2, FunEmptied DEF NeedsFun
    <3>. QED
      BY <1>1, <3>1, <3>2
  <2>5. ListEmptied(Append(stats, e))
    <3>1. ASSUME NEW i \in 1..Len(Append(stats, e)),
                 Append(stats, e)[i].type = "PROGRAM_FUNDEF"
          PROVE  Emptied(Append(stats, e)[i])
      <4>1. CASE i \in 1..Len(stats)
        <5>1. Append(stats, e)[i] = stats[i]
          BY <2>2, <4>1
        <5>. QED
          BY <3>1, <4>1, <5>1 DEF LostInv, ListEmptied
      <4>2. CASE i \notin 1..Len(stats)
        <5>1. Append(stats, e)[i] = e
          BY <2>2, <4>2
        <5>. QED
          BY <2>4, <3>1, <5>1
      <4>. QED
        BY <4>1, <4>2
    <3>. QED
      BY <3>1 DEF ListEmptied
  <2>. QED
    BY <1>1, <2>3, <2>5 DEF LostInv
<1>. QED
  BY <1>1, CaseEmptied, StopEmptied DEF filep

LEMMA LostInvKept ==
  ASSUME TypeInv, LostInv, [Next]_vars
  PROVE  LostInv'
<1>1. CASE Next
  BY <1>1, PlainEmptied, FlagsEmptied, ArgumentsEmptied, FilepEmptied DEF Next
<1>2. CASE UNCHANGED vars
  BY <1>2, SameEmptied DEF vars, tree
<1>. QED
  BY <1>1, <1>2

-----------------------------------------------------------------------------
\* What the property says of a definition
FunctionExact(f) ==
  LET parameters == Parameters(f)
      defaults == {p \in parameters : tokens[p + 1] = "ASSIGN"}
      named == {f.args[k] : k \in DOMAIN f.args} \ {0}
  IN  /\ Len(f.args) + f.dropped = Cardinality(parameters)
      /\ Emptied(f)
      /\ f.min_args_count = Cardinality(parameters \ defaults) % 2^ArgBits
      /\ f.dropped = 0 =>
           /\ parameters \ defaults \subseteq named
           /\ named \subseteq parameters
           /\ defaults # {} => Cardinality(named) = f.min_args_count + 1
      /\ \A j, k \in DOMAIN f.args :
           j < k /\ f.args[k] # 0 => f.args[j] < f.args[k] /\ f.args[j] # 0

LEMMA ListedIsExact ==
  ASSUME NEW f \in FunDef, IsFiniteSet(Parameters(f)), Listed(tokens, f, Parameters(f), 0),
         Emptied(f)
  PROVE  FunctionExact(f)
<1>. DEFINE N == Parameters(f)
            D == Defaulted(tokens, N)
            M == N \ D
            count == Cardinality(M)
            named == Listing(f)
<1>0. ArgsTyped(f)
  BY DefIs
<1>1. f.args \in Seq(Nat) /\ Len(f.args) \in Nat /\ DOMAIN f.args = 1..Len(f.args)
  BY <1>0 DEF ArgsTyped
<1>2. D = {p \in N : tokens[p + 1] = "ASSIGN"}
      /\ named = {f.args[k] : k \in DOMAIN f.args} \ {0}
  BY <1>1 DEF Defaulted, Listing
<1>3. count \in Nat
  <2>1. IsFiniteSet(M)
    BY FS_Difference
  <2>. HIDE DEF M
  <2>. QED
    BY <2>1, FS_CardinalityType
<1>4. Cardinality(named) <= Len(f.args) /\ Cardinality(named) \in Nat
  BY <1>1, ListingSmall
<1>5. /\ Len(f.args) <= MaxArgs
      /\ Len(f.args) + f.dropped = Cardinality(N)
      /\ f.min_args_count = (count - 0) % (2^ArgBits)
      /\ named \subseteq N
      /\ f.dropped = 0 => M \subseteq named
      /\ f.dropped = 0 /\ D # {} => Cardinality(named) = count + 1
      /\ InSequence(f)
  BY DEF Listed
<1>. HIDE DEF N, D, M, count, named
<1>6. f.min_args_count = count % (2^ArgBits)
  BY <1>3, <1>5
<1>7. ASSUME f.dropped = 0, D # {}
      PROVE  Cardinality(named) = f.min_args_count + 1
  <2>1. Cardinality(named) = count + 1
    BY <1>5, <1>7
  <2>2. count < 2^ArgBits
    BY <1>1, <1>3, <1>4, <1>5, <2>1, ModulusIs
  <2>3. count % (2^ArgBits) = count
    BY <1>3, <2>2, ModulusIs
  <2>. QED
    BY <1>6, <2>1, <2>3
<1>8. \A j, k \in DOMAIN f.args :
        j < k /\ f.args[k] # 0 => f.args[j] < f.args[k] /\ f.args[j] # 0
  BY <1>1, <1>5 DEF InSequence
<1>. QED
  BY <1>2, <1>5, <1>6, <1>7, <1>8 DEF FunctionExact, N, D, M, count, named

LEMMA DefinitionIsExact ==
  ASSUME NEW f \in FunDef, tokens \in Seq(Tag), ArgsRead(tokens, f), Emptied(f)
  PROVE  FunctionExact(f)
<1>0. f.name \in Nat /\ Len(tokens) \in Nat
  BY DefIs
<1>1. PICK c \in f.name + 2..(Len(tokens) - 1) :
        Within(tokens, f.name, c - 1) /\ Nest(tokens, c) = 0 /\ Complete(tokens, f, c)
  BY DEF ArgsRead
<1>2. Parameters(f) = IF c = f.name + 2 THEN {} ELSE NamesTo(tokens, f.name, c)
  BY <1>0, <1>1, ParametersAre
<1>3. IsFiniteSet(Parameters(f)) /\ Listed(tokens, f, Parameters(f), 0)
  <2>1. CASE c = f.name + 2
    <3>1. Fresh(f)
      BY <1>1, <2>1 DEF Complete
    <3>2. IsFiniteSet({})
      BY FS_EmptySet
    <3>. QED
      BY <1>2, <2>1, <3>1, <3>2, ListedNone
  <2>2. CASE c # f.name + 2
    <3>1. Listed(tokens, f, NamesTo(tokens, f.name, c), 0)
      BY <1>1, <2>2 DEF Complete
    <3>2. IsFiniteSet(NamesTo(tokens, f.name, c))
      <4>1. c \in Nat /\ f.name < c
        BY <1>0
      <4>. QED
        BY <1>0, <4>1, NamesAre
    <3>. QED
      BY <1>2, <2>2, <3>1, <3>2
  <2>. QED
    BY <2>1, <2>2
<1>. QED
  BY <1>3, ListedIsExact

LEMMA ArgsAreExact ==
  ASSUME TypeInv, ArgsInv, LostInv
  PROVE  ArgsExact
<1>. SUFFICES ASSUME mismatch = 0, NEW i \in DOMAIN stats, stats[i].type = "PROGRAM_FUNDEF"
              PROVE  FunctionExact(stats[i])
  BY DEF ArgsExact, FunctionExact, Emptied
<1>1. stats \in Seq(Stat \cup FunDef) /\ tokens \in Seq(Tag)
  <2>1. tokens \in Seq(Tag \ {"EOF"})
    BY TypeIs DEF TypeInv
  <2>. QED
    BY <2>1, TypeIs DEF TypeInv, TreeOK
<1>2. i \in 1..Len(stats) /\ stats[i] \in Stat \cup FunDef
  BY <1>1
<1>3. stats[i] \notin Stat
  BY DEF Stat, VarDecl
<1>4. ArgsRead(tokens, stats[i])
  BY <1>2 DEF ArgsInv, ListReads
<1>5. Emptied(stats[i])
  BY <1>2 DEF LostInv, ListEmptied
<1>. QED
  BY <1>1, <1>2, <1>3, <1>4, <1>5, DefinitionIsExact

\* Every definition of the file has the arguments of its text, for every text
\* without an error, whatever the defaults are, however their calls are nested
\* and whenever memory runs out: each is in the list, which has them in order,
\* was refused by al_add, or was lost with the whole list, in which none is then
\* left; min_args_count is how many have no default, modulo the width of u1; and
\* only those after the first default are not in the list by name.
THEOREM ArgumentsCorrect == Spec => []ArgsExact
<1>1. Init => TreeInv /\ HasInv /\ NestInv /\ ArgsInv /\ LostInv
  BY TreeInvInit, HasInvInit, NestInvInit, ArgsInvInit, LostInvInit
<1>2. /\ TypeInv /\ TypeInv' /\ TreeInv /\ HasInv /\ NestInv /\ ArgsInv /\ LostInv
      /\ [Next]_vars
      => TreeInv' /\ HasInv' /\ NestInv' /\ ArgsInv' /\ LostInv'
  BY TreeInvKept, HasInvKept, NestInvKept, ArgsInvKept, LostInvKept DEF Basis
<1>3. TypeInv /\ ArgsInv /\ LostInv => ArgsExact
  BY ArgsAreExact
<1>. QED
  BY <1>1, <1>2, <1>3, TypeInvHolds, PTL DEF Spec

=============================================================================
