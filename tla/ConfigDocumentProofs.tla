------------------------ MODULE ConfigDocumentProofs ------------------------
(***************************************************************************)
(* What a save of a document does to references, for any profiles, values, *)
(* variables, environments and any number of edits, saves and writes of     *)
(* other programs.                                                          *)
(*                                                                          *)
(* The invariant relates the document to the source it was last in step     *)
(* with: what it tracks is what the source has (Provenance), its baseline   *)
(* is what the source resolves to, no edited value is itself a reference    *)
(* that resolves (Plain), and a document that passed the checks keeps what  *)
(* they established until it is written and verified (Checked).             *)
(***************************************************************************)
EXTENDS ConfigDocument, TLAPS

FilesOK ==
    /\ files \in [Path -> File \cup {None}]
    /\ \A p \in Path : files[p] # None => WellFormed(files[p].text)

DocOK ==
    /\ doc \in Document
    /\ WellFormed(doc.config)
    /\ loaded \in Table /\ raced \in BOOLEAN
    /\ edits \in 0..MaxEdits /\ others \in 0..MaxOthers

\* No reference among the values but those that stayed unresolved.
PlainTable(env, t) == \A s \in Slot : t[s] \in Var => env[t[s]] = None

Resolves(d) == \A s \in Slot : d.snapshot[s] = Resolve(d.env, SourceText(d)[s])

Tracks(d) ==
    \A s \in Slot :
        /\ d.references[s] # None => SourceText(d)[s] = d.references[s]
        /\ \A v \in Var : SourceText(d)[s] = v /\ d.env[v] # None => d.references[s] = v

Origins(d, t) == \A s \in Slot : t[s] \in Var => Resolve(d.env, t[s]) \in d.origins

Checked ==
    /\ doc.pc \in {"checked", "written"} => ~Ambiguous(doc)
    /\ doc.pc = "checked" /\ ~raced =>
          files[doc.destination] = IF doc.destination = doc.path THEN doc.source ELSE None

DocInv(d, t) == PlainTable(d.env, d.config) /\ Resolves(d) /\ Tracks(d) /\ Origins(d, t)

IInv == FilesOK /\ DocOK /\ DocInv(doc, loaded) /\ Checked

-----------------------------------------------------------------------------
(* Tables and references.                                                  *)

LEMMA SlotFacts ==
    /\ Default \in Slot
    /\ \A p \in Profile : Key(p) \in Slot /\ Tags(p) \subseteq Slot
    /\ \A p \in Profile : <<p, "tag1">> \in Slot /\ <<p, "tag2">> \in Slot
    /\ \A s \in Slot : s[1] \in Profile => s[2] \in {"key", "tag1", "tag2"} /\ s = <<s[1], s[2]>>
    /\ \A s \in Slot : s = Default \/ s[1] \in Profile
    /\ Default[1] \notin Profile
  BY DocumentAssumption DEF Slot, Default, Key, Tags

LEMMA WellFormedFacts ==
    ASSUME NEW t
    PROVE  WellFormed(t) <=>
             \A q \in Profile :
                /\ t[<<q, "key">>] = None => t[<<q, "tag1">>] = None /\ t[<<q, "tag2">>] = None
                /\ t[<<q, "tag1">>] = None => t[<<q, "tag2">>] = None
  BY DEF WellFormed, Key, Tags

\* The slots of the profiles and the default are all different.
LEMMA SlotsDiffer ==
    ASSUME NEW p \in Profile, NEW q \in Profile
    PROVE  /\ <<p, "key">> # <<q, "tag1">> /\ <<p, "key">> # <<q, "tag2">> /\ <<p, "tag1">> # <<q, "tag2">>
           /\ \A x, y : p # q => <<p, x>> # <<q, y>>
           /\ \A x : Default # <<p, x>>
  BY DocumentAssumption DEF Default

\* A resolved text is a value, or a reference whose variable is not set.
LEMMA ResolveFacts ==
    ASSUME NEW env \in [Var -> Value \cup {None}], NEW t \in Text \cup {None}
    PROVE  /\ Resolve(env, t) \in Text \cup {None}
           /\ Resolve(env, t) = None <=> t = None
           /\ Resolve(env, t) \in Var => env[Resolve(env, t)] = None
           /\ (t \in Var => env[t] = None) => Resolve(env, t) = t
  BY DocumentAssumption DEF Resolve, Text

LEMMA EmptyFacts == Empty \in Table /\ WellFormed(Empty) /\ \A env : PlainTable(env, Empty)
  BY DocumentAssumption, SlotFacts DEF Empty, Table, WellFormed, PlainTable, Text

LEMMA SourceTextType ==
    ASSUME NEW d \in Document
    PROVE  SourceText(d) \in Table
  BY EmptyFacts DEF Document, SourceText, File

LEMMA SourcesFacts == Sources \subseteq Table /\ \A t \in Sources : WellFormed(t)
  BY DocumentAssumption

-----------------------------------------------------------------------------

LEMMA InitInv == Init => IInv
<1> SUFFICES ASSUME Init PROVE IInv
  OBVIOUS
<1> USE DocumentAssumption DEF Init
<1>1. FilesOK
  <2>1. PICK f \in {[text |-> t, inode |-> 1] : t \in Sources} \cup {None} :
            files = [p \in Path |-> IF p = Home THEN f ELSE None]
    OBVIOUS
  <2>2. f \in File \cup {None} /\ (f # None => WellFormed(f.text))
    BY SourcesFacts DEF File, Inode
  <2>3. QED
    BY <2>1, <2>2 DEF FilesOK
<1>2. Closed \in Document
  BY EmptyFacts DEF Closed, Document
<1>3. DocOK
  <2>1. doc.config = Empty
    BY DEF Closed
  <2>2. 0 \in 0..MaxEdits /\ 0 \in 0..MaxOthers
    OBVIOUS
  <2>3. QED
    BY <1>2, <2>1, <2>2, EmptyFacts DEF DocOK
<1>4. DocInv(doc, loaded)
  BY EmptyFacts DEF DocInv, Closed, PlainTable, Resolves, Tracks, Origins, SourceText, Empty, Resolve, Text
<1>5. Checked
  BY DEF Checked, Closed
<1>6. QED
  BY <1>1, <1>3, <1>4, <1>5 DEF IInv

LEMMA LoadInv == IInv /\ Load => IInv'
<1> SUFFICES ASSUME IInv, Load PROVE IInv'
  OBVIOUS
<1> USE DocumentAssumption
<1>1. PICK env \in Envs :
         LET text == IF files[Home] = None THEN Empty ELSE files[Home].text
             config == [s \in Slot |-> Resolve(env, text[s])]
         IN  /\ doc' = [Closed EXCEPT
                          !.pc = "open", !.env = env, !.source = files[Home],
                          !.config = config, !.snapshot = config,
                          !.references = [s \in Slot |-> IF text[s] \in Var THEN text[s] ELSE None],
                          !.origins = {config[s] : s \in {r \in Slot : text[r] \in Var}}]
             /\ loaded' = text
  BY DEF Load
<1> DEFINE text == IF files[Home] = None THEN Empty ELSE files[Home].text
           config == [s \in Slot |-> Resolve(env, text[s])]
<1>2. env \in [Var -> Value \cup {None}]
  OBVIOUS
<1>3. text \in Table /\ WellFormed(text)
  BY EmptyFacts DEF IInv, FilesOK, File
<1>4. config \in Table /\ WellFormed(config) /\ PlainTable(env, config)
  <2>1. \A s \in Slot : text[s] \in Text \cup {None}
    BY <1>3 DEF Table
  <2>2. config \in Table
    BY <2>1, <1>2, ResolveFacts DEF Table
  <2>3. \A s \in Slot : config[s] = None <=> text[s] = None
    BY <2>1, <1>2, ResolveFacts
  <2>4. WellFormed(config)
    BY <2>3, <1>3, SlotFacts DEF WellFormed
  <2>5. PlainTable(env, config)
    BY <2>1, <1>2, ResolveFacts DEF PlainTable
  <2>6. QED
    BY <2>2, <2>4, <2>5
<1> DEFINE references == [s \in Slot |-> IF text[s] \in Var THEN text[s] ELSE None]
           origins == {config[s] : s \in {r \in Slot : text[r] \in Var}}
<1>5. references \in [Slot -> Var \cup {None}] /\ origins \in SUBSET Text
  <2>1. \A s \in Slot : text[s] \in Var => config[s] \in Text
    BY <1>3, <1>2, ResolveFacts DEF Table, Text
  <2>2. QED
    BY <2>1
<1>6. files[Home] \in File \cup {None}
  BY DEF IInv, FilesOK
<1>7. doc' = [pc |-> "open", env |-> env, config |-> config, snapshot |-> config,
              source |-> files[Home], path |-> Home, destination |-> Home,
              references |-> references, allowed |-> {}, origins |-> origins]
  BY <1>1 DEF Closed
<1> HIDE DEF text, config, references, origins
<1>8. doc' \in Document
  BY <1>7, <1>2, <1>4, <1>5, <1>6 DEF Document
<1>9. UNCHANGED <<files, raced, edits, others>> /\ loaded' = text
  BY <1>1 DEF Load, text
<1>10. FilesOK'
  BY <1>9 DEF IInv, FilesOK
<1>11. DocOK'
  BY <1>7, <1>8, <1>9, <1>4, <1>3 DEF IInv, DocOK
<1>12. SourceText(doc') = text
  BY <1>7 DEF SourceText, text
<1>13. Resolves(doc')
  BY <1>7, <1>12 DEF Resolves, config
<1>14. Tracks(doc')
  BY <1>7, <1>12 DEF Tracks, references
<1>15. Origins(doc', text)
  BY <1>7 DEF Origins, origins, config
<1>16. DocInv(doc, loaded)'
  BY <1>7, <1>9, <1>13, <1>14, <1>15, <1>4 DEF DocInv
<1>17. Checked'
  BY <1>7 DEF Checked
<1>18. QED
  BY <1>10, <1>11, <1>16, <1>17 DEF IInv

\* An edit changes values to values, and declares slots.
LEMMA EditInv ==
    ASSUME IInv, NEW config \in Table, NEW allow \in SUBSET Slot, WellFormed(config),
           PlainTable(doc.env, config), Edit(config, allow)
    PROVE  IInv'
<1>1. doc' = [doc EXCEPT !.config = config, !.allowed = doc.allowed \cup allow] /\ doc.pc = "open"
  BY DEF Edit
<1>2. /\ doc \in Document
      /\ UNCHANGED <<files, loaded, raced, others>>
      /\ edits < MaxEdits /\ edits' = edits + 1
  BY DEF IInv, DocOK, Edit
<1>3. doc' \in Document /\ doc'.config = config /\ doc'.pc = "open"
  BY <1>1, <1>2 DEF Document
<1>4. /\ doc'.env = doc.env /\ doc'.snapshot = doc.snapshot /\ doc'.source = doc.source
      /\ doc'.references = doc.references /\ doc'.origins = doc.origins
  BY <1>1, <1>2 DEF Document
<1>5. FilesOK'
  BY <1>2 DEF IInv, FilesOK
<1>6. DocOK'
  <2>1. edits' \in 0..MaxEdits
    BY <1>2, DocumentAssumption DEF IInv, DocOK
  <2>2. QED
    BY <2>1, <1>2, <1>3 DEF IInv, DocOK
<1>7. SourceText(doc') = SourceText(doc)
  BY <1>4 DEF SourceText
<1>8. DocInv(doc, loaded)'
  BY <1>2, <1>3, <1>4, <1>7 DEF IInv, DocInv, Resolves, Tracks, Origins
<1>9. Checked'
  BY <1>3 DEF Checked
<1>10. QED
  BY <1>5, <1>6, <1>8, <1>9 DEF IInv

LEMMA EditAnyInv == IInv /\ EditAny => IInv'
<1> SUFFICES ASSUME IInv, EditAny PROVE IInv'
  OBVIOUS
<1> USE DocumentAssumption, SlotFacts
<1>1. /\ doc.config \in Table /\ WellFormed(doc.config) /\ PlainTable(doc.env, doc.config)
      /\ None \notin Var /\ None \notin Value /\ Value \cap Var = {} /\ Profile \subseteq Value
  BY DEF IInv, DocOK, DocInv, Document, Text
<1>2. ASSUME NEW p \in Profile, NEW v \in Value, NEW makeDefault \in BOOLEAN, Create(p, v, makeDefault)
      PROVE  IInv'
  <2> DEFINE one == [doc.config EXCEPT ![Key(p)] = v]
             two == [doc.config EXCEPT ![Key(p)] = v, ![Default] = p]
  <2>1. one \in Table /\ two \in Table
    BY <1>1 DEF Table, Text
  <2>2. WellFormed(one) /\ WellFormed(two)
    <3>1. WellFormed(one)
      <4> SUFFICES ASSUME NEW q \in Profile
                   PROVE  /\ one[<<q, "key">>] = None => one[<<q, "tag1">>] = None /\ one[<<q, "tag2">>] = None
                          /\ one[<<q, "tag1">>] = None => one[<<q, "tag2">>] = None
        BY WellFormedFacts
      <4>1. CASE q = p
        BY <1>1, <4>1, WellFormedFacts, SlotsDiffer DEF Table, Key
      <4>2. CASE q # p
        BY <1>1, <4>2, WellFormedFacts, SlotsDiffer DEF Table, Key
      <4>3. QED
        BY <4>1, <4>2
    <3>2. WellFormed(two)
      <4> SUFFICES ASSUME NEW q \in Profile
                   PROVE  /\ two[<<q, "key">>] = None => two[<<q, "tag1">>] = None /\ two[<<q, "tag2">>] = None
                          /\ two[<<q, "tag1">>] = None => two[<<q, "tag2">>] = None
        BY WellFormedFacts
      <4>1. CASE q = p
        BY <1>1, <4>1, WellFormedFacts, SlotsDiffer DEF Table, Key
      <4>2. CASE q # p
        BY <1>1, <4>2, WellFormedFacts, SlotsDiffer DEF Table, Key
      <4>3. QED
        BY <4>1, <4>2
    <3>3. QED
      BY <3>1, <3>2
  <2>3. PlainTable(doc.env, one) /\ PlainTable(doc.env, two)
    BY <1>1 DEF PlainTable, Table
  <2>4. Edit(one, {Key(p)}) \/ Edit(two, {Key(p), Default})
    BY <1>2 DEF Create
  <2> HIDE DEF one, two
  <2>5. QED
    BY <2>1, <2>2, <2>3, <2>4, EditInv
<1>3. ASSUME NEW p \in Profile, NEW v \in Value, Wizard(p, v)
      PROVE  IInv'
  <2> DEFINE one == [s \in Slot |-> IF s[1] # p THEN doc.config[s] ELSE IF s = Key(p) THEN v ELSE None]
             two == [one EXCEPT ![Default] = p]
  <2>1. one \in Table /\ two \in Table
    BY <1>1 DEF Table, Text
  <2>2. WellFormed(one) /\ WellFormed(two)
    <3>1. WellFormed(one)
      <4> SUFFICES ASSUME NEW q \in Profile
                   PROVE  /\ one[<<q, "key">>] = None => one[<<q, "tag1">>] = None /\ one[<<q, "tag2">>] = None
                          /\ one[<<q, "tag1">>] = None => one[<<q, "tag2">>] = None
        BY WellFormedFacts
      <4>1. CASE q = p
        BY <1>1, <4>1, WellFormedFacts, SlotsDiffer DEF Table, Key
      <4>2. CASE q # p
        BY <1>1, <4>2, WellFormedFacts, SlotsDiffer DEF Table, Key
      <4>3. QED
        BY <4>1, <4>2
    <3>2. WellFormed(two)
      <4> SUFFICES ASSUME NEW q \in Profile
                   PROVE  /\ two[<<q, "key">>] = None => two[<<q, "tag1">>] = None /\ two[<<q, "tag2">>] = None
                          /\ two[<<q, "tag1">>] = None => two[<<q, "tag2">>] = None
        BY WellFormedFacts
      <4>1. CASE q = p
        BY <1>1, <4>1, WellFormedFacts, SlotsDiffer DEF Table, Key
      <4>2. CASE q # p
        BY <1>1, <4>2, WellFormedFacts, SlotsDiffer DEF Table, Key
      <4>3. QED
        BY <4>1, <4>2
    <3>3. QED
      BY <3>1, <3>2
  <2>3. PlainTable(doc.env, one) /\ PlainTable(doc.env, two)
    BY <1>1 DEF PlainTable, Table
  <2>4. Edit(one, {Key(p)} \cup Tags(p)) \/ Edit(two, {Key(p), Default} \cup Tags(p))
    BY <1>3 DEF Wizard
  <2> HIDE DEF one, two
  <2>5. QED
    BY <2>1, <2>2, <2>3, <2>4, EditInv
<1>4. ASSUME NEW p \in Profile, NEW v \in Value, NEW tag \in Value \cup {None}, Set(p, v, tag)
      PROVE  IInv'
  <2> DEFINE one == [doc.config EXCEPT ![Key(p)] = v]
             two == [doc.config EXCEPT ![Key(p)] = v, ![<<p, "tag1">>] = tag, ![<<p, "tag2">>] = None]
  <2>1. one \in Table /\ two \in Table
    BY <1>1 DEF Table, Text
  <2>2. WellFormed(one) /\ WellFormed(two)
    <3>1. WellFormed(one)
      <4> SUFFICES ASSUME NEW q \in Profile
                   PROVE  /\ one[<<q, "key">>] = None => one[<<q, "tag1">>] = None /\ one[<<q, "tag2">>] = None
                          /\ one[<<q, "tag1">>] = None => one[<<q, "tag2">>] = None
        BY WellFormedFacts
      <4>1. CASE q = p
        BY <1>1, <4>1, WellFormedFacts, SlotsDiffer DEF Table, Key
      <4>2. CASE q # p
        BY <1>1, <4>2, WellFormedFacts, SlotsDiffer DEF Table, Key
      <4>3. QED
        BY <4>1, <4>2
    <3>2. WellFormed(two)
      <4> SUFFICES ASSUME NEW q \in Profile
                   PROVE  /\ two[<<q, "key">>] = None => two[<<q, "tag1">>] = None /\ two[<<q, "tag2">>] = None
                          /\ two[<<q, "tag1">>] = None => two[<<q, "tag2">>] = None
        BY WellFormedFacts
      <4>1. CASE q = p
        BY <1>1, <4>1, WellFormedFacts, SlotsDiffer DEF Table, Key
      <4>2. CASE q # p
        BY <1>1, <4>2, WellFormedFacts, SlotsDiffer DEF Table, Key
      <4>3. QED
        BY <4>1, <4>2
    <3>3. QED
      BY <3>1, <3>2
  <2>3. PlainTable(doc.env, one) /\ PlainTable(doc.env, two)
    BY <1>1 DEF PlainTable, Table
  <2>4. Edit(one, {Key(p)}) \/ Edit(two, {Key(p)} \cup Tags(p))
    BY <1>4 DEF Set
  <2> HIDE DEF one, two
  <2>5. QED
    BY <2>1, <2>2, <2>3, <2>4, EditInv
<1>5. ASSUME NEW p \in Profile, Remove(p)
      PROVE  IInv'
  <2> DEFINE one == [s \in Slot |->
                       IF s[1] = p \/ (s = Default /\ doc.config[Default] = p) THEN None ELSE doc.config[s]]
  <2>1. one \in Table /\ PlainTable(doc.env, one)
    BY <1>1 DEF Table, PlainTable
  <2>2. WellFormed(one)
    <3> SUFFICES ASSUME NEW r \in Profile
                 PROVE  /\ one[<<r, "key">>] = None => one[<<r, "tag1">>] = None /\ one[<<r, "tag2">>] = None
                        /\ one[<<r, "tag1">>] = None => one[<<r, "tag2">>] = None
      BY WellFormedFacts
    <3>1. /\ one[<<r, "key">>] = IF r = p THEN None ELSE doc.config[<<r, "key">>]
          /\ one[<<r, "tag1">>] = IF r = p THEN None ELSE doc.config[<<r, "tag1">>]
          /\ one[<<r, "tag2">>] = IF r = p THEN None ELSE doc.config[<<r, "tag2">>]
      <4>1. /\ <<r, "key">> \in Slot /\ <<r, "tag1">> \in Slot /\ <<r, "tag2">> \in Slot
            /\ Default # <<r, "key">> /\ Default # <<r, "tag1">> /\ Default # <<r, "tag2">>
        BY SlotsDiffer DEF Key
      <4>2. QED
        BY <4>1
    <3>2. QED
      BY <3>1, <1>1, WellFormedFacts
  <2>3. Edit(one, {})
    BY <1>5 DEF Remove
  <2> HIDE DEF one
  <2>4. QED
    BY <2>1, <2>2, <2>3, EditInv
<1>6. ASSUME NEW p \in Profile, SetDefault(p)
      PROVE  IInv'
  <2> DEFINE one == [doc.config EXCEPT ![Default] = p]
  <2>1. one \in Table /\ PlainTable(doc.env, one)
    BY <1>1 DEF Table, PlainTable, Text
  <2>2. WellFormed(one)
    <3> SUFFICES ASSUME NEW r \in Profile
                 PROVE  /\ one[<<r, "key">>] = None => one[<<r, "tag1">>] = None /\ one[<<r, "tag2">>] = None
                        /\ one[<<r, "tag1">>] = None => one[<<r, "tag2">>] = None
      BY WellFormedFacts
    <3>1. CASE r = p
      BY <1>1, <3>1, WellFormedFacts, SlotsDiffer DEF Table
    <3>2. CASE r # p
      BY <1>1, <3>2, WellFormedFacts, SlotsDiffer DEF Table
    <3>3. QED
      BY <3>1, <3>2
  <2>3. Edit(one, {Default})
    BY <1>6 DEF SetDefault
  <2> HIDE DEF one
  <2>4. QED
    BY <2>1, <2>2, <2>3, EditInv
<1>7. ASSUME NEW p \in Profile, DropTag(p)
      PROVE  IInv'
  <2> DEFINE one == [doc.config EXCEPT ![<<p, "tag1">>] = doc.config[<<p, "tag2">>], ![<<p, "tag2">>] = None]
  <2>1. one \in Table /\ PlainTable(doc.env, one)
    BY <1>1 DEF Table, PlainTable
  <2>2. WellFormed(one)
    <3> SUFFICES ASSUME NEW q \in Profile
                 PROVE  /\ one[<<q, "key">>] = None => one[<<q, "tag1">>] = None /\ one[<<q, "tag2">>] = None
                        /\ one[<<q, "tag1">>] = None => one[<<q, "tag2">>] = None
      BY WellFormedFacts
    <3>1. CASE q = p
      BY <1>1, <3>1, WellFormedFacts, SlotsDiffer DEF Table, Key
    <3>2. CASE q # p
      BY <1>1, <3>2, WellFormedFacts, SlotsDiffer DEF Table, Key
    <3>3. QED
      BY <3>1, <3>2
  <2>3. Edit(one, {})
    BY <1>7 DEF DropTag
  <2> HIDE DEF one
  <2>4. QED
    BY <2>1, <2>2, <2>3, EditInv
<1>8. ASSUME NEW s \in Slot, NEW v \in Value, Change(s, v)
      PROVE  IInv'
  <2> DEFINE one == [doc.config EXCEPT ![s] = v]
  <2>1. one \in Table /\ PlainTable(doc.env, one)
    BY <1>1 DEF Table, PlainTable, Text
  <2>2. WellFormed(one)
    <3>1. \A r \in Slot : one[r] = None <=> doc.config[r] = None
      BY <1>1, <1>8 DEF Table, Change
    <3>2. QED
      BY <3>1, <1>1 DEF WellFormed
  <2>3. Edit(one, {})
    BY <1>8 DEF Change
  <2> HIDE DEF one
  <2>4. QED
    BY <2>1, <2>2, <2>3, EditInv
<1>9. ASSUME NEW p \in Profile, NEW q \in Profile, Copy(p, q)
      PROVE  IInv'
  <2> DEFINE one == [s \in Slot |-> IF s[1] = q THEN doc.config[<<p, s[2]>>] ELSE doc.config[s]]
  <2>1. \A s \in Slot : s[1] = q => <<p, s[2]>> \in Slot
    BY DEF Slot
  <2>2. one \in Table /\ PlainTable(doc.env, one)
    BY <1>1, <2>1 DEF Table, PlainTable
  <2>3. WellFormed(one)
    <3> SUFFICES ASSUME NEW r \in Profile
                 PROVE  /\ one[<<r, "key">>] = None => one[<<r, "tag1">>] = None /\ one[<<r, "tag2">>] = None
                        /\ one[<<r, "tag1">>] = None => one[<<r, "tag2">>] = None
      BY WellFormedFacts
    <3>1. /\ one[<<r, "key">>] = IF r = q THEN doc.config[<<p, "key">>] ELSE doc.config[<<r, "key">>]
          /\ one[<<r, "tag1">>] = IF r = q THEN doc.config[<<p, "tag1">>] ELSE doc.config[<<r, "tag1">>]
          /\ one[<<r, "tag2">>] = IF r = q THEN doc.config[<<p, "tag2">>] ELSE doc.config[<<r, "tag2">>]
      <4>1. <<r, "key">> \in Slot /\ <<r, "tag1">> \in Slot /\ <<r, "tag2">> \in Slot
        BY DEF Key
      <4>2. QED
        BY <4>1
    <3>2. QED
      BY <3>1, <1>1, WellFormedFacts
  <2>4. Edit(one, {})
    BY <1>9 DEF Copy
  <2> HIDE DEF one
  <2>5. QED
    BY <2>2, <2>3, <2>4, EditInv
<1>10. ASSUME NEW s \in Slot, AllowLiteralReplacement(s)
       PROVE  IInv'
  BY <1>1, <1>10, EditInv DEF AllowLiteralReplacement
<1>11. QED
  BY <1>2, <1>3, <1>4, <1>5, <1>6, <1>7, <1>8, <1>9, <1>10 DEF EditAny
-----------------------------------------------------------------------------
(* A save.                                                                  *)

\* What is written is a table a file may hold, with a value where the document has one.
LEMMA SerializedFacts ==
    ASSUME NEW d \in Document, WellFormed(d.config)
    PROVE  /\ Serialized(d) \in Table /\ WellFormed(Serialized(d))
           /\ \A s \in Slot : Serialized(d)[s] = IF Tracked(d, s) /\ d.config[s] # None
                                                THEN d.references[s] ELSE d.config[s]
<1>1. \A s \in Slot : Serialized(d)[s] = IF Tracked(d, s) /\ d.config[s] # None
                                         THEN d.references[s] ELSE d.config[s]
  BY DEF Serialized
<1>2. Serialized(d) \in Table
  <2>1. \A s \in Slot : Serialized(d)[s] \in Text \cup {None}
    BY <1>1 DEF Document, Table, Text, Tracked
  <2>2. QED
    BY <2>1 DEF Serialized, Table
<1>3. \A s \in Slot : Serialized(d)[s] = None <=> d.config[s] = None
  BY <1>1 DEF Tracked
<1>4. WellFormed(Serialized(d))
  <2>1. \A q \in Profile : <<q, "key">> \in Slot /\ <<q, "tag1">> \in Slot /\ <<q, "tag2">> \in Slot
    BY SlotFacts DEF Key
  <2>2. QED
    BY <1>3, <2>1, WellFormedFacts
<1>5. QED
  BY <1>1, <1>2, <1>4

\* A document that passed the checks holds what the written file resolves to.
LEMMA SerializedResolves ==
    ASSUME NEW d \in Document, ~Ambiguous(d), PlainTable(d.env, d.config), WellFormed(d.config),
           NEW s \in Slot
    PROVE  Resolve(d.env, Serialized(d)[s]) = d.config[s]
<1>1. CASE Tracked(d, s) /\ d.config[s] # None
  <2>1. d.config[s] = Resolve(d.env, d.references[s])
    BY <1>1 DEF Ambiguous, Edited
  <2>2. QED
    BY <1>1, <2>1 DEF Serialized
<1>2. CASE ~(Tracked(d, s) /\ d.config[s] # None)
  BY <1>2 DEF Serialized, Resolve, PlainTable
<1>3. QED
  BY <1>1, <1>2

LEMMA CheckInv == ASSUME IInv, NEW p \in Path, Check(p) PROVE IInv'
<1>1. /\ doc.pc = "open" /\ ~Ambiguous(doc) /\ SourceUnchanged(doc)
      /\ p # doc.path => files[p] = None
      /\ doc' = [doc EXCEPT !.pc = "checked", !.destination = p]
      /\ UNCHANGED <<files, loaded, raced, edits, others>>
  BY DEF Check
<1>2. doc \in Document
  BY DEF IInv, DocOK
<1>3. doc' \in Document /\ doc'.pc = "checked" /\ doc'.destination = p
  BY <1>1, <1>2 DEF Document
<1>4. /\ doc'.env = doc.env /\ doc'.snapshot = doc.snapshot /\ doc'.source = doc.source
      /\ doc'.references = doc.references /\ doc'.origins = doc.origins
      /\ doc'.config = doc.config /\ doc'.path = doc.path /\ doc'.allowed = doc.allowed
  BY <1>1, <1>2 DEF Document
<1>5. FilesOK' /\ DocOK'
  BY <1>1, <1>3, <1>4 DEF IInv, FilesOK, DocOK
<1>6. DocInv(doc, loaded)'
  BY <1>1, <1>4 DEF IInv, DocInv, Resolves, Tracks, Origins, SourceText
<1>7. ~Ambiguous(doc')
  BY <1>1, <1>4 DEF Ambiguous, Copied, Edited, Reshaped, Tracked
<1>8. files'[doc'.destination] = IF doc'.destination = doc'.path THEN doc'.source ELSE None
  BY <1>1, <1>3, <1>4 DEF SourceUnchanged
<1>9. Checked'
  <2>1. (~Ambiguous(doc))'
    BY <1>7 DEF Ambiguous, Copied, Edited, Reshaped, Tracked
  <2>2. QED
    BY <2>1, <1>8 DEF Checked
<1>10. QED
  BY <1>5, <1>6, <1>9 DEF IInv

LEMMA WriteInv == IInv /\ Write => IInv'
<1> SUFFICES ASSUME IInv, Write PROVE IInv'
  OBVIOUS
<1>1. PICK inode \in Inode :
          files' = [files EXCEPT ![doc.destination] = [text |-> Serialized(doc), inode |-> inode]]
  BY DEF Write
<1>2. /\ doc.pc = "checked" /\ doc' = [doc EXCEPT !.pc = "written"] /\ raced' = FALSE
      /\ UNCHANGED <<loaded, edits, others>>
  BY DEF Write
<1>3. doc \in Document /\ WellFormed(doc.config) /\ ~Ambiguous(doc)
  BY <1>2 DEF IInv, DocOK, Checked
<1>4. /\ doc' \in Document /\ doc'.pc = "written"
      /\ doc'.env = doc.env /\ doc'.snapshot = doc.snapshot /\ doc'.source = doc.source
      /\ doc'.references = doc.references /\ doc'.origins = doc.origins
      /\ doc'.config = doc.config /\ doc'.allowed = doc.allowed
  BY <1>2, <1>3 DEF Document
<1>5. FilesOK'
  <2>1. [text |-> Serialized(doc), inode |-> inode] \in File
    BY <1>3, SerializedFacts DEF File
  <2>2. doc.destination \in Path
    BY <1>3 DEF Document
  <2>3. QED
    BY <1>1, <1>3, <2>1, <2>2, SerializedFacts DEF IInv, FilesOK
<1>6. DocOK'
  BY <1>2, <1>4 DEF IInv, DocOK
<1>7. DocInv(doc, loaded)'
  BY <1>2, <1>4 DEF IInv, DocInv, Resolves, Tracks, Origins, SourceText
<1>8. Checked'
  BY <1>3, <1>4 DEF Checked, Ambiguous, Copied, Edited, Reshaped, Tracked
<1>9. QED
  BY <1>5, <1>6, <1>7, <1>8 DEF IInv

LEMMA WriteFailsInv == IInv /\ WriteFails => IInv'
<1> SUFFICES ASSUME IInv, WriteFails PROVE IInv'
  OBVIOUS
<1>1. /\ doc.pc = "checked" /\ doc' = [doc EXCEPT !.pc = "open", !.destination = doc.path]
      /\ raced' = FALSE /\ UNCHANGED <<loaded, edits, others>>
      /\ \/ UNCHANGED files
         \/ /\ files[doc.destination] # None
            /\ files' = [files EXCEPT ![doc.destination].text = Empty]
  BY DEF WriteFails
<1>2. doc \in Document
  BY DEF IInv, DocOK
<1>3. /\ doc' \in Document /\ doc'.pc = "open"
      /\ doc'.env = doc.env /\ doc'.snapshot = doc.snapshot /\ doc'.source = doc.source
      /\ doc'.references = doc.references /\ doc'.origins = doc.origins /\ doc'.config = doc.config
  BY <1>1, <1>2 DEF Document
<1>4. FilesOK'
  <2>1. CASE UNCHANGED files
    BY <2>1 DEF IInv, FilesOK
  <2>2. CASE files[doc.destination] # None /\ files' = [files EXCEPT ![doc.destination].text = Empty]
    <3>1. doc.destination \in Path /\ files \in [Path -> File \cup {None}]
      BY <1>2 DEF Document, IInv, FilesOK
    <3>2. files[doc.destination] \in File
      BY <2>2, <3>1
    <3> DEFINE f == [files[doc.destination] EXCEPT !.text = Empty]
    <3>3. f \in File /\ f.text = Empty
      BY <3>2, EmptyFacts DEF File
    <3>4. files' = [files EXCEPT ![doc.destination] = f]
      BY <2>2, <3>1
    <3> HIDE DEF f
    <3>5. QED
      BY <3>1, <3>3, <3>4, EmptyFacts DEF IInv, FilesOK
  <2>3. QED
    BY <1>1, <2>1, <2>2
<1>5. DocOK'
  BY <1>1, <1>3 DEF IInv, DocOK
<1>6. DocInv(doc, loaded)'
  BY <1>1, <1>3 DEF IInv, DocInv, Resolves, Tracks, Origins, SourceText
<1>7. Checked'
  BY <1>3 DEF Checked
<1>8. QED
  BY <1>4, <1>5, <1>6, <1>7 DEF IInv

LEMMA VerifyInv == IInv /\ Verify => IInv'
<1> SUFFICES ASSUME IInv, Verify PROVE IInv'
  OBVIOUS
<1> DEFINE found == files[doc.destination]
<1>1. /\ doc.pc = "written" /\ UNCHANGED <<files, loaded, raced, edits, others>>
      /\ doc' = IF found # None /\ found.text = Serialized(doc)
                THEN Rebased(doc, found) ELSE [doc EXCEPT !.pc = "open", !.destination = doc.path]
  BY DEF Verify
<1>2. /\ doc \in Document /\ WellFormed(doc.config) /\ ~Ambiguous(doc)
      /\ PlainTable(doc.env, doc.config) /\ DocInv(doc, loaded)
  BY <1>1 DEF IInv, DocOK, DocInv, Checked
<1>3. FilesOK'
  BY <1>1 DEF IInv, FilesOK
<1>4. found \in File \cup {None}
  BY <1>2 DEF Document, IInv, FilesOK
<1> HIDE DEF found
<1>5. CASE ~(found # None /\ found.text = Serialized(doc))
  <2>1. doc' = [doc EXCEPT !.pc = "open", !.destination = doc.path]
    BY <1>1, <1>5
  <2>2. /\ doc' \in Document /\ doc'.pc = "open"
        /\ doc'.env = doc.env /\ doc'.snapshot = doc.snapshot /\ doc'.source = doc.source
        /\ doc'.references = doc.references /\ doc'.origins = doc.origins /\ doc'.config = doc.config
    BY <2>1, <1>2 DEF Document
  <2>3. DocOK' /\ Checked'
    BY <1>1, <2>2 DEF IInv, DocOK, Checked
  <2>4. DocInv(doc, loaded)'
    BY <1>1, <2>2 DEF IInv, DocInv, Resolves, Tracks, Origins, SourceText
  <2>5. QED
    BY <1>3, <2>3, <2>4 DEF IInv
<1>6. CASE found # None /\ found.text = Serialized(doc)
  <2>1. doc' = Rebased(doc, found)
    BY <1>1, <1>6
  <2>2. Retained(doc) \in [Slot -> Var \cup {None}]
    BY <1>2 DEF Retained, Document
  <2>3. /\ doc' \in Document /\ doc'.pc = "open"
        /\ doc'.env = doc.env /\ doc'.snapshot = doc.config /\ doc'.source = found
        /\ doc'.references = Retained(doc) /\ doc'.origins = doc.origins /\ doc'.config = doc.config
    BY <2>1, <2>2, <1>2, <1>4 DEF Document, Rebased
  <2>4. SourceText(doc') = Serialized(doc)
    BY <1>6, <2>3 DEF SourceText
  <2>5. Resolves(doc')
    BY <2>3, <2>4, <1>2, SerializedResolves DEF Resolves
  <2>6. Tracks(doc')
    <3> SUFFICES ASSUME NEW s \in Slot
                 PROVE  /\ Retained(doc)[s] # None => Serialized(doc)[s] = Retained(doc)[s]
                        /\ \A v \in Var : Serialized(doc)[s] = v /\ doc.env[v] # None => Retained(doc)[s] = v
      BY <2>3, <2>4 DEF Tracks
    <3>1. Retained(doc)[s] # None => Serialized(doc)[s] = Retained(doc)[s]
      BY DEF Retained, Serialized, Tracked
    <3>2. ASSUME NEW v \in Var, Serialized(doc)[s] = v, doc.env[v] # None
          PROVE  Retained(doc)[s] = v
      <4>1. Tracked(doc, s) /\ doc.config[s] # None
        BY <3>2, <1>2 DEF Serialized, PlainTable
      <4>2. QED
        BY <3>2, <4>1 DEF Serialized, Retained, Tracked
    <3>3. QED
      BY <3>1, <3>2
  <2>7. DocOK' /\ Checked'
    BY <1>1, <2>3 DEF IInv, DocOK, Checked
  <2>8. DocInv(doc, loaded)'
    BY <1>1, <1>2, <2>3, <2>5, <2>6 DEF DocInv, Origins
  <2>9. QED
    BY <1>3, <2>7, <2>8 DEF IInv
<1>7. QED
  BY <1>5, <1>6

LEMMA ExitInv == IInv /\ Exit => IInv'
<1> SUFFICES ASSUME IInv, Exit PROVE IInv'
  OBVIOUS
<1>1. doc' = Closed /\ loaded' = Empty /\ raced' = FALSE /\ UNCHANGED <<files, edits, others>>
  BY DEF Exit
<1>2. Closed \in Document /\ Closed.config = Empty /\ Closed.pc = "closed"
  BY EmptyFacts, DocumentAssumption DEF Closed, Document
<1>3. FilesOK' /\ DocOK' /\ Checked'
  BY <1>1, <1>2, EmptyFacts DEF IInv, FilesOK, DocOK, Checked
<1>4. DocInv(doc, loaded)'
  BY <1>1, EmptyFacts, DocumentAssumption
  DEF DocInv, Closed, PlainTable, Resolves, Tracks, Origins, SourceText, Empty, Resolve, Text
<1>5. QED
  BY <1>3, <1>4 DEF IInv

LEMMA OtherInv == ASSUME IInv, NEW p \in Path, Other(p) PROVE IInv'
<1>1. PICK f \in [text : Sources, inode : Inode] \cup {None} : files' = [files EXCEPT ![p] = f]
  BY DEF Other
<1>2. /\ others < MaxOthers /\ others' = others + 1 /\ raced' = (doc.pc = "checked")
      /\ UNCHANGED <<doc, loaded, edits>>
  BY DEF Other
<1>3. f \in File \cup {None} /\ (f # None => WellFormed(f.text))
  BY SourcesFacts, DocumentAssumption DEF File
<1>4. FilesOK'
  BY <1>1, <1>3 DEF IInv, FilesOK
<1>5. others' \in 0..MaxOthers
  BY <1>2, DocumentAssumption DEF IInv, DocOK
<1>6. raced' \in BOOLEAN
  BY <1>2
<1>7. DocOK'
  BY <1>2, <1>5, <1>6 DEF IInv, DocOK
<1>8. DocInv(doc, loaded)'
  BY <1>2 DEF IInv, DocInv, Resolves, Tracks, Origins, SourceText
<1>9. Checked'
  BY <1>2 DEF IInv, Checked, Ambiguous, Copied, Edited, Reshaped, Tracked
<1>10. QED
  BY <1>4, <1>7, <1>8, <1>9 DEF IInv

LEMMA StutterInv == IInv /\ UNCHANGED vars => IInv'
  BY DEF IInv, FilesOK, DocOK, DocInv, Resolves, Tracks, Origins, SourceText,
         Checked, Ambiguous, Copied, Edited, Reshaped, Tracked, vars

LEMMA Invariance == Spec => []IInv
<1>1. IInv /\ [Next]_vars => IInv'
  BY LoadInv, ExitInv, EditAnyInv, CheckInv, OtherInv, WriteInv, WriteFailsInv, VerifyInv, StutterInv
  DEF Next
<1>2. QED
  BY InitInv, <1>1, PTL DEF Spec

-----------------------------------------------------------------------------
(* The theorems.                                                            *)

\* Every document and file is of the types of load_from_path and write_with, profiles stay well
\* formed, and no slot keeps a reference to a value the baseline does not have.
THEOREM TypeCorrect == Spec => []TypeOK
<1>1. IInv => TypeOK
  <2> SUFFICES ASSUME IInv PROVE TypeOK
    OBVIOUS
  <2>1. ASSUME NEW s \in Slot, doc.references[s] # None PROVE doc.snapshot[s] # None
    <3>1. SourceText(doc)[s] = doc.references[s]
      BY <2>1 DEF IInv, DocInv, Tracks
    <3>2. doc.snapshot[s] = Resolve(doc.env, SourceText(doc)[s])
      BY DEF IInv, DocInv, Resolves
    <3>3. doc.env \in [Var -> Value \cup {None}] /\ SourceText(doc)[s] \in Text \cup {None}
      BY SourceTextType DEF IInv, DocOK, Document, Table
    <3>4. QED
      BY <2>1, <3>1, <3>2, <3>3, ResolveFacts
  <2>2. QED
    BY <2>1 DEF TypeOK, IInv, FilesOK, DocOK
<1>2. QED
  BY Invariance, <1>1, PTL

\* After any number of saves, what write_with compares with is what the source resolves to.
THEOREM SnapshotCorrect == Spec => []SnapshotAgrees
<1>1. IInv => SnapshotAgrees
  BY DEF IInv, DocInv, Resolves, SnapshotAgrees
<1>2. QED
  BY Invariance, <1>1, PTL

\* A save is the step Write of a document that passed the checks.
LEMMA SaveFacts ==
    ASSUME IInv, [Next]_vars, Saves
    PROVE  /\ doc \in Document /\ WellFormed(doc.config) /\ ~Ambiguous(doc) /\ DocInv(doc, loaded)
           /\ Written = Serialized(doc)
<1>1. doc \in Document /\ WellFormed(doc.config) /\ ~Ambiguous(doc) /\ DocInv(doc, loaded)
  BY DEF Saves, IInv, DocOK, Checked
<1>2. Write
  <2>1. doc.pc = "checked" /\ doc'.pc = "written"
    BY DEF Saves
  <2>2. ~Load /\ ~Verify /\ \A p \in Path : ~Check(p)
    BY <2>1 DEF Load, Check, Verify
  <2>3. ~EditAny
    <3>1. \A config, allow : ~Edit(config, allow)
      BY <2>1 DEF Edit
    <3>2. QED
      BY <3>1 DEF EditAny, Create, Wizard, Set, Remove, SetDefault, DropTag, Change, Copy, AllowLiteralReplacement
  <2>4. ~Exit
    BY <2>1 DEF Exit, Closed
  <2>5. ~UNCHANGED vars /\ \A p \in Path : ~Other(p)
    BY <2>1 DEF vars, Other
  <2>6. ~WriteFails
    <3>1. [doc EXCEPT !.pc = "open", !.destination = doc.path].pc = "open"
      BY <1>1 DEF Document
    <3>2. QED
      BY <2>1, <3>1 DEF WriteFails
  <2>7. QED
    BY <2>2, <2>3, <2>4, <2>5, <2>6 DEF Next
<1>3. doc.destination \in Path /\ files \in [Path -> File \cup {None}]
  BY <1>1 DEF Document, IInv, FilesOK
<1>4. QED
  BY <1>1, <1>2, <1>3 DEF Write, Written

\* References stay where they were and where their values still are, and spring up nowhere else:
\* the guarantee of write_with, for every sequence of edits, saves and writes of other programs.
THEOREM ReferencesAreKept == Spec => ReferencesStay
<1>1. ASSUME IInv, [Next]_vars, Saves, NEW s \in Slot \ doc.allowed, NEW v \in Var, doc.env[v] # None
      PROVE  Written[s] = v <=> SourceText(doc)[s] = v /\ doc.config[s] # None
  <2>1. Written[s] = Serialized(doc)[s] /\ Tracks(doc) /\ PlainTable(doc.env, doc.config)
    BY <1>1, SaveFacts DEF DocInv
  <2>2. v # None
    BY DocumentAssumption DEF Text
  <2>3. ASSUME Written[s] = v PROVE SourceText(doc)[s] = v /\ doc.config[s] # None
    <3>1. Tracked(doc, s) /\ doc.config[s] # None
      BY <1>1, <2>1, <2>3 DEF Serialized, PlainTable
    <3>2. QED
      BY <2>1, <2>3, <3>1 DEF Serialized, Tracks, Tracked
  <2>4. ASSUME SourceText(doc)[s] = v, doc.config[s] # None PROVE Written[s] = v
    BY <1>1, <2>1, <2>2, <2>4 DEF Serialized, Tracks, Tracked
  <2>5. QED
    BY <2>3, <2>4
<1>2. IInv /\ [Next]_vars =>
        [Saves => \A s \in Slot \ doc.allowed : \A v \in Var :
           doc.env[v] # None => (Written[s] = v <=> SourceText(doc)[s] = v /\ doc.config[s] # None)]_vars
  BY <1>1
<1>3. QED
  BY Invariance, <1>2, PTL DEF Spec, ReferencesStay

\* No save writes out what a loaded reference resolved to, but where the source has it literally or
\* the caller declared the slot.
THEOREM ResolvedIsKeptOut == Spec => ResolvedStaysOut
<1>1. ASSUME IInv, [Next]_vars, Saves, NEW s \in Slot \ doc.allowed, NEW r \in Slot,
             loaded[r] \in Var, Written[s] = Resolve(doc.env, loaded[r])
      PROVE  SourceText(doc)[s] = Written[s]
  <2>1. /\ Written[s] = Serialized(doc)[s] /\ Tracks(doc) /\ Resolves(doc) /\ Origins(doc, loaded)
        /\ PlainTable(doc.env, doc.config) /\ doc \in Document /\ ~Ambiguous(doc)
    BY <1>1, SaveFacts DEF DocInv
  <2>2. CASE Tracked(doc, s) /\ doc.config[s] # None
    BY <2>1, <2>2 DEF Serialized, Tracks, Tracked
  <2>3. CASE ~(Tracked(doc, s) /\ doc.config[s] # None)
    <3>1. Written[s] = doc.config[s] /\ doc.config[s] \in doc.origins
      BY <1>1, <2>1, <2>3 DEF Serialized, Origins
    <3>2. doc.config[s] # None
      BY <3>1, <2>1, DocumentAssumption DEF Document
    <3>3. doc.references[s] = None
      BY <1>1, <2>3, <3>2 DEF Tracked
    <3>4. doc.config[s] = doc.snapshot[s]
      BY <1>1, <2>1, <3>1, <3>2, <3>3 DEF Ambiguous, Copied
    <3>5. doc.config[s] = Resolve(doc.env, SourceText(doc)[s])
      BY <2>1, <3>4 DEF Resolves
    <3>6. ~(SourceText(doc)[s] \in Var /\ doc.env[SourceText(doc)[s]] # None)
      BY <2>1, <3>3, DocumentAssumption DEF Tracks, Text
    <3>7. QED
      BY <3>1, <3>5, <3>6 DEF Resolve
  <2>4. QED
    BY <2>2, <2>3
<1>2. IInv /\ [Next]_vars =>
        [Saves => \A s \in Slot \ doc.allowed : \A r \in Slot :
           loaded[r] \in Var /\ Written[s] = Resolve(doc.env, loaded[r]) =>
               SourceText(doc)[s] = Written[s]]_vars
  BY <1>1
<1>3. QED
  BY Invariance, <1>2, PTL DEF Spec, ResolvedStaysOut

\* A save overwrites what the document was last in step with, but for a write in the last moment.
THEOREM ObservedIsKept == Spec => ObservedKept
<1>1. IInv /\ [Next]_vars =>
        [Saves /\ ~raced =>
           files[doc.destination] = IF doc.destination = doc.path THEN doc.source ELSE None]_vars
  BY DEF IInv, Checked, Saves
<1>2. QED
  BY Invariance, <1>1, PTL DEF Spec, ObservedKept
=============================================================================
