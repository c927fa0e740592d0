---------------------------- MODULE RecordsProofs ----------------------------
(* Theorems of Records, for any settings, connections, patterns and requests. *)
EXTENDS Records, TLAPS

Settings == [pc : {"settings"}, payload : UNION {[D -> Items] : D \in SUBSET Keys},
             read : UNION {[D -> Setting \cup {NoRow}] : D \in SUBSET Keys}, mixed : SUBSET Keys]

\* What is known of a request that is at a step of update_settings.
LEMMA SettingsRequest ==
  ASSUME TypeOK, NEW t \in Sessions, req[t].pc = "settings"
  PROVE  /\ req[t] \in Settings
         /\ DOMAIN req[t].payload \subseteq Keys /\ DOMAIN req[t].read \subseteq Keys
         /\ \A k \in DOMAIN req[t].payload : req[t].payload[k] \in Items
         /\ \A k \in DOMAIN req[t].read : req[t].read[k] \in Setting \cup {NoRow}
         /\ req[t].mixed \subseteq Keys
<1>1. req[t] \in Settings
  BY DEF TypeOK, Reqs, Idle, Settings
<1> QED
  BY <1>1 DEF Settings

\* What is known of a request that is about a connection or a pattern.
LEMMA RowRequest ==
  ASSUME TypeOK, NEW t \in Sessions, req[t].pc \in {"update", "delete", "test"}
  PROVE  /\ req[t].id \in Ids /\ req[t].read \in Row
         /\ req[t].sent \in UNION {[D -> Values] : D \in SUBSET Cols}
  BY DEF TypeOK, Reqs, Idle

\* The row that update_settings stores is a setting.
LEMMA WrittenType ==
  ASSUME NEW item \in Items, NEW enc \in BOOLEAN, NEW read \in Setting \cup {NoRow},
         NEW now \in Setting \cup {NoRow}, read # NoRow => now # NoRow
  PROVE  Written(item, enc, read, now) \in Setting
  BY RowAssumption DEF Written, Set, Items, Setting

\* The row that a commit of a connection or a pattern stores is one of them.
LEMMA SavedType ==
  ASSUME NEW row \in Row, NEW read \in Row, NEW sent,
         sent \in UNION {[D -> Values] : D \in (SUBSET Cols) \cup {{Version}}}
  PROVE  [c \in DOMAIN row |-> IF c \in DOMAIN sent THEN Set(sent[c], read[c], row[c]) ELSE row[c]] \in Row
  BY ColsAssumption, NoneAssumption DEF Row, Set
-----------------------------------------------------------------------------
(* The inductive invariant *)

EncOf(t, k) == Encrypted(k, req[t].payload[k])

\* What may have become of a setting since a request read it, when all that was
\* committed in between has the request's own encryption.
Since(enc, read, now) ==
  /\ now.enc \in {read.enc, enc}
  /\ enc => now.plain \in {read.plain, None}
  /\ ~enc => now.cipher \in {read.cipher, None} /\ (read.plain # None => now.plain # None)

IsWhole(row)  == IF row.enc THEN row.cipher # None /\ row.plain = None
                            ELSE row.cipher = None /\ row.plain # None
IsSealed(row) == row.enc /\ row.cipher # None /\ row.plain = None

\* A request knows what it read of each setting it will write: a setting that is
\* there stays there, a sensitive one is sealed, and one that no request of
\* another encryption has crossed is as Since says.
Known(t, k) ==
  /\ req[t].read[k] # NoRow => settings[k] # NoRow
  /\ k \in SENSITIVE_KEYS /\ req[t].read[k] # NoRow => IsSealed(req[t].read[k])
  /\ k \notin req[t].mixed /\ req[t].read[k] # NoRow =>
       Since(EncOf(t, k), req[t].read[k], settings[k])

Reads == \A t \in Sessions : req[t].pc = "settings" =>
  DOMAIN req[t].read = DOMAIN req[t].payload /\ \A k \in DOMAIN req[t].read : Known(t, k)

\* A connection or pattern that a request has found is there or deleted.
Found == \A t \in Sessions : req[t].pc \in {"update", "delete", "test"} => rows[req[t].id] # NoRow

IInv == TypeOK /\ Sealed /\ Whole /\ Reads /\ Found

\* A sensitive setting is written sealed, over one that is sealed or not there.
LEMMA WrittenSealed ==
  ASSUME NEW item \in Items, NEW read \in Setting \cup {NoRow}, NEW now \in Setting \cup {NoRow},
         read # NoRow => IsSealed(read) /\ IsSealed(now)
  PROVE  IsSealed(Written(item, TRUE, read, now))
  BY NoneAssumption DEF Written, Set, Items, Setting, IsSealed

\* A setting is written whole, over whatever it was, when nothing of another
\* encryption came in between.
LEMMA WrittenWhole ==
  ASSUME NEW item \in Items, NEW enc \in BOOLEAN, NEW read \in Setting \cup {NoRow},
         NEW now \in Setting \cup {NoRow}, read # NoRow => now # NoRow /\ Since(enc, read, now)
  PROVE  IsWhole(Written(item, enc, read, now))
  BY NoneAssumption, RowAssumption DEF Written, Set, Items, Setting, IsWhole, Since

\* Another request's commit, of the same encryption, is one that Since allows.
LEMMA WrittenSince ==
  ASSUME NEW item \in Items, NEW enc \in BOOLEAN, NEW read \in Setting \cup {NoRow},
         NEW now \in Setting, NEW mine \in Setting, read # NoRow,
         Since(enc, mine, now)
  PROVE  Since(enc, mine, Written(item, enc, read, now))
  BY NoneAssumption, RowAssumption DEF Written, Set, Items, Setting, Since

\* Settings are in plain text or not there at first, and no request is open.
LEMMA InitIInv == Init => IInv
<1> SUFFICES ASSUME Init PROVE IInv
  OBVIOUS
<1>1. \A k \in Keys : \/ settings[k] = NoRow /\ settings[k] \notin Setting
                      \/ settings[k] \in Setting /\ IsWhole(settings[k]) /\ settings[k] # NoRow
  <2> TAKE k \in Keys
  <2>1. CASE settings[k] = NoRow
    <3>1. NoRow \notin Setting
      BY RowAssumption
    <3> QED
      BY <2>1, <3>1
  <2>2. CASE settings[k] # NoRow
    <3>1. settings[k] \in [enc : {FALSE}, cipher : {None}, plain : Values]
      BY <2>2 DEF Init
    <3> QED
      BY <2>2, <3>1, NoneAssumption DEF Setting, IsWhole
  <2> QED
    BY <2>1, <2>2
<1>2. TypeOK
  <2>1. settings \in [Keys -> Setting \cup {NoRow}]
    BY <1>1 DEF Init
  <2> QED
    BY <2>1 DEF Init, TypeOK, Reqs
<1>3. Sealed
  BY KeysAssumption DEF Init, Sealed
<1>4. Whole
  BY <1>1 DEF Whole, IsWhole
<1>5. Reads /\ Found
  BY DEF Init, Reads, Found, Idle
<1> QED
  BY <1>2, <1>3, <1>4, <1>5 DEF IInv

\* One step of a request keeps the invariant.
LEMMA StepIInv == IInv /\ [Next]_vars => IInv'
<1> SUFFICES ASSUME IInv, [Next]_vars PROVE IInv'
  OBVIOUS
<1> USE DEF IInv
<1>0. Idle \in Reqs /\ Idle.pc = "idle" /\ NoRow \notin Row /\ NoRow # Gone
  BY RowAssumption DEF Reqs, Idle
<1>1. ASSUME UNCHANGED <<settings, mixed>>, rows' \in [Ids -> Row \cup {NoRow, Gone}],
             \A i \in Ids : rows[i] # NoRow => rows'[i] # NoRow,
             NEW t \in Sessions, NEW r \in Reqs, r.pc # "settings", req' = [req EXCEPT ![t] = r],
             r.pc # "idle" => rows[r.id] # NoRow
      PROVE  IInv'
  <2>1. TypeOK'
    BY <1>1 DEF TypeOK
  <2>2. Sealed' /\ Whole'
    BY <1>1 DEF Sealed, Whole, Shown
  <2>3. ASSUME NEW s \in Sessions, req'[s].pc = "settings" PROVE s # t /\ req'[s] = req[s]
    BY <1>1, <2>3 DEF TypeOK
  <2>4. Reads'
    BY <1>1, <2>3 DEF Reads, Known, EncOf
  <2>5. Found'
    <3> SUFFICES ASSUME NEW s \in Sessions, req'[s].pc \in {"update", "delete", "test"}
                 PROVE  rows'[req'[s].id] # NoRow
      BY DEF Found
    <3>1. req'[s].id \in Ids
      BY <2>1, RowRequest DEF TypeOK, Reqs, Idle
    <3> QED
      BY <1>1, <3>1 DEF Found, TypeOK
  <2> QED
    BY <2>1, <2>2, <2>4, <2>5
<1>2. ASSUME NEW t \in Sessions, Drop(t)
      PROVE  IInv'
  BY <1>0, <1>1, <1>2 DEF Drop, End, TypeOK
<1>3. ASSUME NEW t \in Sessions, NEW payload \in Partial(Keys, Items), Update(t, payload)
      PROVE  IInv'
  <2> DEFINE r == [pc |-> "settings", payload |-> payload,
                   read |-> [k \in DOMAIN payload |-> settings[k]], mixed |-> {}]
  <2>1. UNCHANGED <<settings, rows, mixed>> /\ req' = [req EXCEPT ![t] = r]
    BY <1>3 DEF Update
  <2>2. DOMAIN payload \subseteq Keys /\ payload \in [DOMAIN payload -> Items]
    BY DEF Partial
  <2>3. r \in Reqs
    <3>1. r.read \in [DOMAIN payload -> Setting \cup {NoRow}]
      BY <2>2 DEF TypeOK
    <3>2. r \in Settings
      BY <2>2, <3>1 DEF Settings
    <3> QED
      BY <3>2 DEF Reqs, Settings
  <2>4. TypeOK'
    BY <2>1, <2>3 DEF TypeOK
  <2>5. Sealed' /\ Whole' /\ Found'
    BY <2>1 DEF Sealed, Whole, Shown, Found, TypeOK
  <2>6. Reads'
    <3> SUFFICES ASSUME NEW s \in Sessions, req'[s].pc = "settings"
                 PROVE  DOMAIN req'[s].read = DOMAIN req'[s].payload
                        /\ \A k \in DOMAIN req'[s].read : Known(s, k)'
      BY DEF Reads
    <3>1. CASE s # t
      BY <2>1, <3>1 DEF Reads, Known, EncOf, TypeOK
    <3>2. CASE s = t
      <4>1. req'[s] = r
        BY <2>1, <3>2 DEF TypeOK
      <4>2. DOMAIN r.read = DOMAIN payload /\ r.payload = payload
        OBVIOUS
      <4>3. ASSUME NEW k \in DOMAIN payload PROVE Known(s, k)'
        <5>1. k \in Keys /\ r.read[k] = settings[k]
          BY <2>2
        <5>2. r.read[k] # NoRow => Since(EncOf(s, k)', settings[k], settings[k])
          BY DEF Since
        <5>3. k \in SENSITIVE_KEYS /\ settings[k] # NoRow => IsSealed(settings[k])
          BY DEF Sealed, IsSealed
        <5> QED
          BY <2>1, <4>1, <5>1, <5>2, <5>3 DEF Known
      <4> QED
        BY <4>1, <4>2, <4>3
    <3> QED
      BY <3>1, <3>2
  <2> QED
    BY <2>4, <2>5, <2>6
<1>4. ASSUME NEW t \in Sessions, CommitSettings(t)
      PROVE  IInv'
  <2> DEFINE r == req[t]
             crossed(s) == {k \in DOMAIN r.payload :
               req[s].pc = "settings" /\ k \in DOMAIN req[s].read /\ EncOf(s, k) # EncOf(t, k)}
             put(k) == Written(r.payload[k], EncOf(t, k), r.read[k], settings[k])
  <2>1. /\ r.pc = "settings" /\ r \in Settings
        /\ DOMAIN r.payload \subseteq Keys /\ DOMAIN r.read = DOMAIN r.payload
        /\ \A k \in DOMAIN r.payload : /\ r.payload[k] \in Items
                                       /\ r.read[k] \in Setting \cup {NoRow}
                                       /\ Known(t, k) /\ k \in Keys
        /\ r.mixed \subseteq Keys
    BY <1>4, SettingsRequest DEF CommitSettings, Reads
  <2> DEFINE taken == \E k \in DOMAIN r.read : r.read[k] = NoRow /\ settings[k] # NoRow
  <2>2. rows' = rows /\ rows \in [Ids -> Row \cup {NoRow, Gone}]
    BY <1>4 DEF CommitSettings, TypeOK
  <2>3. CASE taken
    <3>1. UNCHANGED <<settings, mixed>> /\ req' = [req EXCEPT ![t] = Idle]
      BY <1>4, <2>3 DEF CommitSettings, End
    <3> QED
      BY <1>0, <1>1, <2>2, <3>1
  <2>4. CASE ~taken
    <3>1. /\ settings' = [k \in Keys |-> IF k \in DOMAIN r.payload THEN put(k) ELSE settings[k]]
          /\ req' = [s \in Sessions |->
                IF s = t THEN Idle
                ELSE IF crossed(s) = {} THEN req[s]
                ELSE [req[s] EXCEPT !.mixed = @ \cup crossed(s)]]
          /\ mixed' = (mixed \ DOMAIN r.payload) \cup r.mixed
      BY <1>4, <2>4 DEF CommitSettings, EncOf
    <3>2. ASSUME NEW s \in Sessions, NEW k PROVE EncOf(s, k) \in BOOLEAN \/ k \notin DOMAIN req[s].payload \/ req[s].pc # "settings"
      BY SettingsRequest DEF EncOf, Encrypted, Items
    <3>3. ASSUME NEW k \in DOMAIN r.payload
          PROVE  /\ k \in Keys /\ r.payload[k] \in Items /\ EncOf(t, k) \in BOOLEAN
                 /\ r.read[k] \in Setting \cup {NoRow} /\ settings[k] \in Setting \cup {NoRow}
                 /\ r.read[k] = NoRow <=> settings[k] = NoRow
                 /\ Known(t, k)
      BY <2>1, <2>4, <3>2 DEF TypeOK, Known
    <3>4. ASSUME NEW k \in DOMAIN r.payload PROVE put(k) \in Setting /\ put(k) # NoRow
      BY <3>3, WrittenType, RowAssumption
    <3>5. ASSUME NEW s \in Sessions, s # t, req'[s].pc = "settings"
          PROVE  /\ req[s].pc = "settings" /\ req[s] \in Settings
                 /\ req'[s].payload = req[s].payload /\ req'[s].read = req[s].read
                 /\ req'[s].mixed = req[s].mixed \cup crossed(s)
                 /\ req'[s] \in Settings
      <4>1. CASE crossed(s) = {}
        BY <3>1, <3>5, <4>1, SettingsRequest
      <4>2. CASE crossed(s) # {}
        <5>1. req[s].pc = "settings"
          BY <4>2
        <5>2. req[s] \in Settings
          BY <5>1, SettingsRequest
        <5>3. req'[s] = [req[s] EXCEPT !.mixed = @ \cup crossed(s)] /\ crossed(s) \subseteq Keys
          BY <2>1, <3>1, <3>5, <4>2
        <5> HIDE DEF crossed
        <5> QED
          BY <5>1, <5>2, <5>3 DEF Settings
      <4> QED
        BY <4>1, <4>2
    <3> HIDE DEF put
    <3>6. TypeOK'
      <4>1. settings' \in [Keys -> Setting \cup {NoRow}]
        BY <3>1, <3>4 DEF TypeOK
      <4>2. ASSUME NEW s \in Sessions PROVE req'[s] \in Reqs
        <5>1. CASE s = t
          BY <1>0, <3>1, <5>1
        <5>2. CASE s # t /\ crossed(s) = {}
          BY <3>1, <5>2 DEF TypeOK
        <5>3. CASE s # t /\ crossed(s) # {}
          <6>1. req[s].pc = "settings" /\ req'[s] = [req[s] EXCEPT !.mixed = @ \cup crossed(s)]
            BY <3>1, <5>3
          <6>2. req'[s].pc = "settings"
            BY <6>1, SettingsRequest DEF Settings
          <6> QED
            BY <3>5, <5>3, <6>2 DEF Settings, Reqs
        <5> QED
          BY <5>1, <5>2, <5>3
      <4>3. req' \in [Sessions -> Reqs]
        BY <3>1, <4>2
      <4>4. mixed' \subseteq Keys
        BY <2>1, <3>1 DEF TypeOK
      <4> QED
        BY <2>2, <4>1, <4>3, <4>4 DEF TypeOK
    <3>7. Sealed'
      <4> SUFFICES ASSUME NEW k \in SENSITIVE_KEYS, settings'[k] # NoRow
                   PROVE  IsSealed(settings'[k])
        BY DEF Sealed, IsSealed, Shown
      <4>1. k \in Keys /\ (settings[k] # NoRow => IsSealed(settings[k]))
        BY KeysAssumption DEF Sealed, IsSealed
      <4>2. CASE k \in DOMAIN r.payload
        <5>1. EncOf(t, k) = TRUE
          BY DEF EncOf, Encrypted
        <5>2. r.read[k] # NoRow => IsSealed(r.read[k]) /\ IsSealed(settings[k])
          BY <3>3, <4>1, <4>2 DEF Known
        <5>3. IsSealed(Written(r.payload[k], TRUE, r.read[k], settings[k]))
          BY <3>3, <4>2, <5>2, WrittenSealed
        <5> QED
          BY <3>1, <4>1, <4>2, <5>1, <5>3 DEF put
      <4>3. CASE k \notin DOMAIN r.payload
        BY <3>1, <4>1, <4>3
      <4> QED
        BY <4>2, <4>3
    <3>8. Whole'
      <4> SUFFICES ASSUME NEW k \in Keys, k \notin mixed', settings'[k] # NoRow
                   PROVE  IsWhole(settings'[k])
        BY DEF Whole, IsWhole
      <4>1. CASE k \in DOMAIN r.payload
        <5>1. k \notin r.mixed
          BY <3>1
        <5>2. IsWhole(put(k))
          BY <3>3, <4>1, <5>1, WrittenWhole DEF Known, put
        <5> QED
          BY <3>1, <4>1, <5>2
      <4>2. CASE k \notin DOMAIN r.payload
        BY <3>1, <4>2 DEF Whole, IsWhole
      <4> QED
        BY <4>1, <4>2
    <3>9. Reads'
      <4> SUFFICES ASSUME NEW s \in Sessions, req'[s].pc = "settings"
                   PROVE  DOMAIN req'[s].read = DOMAIN req'[s].payload
                          /\ \A k \in DOMAIN req'[s].read : Known(s, k)'
        BY DEF Reads
      <4>1. s # t
        BY <1>0, <3>1
      <4>2. /\ req[s].pc = "settings" /\ DOMAIN req[s].read = DOMAIN req[s].payload
            /\ \A k \in DOMAIN req[s].read : Known(s, k) /\ k \in Keys
                                             /\ req[s].read[k] \in Setting \cup {NoRow}
        BY <3>5, <4>1, SettingsRequest DEF Reads
      <4>3. ASSUME NEW k \in DOMAIN req[s].read PROVE Known(s, k)'
        <5>1. EncOf(s, k)' = EncOf(s, k)
          BY <3>5, <4>1 DEF EncOf
        <5>2. settings[k] # NoRow => settings'[k] # NoRow
          BY <3>1, <3>4, <4>2
        <5>3. ASSUME k \notin req'[s].mixed, req[s].read[k] # NoRow
              PROVE  Since(EncOf(s, k), req[s].read[k], settings'[k])
          <6>1. k \notin req[s].mixed /\ k \notin crossed(s) /\ settings[k] # NoRow
                /\ Since(EncOf(s, k), req[s].read[k], settings[k])
            BY <3>5, <4>1, <4>2, <5>3 DEF Known
          <6>2. CASE k \in DOMAIN r.payload
            <7>1. EncOf(s, k) = EncOf(t, k)
              BY <4>2, <6>1, <6>2
            <7>2. settings[k] \in Setting /\ req[s].read[k] \in Setting /\ r.read[k] # NoRow
              BY <3>3, <4>2, <5>3, <6>1, <6>2
            <7>3. Since(EncOf(t, k), req[s].read[k], put(k))
              BY <3>3, <6>1, <6>2, <7>1, <7>2, WrittenSince DEF put
            <7> QED
              BY <3>1, <4>2, <6>2, <7>1, <7>3
          <6>3. CASE k \notin DOMAIN r.payload
            BY <3>1, <4>2, <6>1, <6>3
          <6> QED
            BY <6>2, <6>3
        <5> QED
          BY <3>5, <4>1, <4>2, <5>1, <5>2, <5>3 DEF Known
      <4> QED
        BY <3>5, <4>1, <4>2, <4>3
    <3>10. Found'
      <4> SUFFICES ASSUME NEW s \in Sessions, req'[s].pc \in {"update", "delete", "test"}
                   PROVE  rows[req'[s].id] # NoRow
        BY <2>2 DEF Found
      <4>1. s # t /\ (crossed(s) = {} \/ req[s].pc = "settings")
        BY <1>0, <3>1
      <4>2. crossed(s) = {}
        <5> SUFFICES ASSUME crossed(s) # {} PROVE FALSE
          OBVIOUS
        <5>1. req[s].pc = "settings" /\ req'[s] = [req[s] EXCEPT !.mixed = @ \cup crossed(s)]
          BY <3>1, <4>1
        <5> QED
          BY <5>1, SettingsRequest DEF Settings
      <4> QED
        BY <3>1, <4>1, <4>2 DEF Found
    <3> QED
      BY <3>6, <3>7, <3>8, <3>9, <3>10
  <2> QED
    BY <2>3, <2>4
<1>5. ASSUME NEW i \in Ids, NEW row \in Row, Add(i, row)
      PROVE  IInv'
  <2>1. UNCHANGED <<settings, req, mixed>> /\ rows' = [rows EXCEPT ![i] = row]
    BY <1>5 DEF Add
  <2>2. TypeOK' /\ Sealed' /\ Whole' /\ Reads'
    BY <2>1 DEF TypeOK, Sealed, Shown, Whole, Reads, Known, EncOf
  <2>3. \A j \in Ids : rows[j] # NoRow => rows'[j] # NoRow
    BY <1>0, <2>1 DEF TypeOK
  <2>4. Found'
    BY <2>1, <2>3, RowRequest DEF Found
  <2> QED
    BY <2>2, <2>4
<1>6. ASSUME NEW t \in Sessions, NEW pc \in {"update", "delete", "test"}, NEW i \in Ids,
             NEW sent \in UNION {[D -> Values] : D \in SUBSET Cols}, Open(t, pc, i, sent)
      PROVE  IInv'
  <2> DEFINE r == [pc |-> pc, id |-> i, sent |-> sent, read |-> rows[i]]
  <2>1. UNCHANGED <<settings, rows, mixed>> /\ req' = [req EXCEPT ![t] = r] /\ rows[i] \in Row
    BY <1>6 DEF Open, TypeOK
  <2>2. r \in Reqs /\ r.pc # "settings" /\ rows[r.id] # NoRow
    BY <1>0, <2>1 DEF Reqs
  <2> HIDE DEF r
  <2> QED
    BY <1>1, <2>1, <2>2 DEF TypeOK
<1>7. ASSUME NEW t \in Sessions, req[t].pc \in {"update", "test"},
             NEW sent, sent \in UNION {[D -> Values] : D \in (SUBSET Cols) \cup {{Version}}},
             Save(t, sent)
      PROVE  IInv'
  <2> DEFINE i == req[t].id
             saved == [c \in DOMAIN rows[i] |->
                         IF c \in DOMAIN sent THEN Set(sent[c], req[t].read[c], rows[i][c]) ELSE rows[i][c]]
  <2>1. i \in Ids /\ req[t].read \in Row /\ rows[i] # NoRow /\ rows[i] \in Row \cup {NoRow, Gone}
    BY <1>7, RowRequest DEF Found, TypeOK
  <2>2. rows' = (IF rows[i] = Gone THEN rows ELSE [rows EXCEPT ![i] = saved])
        /\ req' = [req EXCEPT ![t] = Idle] /\ UNCHANGED <<settings, mixed>>
    BY <1>7 DEF Save, End
  <2>3. rows[i] # Gone => saved \in Row
    BY <1>7, <2>1, SavedType
  <2> HIDE DEF i, saved
  <2>4. /\ rows' \in [Ids -> Row \cup {NoRow, Gone}]
        /\ \A j \in Ids : rows[j] # NoRow => rows'[j] # NoRow
    BY <1>0, <2>1, <2>2, <2>3 DEF TypeOK
  <2> QED
    BY <1>0, <1>1, <2>2, <2>4
<1>8. ASSUME NEW t \in Sessions, Delete(t)
      PROVE  IInv'
  <2>1. /\ rows' \in [Ids -> Row \cup {NoRow, Gone}]
        /\ \A j \in Ids : rows[j] # NoRow => rows'[j] # NoRow
    BY <1>0, <1>8 DEF Delete, TypeOK
  <2> QED
    BY <1>0, <1>1, <1>8, <2>1 DEF Delete, End
<1>9. CASE UNCHANGED vars
  BY <1>9 DEF vars, TypeOK, Sealed, Shown, Whole, Reads, Known, EncOf, Found
<1>10. NothingSent \in UNION {[D -> Values] : D \in SUBSET Cols}
  <2>1. NothingSent \in [{} -> Values] /\ {} \in SUBSET Cols
    BY DEF NothingSent
  <2> QED
    BY <2>1
<1>11. ASSUME NEW sent \in Partial(Cols, Values)
       PROVE  sent \in UNION {[D -> Values] : D \in SUBSET Cols}
  BY DEF Partial
<1>12. ASSUME NEW t \in Sessions, CommitRow(t) PROVE IInv'
  <2>1. req[t].pc = "update" /\ Save(t, req[t].sent)
    BY <1>12 DEF CommitRow
  <2>2. req[t].sent \in UNION {[D -> Values] : D \in (SUBSET Cols) \cup {{Version}}}
    BY <2>1, RowRequest
  <2> QED
    BY <1>7, <2>1, <2>2
<1>13. ASSUME NEW t \in Sessions, NEW v \in Values, CommitTest(t, v) PROVE IInv'
  <2>1. req[t].pc = "test" /\ Save(t, [c \in {Version} |-> v])
    BY <1>13 DEF CommitTest
  <2>2. [c \in {Version} |-> v] \in UNION {[D -> Values] : D \in (SUBSET Cols) \cup {{Version}}}
    <3>1. [c \in {Version} |-> v] \in [{Version} -> Values] /\ {Version} \in (SUBSET Cols) \cup {{Version}}
      OBVIOUS
    <3> QED
      BY <3>1
  <2> QED
    BY <1>7, <2>1, <2>2
<1> QED
  BY <1>2, <1>3, <1>4, <1>5, <1>6, <1>8, <1>9, <1>10, <1>11, <1>12, <1>13 DEF Next
-----------------------------------------------------------------------------
(* Theorems *)

\* What holds of the rows and of the requests open on them.
THEOREM Invariance == Spec => []IInv
  BY InitIInv, StepIInv, PTL DEF Spec

\* Rows and requests keep their types.
THEOREM TypeCorrect == Spec => []TypeOK
<1>1. IInv => TypeOK
  BY DEF IInv
<1> QED
  BY <1>1, Invariance, PTL

\* A sensitive setting is never in plain text and never shown, whatever updates
\* of it ask for and however they overlap.
THEOREM SensitiveSealed == Spec => []Sealed
<1>1. IInv => Sealed
  BY DEF IInv
<1> QED
  BY <1>1, Invariance, PTL

\* A setting is torn only by an update that overlapped one of the other
\* encryption, and until the next.
THEOREM SettingsWhole == Spec => []Whole
<1>1. IInv => Whole
  BY DEF IInv
<1> QED
  BY <1>1, Invariance, PTL

\* A commit changes the columns its request sent, and no other.
THEOREM SentOnly == Spec => OnlySentChanges
<1> DEFINE Sent == \A i \in Ids : rows[i] # NoRow =>
              \/ rows'[i] = Gone
              \/ rows[i] # Gone /\ \A c \in DOMAIN rows[i] : rows'[i][c] # rows[i][c] =>
                   \E t \in Sessions : /\ req[t] # Idle /\ req'[t] = Idle
                                       /\ \/ req[t].pc = "test" /\ c = Version
                                          \/ /\ req[t].pc = "update" /\ c \in DOMAIN req[t].sent
                                             /\ rows'[i][c] = req[t].sent[c]
<1>1. IInv /\ [Next]_vars => [Sent]_vars
  <2> SUFFICES ASSUME IInv, Next PROVE Sent
    BY DEF Sent
  <2>1. CASE rows' = rows
    BY <2>1
  <2>2. ASSUME NEW i \in Ids, NEW row, Add(i, row) PROVE Sent
    BY <2>2 DEF Add, IInv, TypeOK
  <2>3. ASSUME NEW t \in Sessions, Delete(t) PROVE Sent
    BY <2>3 DEF Delete, IInv, TypeOK
  <2>4. ASSUME NEW t \in Sessions, NEW sent, Save(t, sent), req[t].pc \in {"update", "test"},
               req[t].pc = "update" => sent = req[t].sent,
               req[t].pc = "test" => DOMAIN sent = {Version}
        PROVE  Sent
    <3>1. req[t] # Idle /\ req'[t] = Idle
      <4>1. req' = [req EXCEPT ![t] = Idle] /\ req \in [Sessions -> Reqs]
        BY <2>4 DEF Save, End, IInv, TypeOK
      <4> QED
        BY <2>4, <4>1 DEF Idle
    <3> SUFFICES ASSUME NEW i \in Ids, rows[i] # NoRow, rows[i] # Gone,
                        NEW c \in DOMAIN rows[i], rows'[i][c] # rows[i][c]
                 PROVE  \/ req[t].pc = "test" /\ c = Version
                        \/ /\ req[t].pc = "update" /\ c \in DOMAIN req[t].sent
                           /\ rows'[i][c] = req[t].sent[c]
      BY <2>4, <3>1 DEF Save
    <3>2. i = req[t].id /\ c \in DOMAIN sent /\ rows'[i][c] = Set(sent[c], req[t].read[c], rows[i][c])
      BY <2>4 DEF Save, IInv, TypeOK
    <3>3. rows'[i][c] = sent[c]
      BY <3>2 DEF Set
    <3> QED
      BY <2>4, <3>2, <3>3
  <2> QED
    BY <2>1, <2>2, <2>3, <2>4 DEF Next, Drop, CommitSettings, CommitRow, CommitTest, Update, Open
<1> QED
  BY <1>1, Invariance, PTL DEF Spec, OnlySentChanges, Sent
=============================================================================
