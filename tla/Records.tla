------------------------------ MODULE Records -------------------------------
(* The rows administrators edit: settings, by key, and the connections and    *)
(* patterns, by id.  A request reads a row in one statement and writes it in  *)
(* another, at its commit: the columns whose value differs from what it read, *)
(* so that overlapping requests mix their columns in one row.                 *)
EXTENDS FiniteSets

CONSTANTS Keys,         \* keys of settings
          SENSITIVE_KEYS,
          Ids,          \* ids of connections or patterns, given once each
          Cols,         \* the columns update_vcenter or update_pattern can set
          Version,      \* the column test_vcenter sets
          Values,
          Sessions,
          None, NoRow, Gone

ASSUME KeysAssumption == SENSITIVE_KEYS \subseteq Keys
ASSUME ColsAssumption == Version \notin Cols
ASSUME NoneAssumption == None \notin Values

VARIABLES settings,     \* app_settings
          rows,         \* vcenter_connections or pattern_configs
          req,          \* what each request sent and has read
          mixed         \* settings whose last update overlapped one of the
                        \* other encryption (ghost)

vars == <<settings, rows, req, mixed>>

Setting == [enc : BOOLEAN, cipher : Values \cup {None}, plain : Values \cup {None}]
Items   == [enc : BOOLEAN, value : Values]
Row     == {r \in [Cols \cup {Version} -> Values \cup {None}] : \A c \in Cols : r[c] # None}
Idle    == [pc |-> "idle"]

ASSUME RowAssumption == NoRow # Gone /\ {NoRow, Gone} \cap (Setting \cup Row) = {}

\* Settings are there from the seed, in plain text, or not yet.
Init ==
  /\ settings \in [Keys -> [enc : {FALSE}, cipher : {None}, plain : Values] \cup {NoRow}]
  /\ \A k \in SENSITIVE_KEYS : settings[k] = NoRow
  /\ rows = [i \in Ids |-> NoRow]
  /\ req = [t \in Sessions |-> Idle] /\ mixed = {}

\* A column set to a value other than the one that was read.
Set(new, read, now) == IF new = read THEN now ELSE new

End(t) == req' = [req EXCEPT ![t] = Idle]

\* Refused, an invalid expression, a vCenter that does not answer, or a stop.
Drop(t) ==
  /\ req[t] # Idle
  /\ End(t)
  /\ UNCHANGED <<settings, rows, mixed>>
-----------------------------------------------------------------------------
(* update_settings: several settings in one request *)

EncryptedAsSent(k, item) == item.enc    \* mutant: SENSITIVE_KEYS is not looked at
Encrypted(k, item) == k \in SENSITIVE_KEYS \/ item.enc

\* A payload names each key once; of a key said twice the last counts or, if its
\* row is not there yet, the update is refused as a duplicate of its own.
\* The rows are read one by one, but only the commit makes one depend on another.
Update(t, payload) ==
  /\ req[t] = Idle
  /\ req' = [req EXCEPT ![t] = [pc |-> "settings", payload |-> payload,
                                read |-> [k \in DOMAIN payload |-> settings[k]], mixed |-> {}]]
  /\ UNCHANGED <<settings, rows, mixed>>

\* The item over what was read; a ciphertext is never twice the same.
WrittenOver(item, enc, read, now) ==    \* mutant: the other column is not cleared
  [enc    |-> enc,
   cipher |-> IF enc THEN item.value ELSE IF now = NoRow THEN None ELSE now.cipher,
   plain  |-> IF ~enc THEN item.value ELSE IF now = NoRow THEN None ELSE now.plain]

Written(item, enc, read, now) ==
  IF read = NoRow
  THEN [enc |-> enc, cipher |-> IF enc THEN item.value ELSE None,
        plain |-> IF enc THEN None ELSE item.value]
  ELSE [enc    |-> Set(enc, read.enc, now.enc),
        cipher |-> IF enc THEN item.value ELSE Set(None, read.cipher, now.cipher),
        plain  |-> Set(IF enc THEN None ELSE item.value, read.plain, now.plain)]

\* One commit for all items.  A key that another request has inserted since is
\* a duplicate, and none of them is stored.
CommitSettings(t) ==
  LET r == req[t]
      Enc(s, k) == Encrypted(k, req[s].payload[k])
      Crossed(s) == {k \in DOMAIN r.payload :
                        req[s].pc = "settings" /\ k \in DOMAIN req[s].read /\ Enc(s, k) # Enc(t, k)}
  IN /\ r.pc = "settings"
     /\ IF \E k \in DOMAIN r.read : r.read[k] = NoRow /\ settings[k] # NoRow
        THEN End(t) /\ UNCHANGED <<settings, mixed>>
        ELSE /\ settings' = [k \in Keys |->
                   IF k \in DOMAIN r.payload
                   THEN Written(r.payload[k], Enc(t, k), r.read[k], settings[k])
                   ELSE settings[k]]
             /\ req' = [s \in Sessions |->
                   IF s = t THEN Idle
                   ELSE IF Crossed(s) = {} THEN req[s]
                   ELSE [req[s] EXCEPT !.mixed = @ \cup Crossed(s)]]
             /\ mixed' = (mixed \ DOMAIN r.payload) \cup r.mixed
     /\ UNCHANGED rows

\* What get_settings answers of a row.
Shown(row) == IF row.enc THEN "***" ELSE row.plain
-----------------------------------------------------------------------------
(* Connections and patterns *)

\* add_vcenter, create_pattern
Add(i, row) ==
  /\ rows[i] = NoRow
  /\ rows' = [rows EXCEPT ![i] = row]
  /\ UNCHANGED <<settings, req, mixed>>

\* update_vcenter, update_pattern: the columns sent, of any subset; delete, with
\* none; test_vcenter, which connects with what it has read.
Open(t, pc, i, sent) ==
  /\ req[t] = Idle
  /\ rows[i] \notin {NoRow, Gone}
  /\ req' = [req EXCEPT ![t] = [pc |-> pc, id |-> i, sent |-> sent, read |-> rows[i]]]
  /\ UNCHANGED <<settings, rows, mixed>>

SaveWhole(t, sent) ==           \* mutant: the row is merged, all columns written
  LET i == req[t].id
  IN /\ rows' = [rows EXCEPT ![i] = [c \in DOMAIN req[t].read |->
                    IF c \in DOMAIN sent THEN sent[c] ELSE req[t].read[c]]]
     /\ End(t)
     /\ UNCHANGED <<settings, mixed>>

\* The commit; of a row that is gone it raises.
Save(t, sent) ==
  LET i == req[t].id
  IN /\ rows' = IF rows[i] = Gone THEN rows
                ELSE [rows EXCEPT ![i] = [c \in DOMAIN @ |->
                        IF c \in DOMAIN sent THEN Set(sent[c], req[t].read[c], @[c]) ELSE @[c]]]
     /\ End(t)
     /\ UNCHANGED <<settings, mixed>>

CommitRow(t) == req[t].pc = "update" /\ Save(t, req[t].sent)
CommitTest(t, v) == req[t].pc = "test" /\ Save(t, [c \in {Version} |-> v])

Delete(t) ==
  /\ req[t].pc = "delete"
  /\ rows' = [rows EXCEPT ![req[t].id] = Gone]
  /\ End(t)
  /\ UNCHANGED <<settings, mixed>>
-----------------------------------------------------------------------------
Partial(S, T) == UNION {[D -> T] : D \in (SUBSET S) \ {{}}}
NothingSent == [c \in {} |-> None]

Next ==
  \/ \E t \in Sessions :
       \/ Drop(t) \/ CommitSettings(t) \/ CommitRow(t) \/ Delete(t)
       \/ \E payload \in Partial(Keys, Items) : Update(t, payload)
       \/ \E i \in Ids : \/ \E sent \in Partial(Cols, Values) : Open(t, "update", i, sent)
                         \/ \E pc \in {"delete", "test"} : Open(t, pc, i, NothingSent)
       \/ \E v \in Values : CommitTest(t, v)
  \/ \E i \in Ids, row \in Row : row[Version] = None /\ Add(i, row)

Spec == Init /\ [][Next]_vars
-----------------------------------------------------------------------------
(* Properties *)

Reqs ==
  {Idle}
  \cup [pc : {"settings"}, payload : UNION {[D -> Items] : D \in SUBSET Keys},
        read : UNION {[D -> Setting \cup {NoRow}] : D \in SUBSET Keys}, mixed : SUBSET Keys]
  \cup [pc : {"update", "delete", "test"}, id : Ids, read : Row,
        sent : UNION {[D -> Values] : D \in SUBSET Cols}]

TypeOK ==
  /\ settings \in [Keys -> Setting \cup {NoRow}]
  /\ rows \in [Ids -> Row \cup {NoRow, Gone}]
  /\ req \in [Sessions -> Reqs] /\ mixed \subseteq Keys

\* A sensitive setting is encrypted, with nothing of it in plain text, however
\* updates overlap and whatever they ask for; get_settings does not show it.
Sealed == \A k \in SENSITIVE_KEYS : settings[k] # NoRow =>
  /\ settings[k].enc /\ settings[k].cipher # None /\ settings[k].plain = None
  /\ Shown(settings[k]) = "***"

\* A setting is either encrypted or in plain text, and has a value, unless its
\* last update overlapped one of the other encryption: whatever such a pair left
\* behind, the next update repairs.
Whole == \A k \in Keys \ mixed : settings[k] # NoRow =>
  IF settings[k].enc THEN settings[k].cipher # None /\ settings[k].plain = None
                     ELSE settings[k].cipher = None /\ settings[k].plain # None

\* A column changes only by the commit of a request that sent it, to what was
\* sent: no update and no test takes back what another has stored, and a row
\* that was deleted stays so.
OnlySentChanges == [][
  \A i \in Ids : rows[i] # NoRow =>
    \/ rows'[i] = Gone
    \/ rows[i] # Gone /\ \A c \in DOMAIN rows[i] : rows'[i][c] # rows[i][c] =>
         \E t \in Sessions : /\ req[t] # Idle /\ req'[t] = Idle
                             /\ \/ req[t].pc = "test" /\ c = Version
                                \/ /\ req[t].pc = "update" /\ c \in DOMAIN req[t].sent
                                   /\ rows'[i][c] = req[t].sent[c]]_vars
=============================================================================
