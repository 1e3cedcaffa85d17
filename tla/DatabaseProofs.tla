--------------------------- MODULE DatabaseProofs ---------------------------
(***************************************************************************)
(* Proofs about the database client (DatabaseClient), for any rows of      *)
(* SamplesAssumption: it implements the client of the handlers' tests.     *)
(***************************************************************************)
EXTENDS DatabaseClient, SequenceTheorems, FiniteSetTheorems, TLAPS


----------------------------------------------------------------------------
(* DatabaseClient: what is live in a table after a save or a deletion. *)

TableRows(rows)  == [row : rows, at : Nat, gone : BOOLEAN]
Live(table)    == Plain({r \in table : ~r.gone})
Alike(fields, a, b) == \A f \in fields : a[f] = b[f]
Others(rows, fields, row)  == {x \in rows : ~Alike(fields, x, row)}
Unlike(table, fields, row) == {r \in table : ~Alike(fields, r.row, row)}
KeysApart(table, fields) == \A r, o \in table : Alike(fields, r.row, o.row) => r = o

LEMMA AlikeIs ==
    ASSUME NEW fields, NEW a, NEW b
    PROVE  /\ Key(fields, a) = Key(fields, b) <=> Alike(fields, a, b)
           /\ Matches(a, Key(fields, b)) <=> Alike(fields, a, b)
<1>1. DOMAIN Key(fields, b) = fields /\ \A f \in fields : Key(fields, b)[f] = b[f]
  BY DEF Key
<1>2. \A f \in fields : Key(fields, a)[f] = a[f]
  BY DEF Key
<1>3. Key(fields, a) = Key(fields, b) => Alike(fields, a, b)
  BY <1>1, <1>2 DEF Alike
<1>4. Alike(fields, a, b) => Key(fields, a) = Key(fields, b)
  BY DEF Alike, Key
<1>5. Matches(a, Key(fields, b)) <=> Alike(fields, a, b)
  BY <1>1 DEF Matches, Alike
<1> QED
  BY <1>3, <1>4, <1>5

LEMMA LiveFound ==
    ASSUME NEW table, NEW fields, NEW row
    PROVE  /\ Plain(Found(table, Key(fields, row))) = {x \in Live(table) : Alike(fields, x, row)}
           /\ Found(table, Key(fields, row)) = {r \in table : ~r.gone /\ Alike(fields, r.row, row)}
<1>1. Found(table, Key(fields, row)) = {r \in table : ~r.gone /\ Alike(fields, r.row, row)}
  BY AlikeIs DEF Found
<1> QED
  BY <1>1 DEF Plain, Live

\* new is the row that a save of row makes.
IsSaved(rows, table, fields, row, made, new) ==
    /\ Saved(table, fields, row, made) = Unlike(table, fields, row) \cup {new}
    /\ new \in TableRows(rows) /\ new.row = row /\ new.gone = FALSE
    /\ (\A r \in table : ~Alike(fields, r.row, row)) => new.at = made

LEMMA SavedTable ==
    ASSUME NEW rows, NEW table, table \subseteq TableRows(rows), NEW fields, NEW row \in rows, NEW made \in Nat
    PROVE  \E new : IsSaved(rows, table, fields, row, made, new)
<1> DEFINE old == {r \in table : Key(fields, r.row) = Key(fields, row)}
           at == IF old = {} THEN made ELSE (CHOOSE r \in old : TRUE).at
           x == [row |-> row, at |-> at, gone |-> FALSE]
<1>1. Saved(table, fields, row, made) = (table \ old) \cup {x}
  BY DEF Saved
<1>2. \A r \in table : r \in old <=> Alike(fields, r.row, row)
  BY AlikeIs
<1>3. at \in Nat /\ (old = {} => at = made)
  <2>1. CASE old = {}
    BY <2>1
  <2>2. CASE old # {}
    <3>1. (CHOOSE r \in old : TRUE) \in table
      BY <2>2
    <3>2. (CHOOSE r \in old : TRUE).at \in Nat
      BY <3>1 DEF TableRows
    <3> QED
      BY <2>2, <3>2
  <2> QED
    BY <2>1, <2>2
<1>a. (\A r \in table : ~Alike(fields, r.row, row)) => old = {}
  BY <1>2
<1> HIDE DEF at
<1>4. x \in TableRows(rows) /\ x.row = row /\ x.gone = FALSE /\ x.at = at
  BY <1>3 DEF TableRows
<1> HIDE DEF old, x
<1>5. Saved(table, fields, row, made) = Unlike(table, fields, row) \cup {x}
  BY <1>1, <1>2 DEF Unlike
<1>6. (\A r \in table : ~Alike(fields, r.row, row)) => x.at = made
  BY <1>3, <1>4, <1>a
<1> QED
  BY <1>4, <1>5, <1>6 DEF IsSaved

LEMMA SavedLive ==
    ASSUME NEW rows, NEW table, table \subseteq TableRows(rows), NEW fields, NEW row \in rows, NEW made \in Nat
    PROVE  /\ Saved(table, fields, row, made) \in SUBSET TableRows(rows)
           /\ Live(Saved(table, fields, row, made)) = Others(Live(table), fields, row) \cup {row}
           /\ KeysApart(table, fields) => KeysApart(Saved(table, fields, row, made), fields)
<1> DEFINE saved == Saved(table, fields, row, made)
<1>1. PICK new \in TableRows(rows) :
      /\ saved = Unlike(table, fields, row) \cup {new}
      /\ new.row = row /\ new.gone = FALSE
  <2>1. \E new : IsSaved(rows, table, fields, row, made, new)
    BY SavedTable
  <2>2. PICK new \in TableRows(rows) :
           /\ Saved(table, fields, row, made) = Unlike(table, fields, row) \cup {new}
           /\ new.row = row /\ new.gone = FALSE
    BY <2>1 DEF IsSaved
  <2> QED
    BY <2>2
<1>2a. \A r : r \in saved <=> (r \in table /\ ~Alike(fields, r.row, row)) \/ r = new
  BY <1>1 DEF Unlike
<1> HIDE DEF saved
<1>2. saved \in SUBSET TableRows(rows)
  BY <1>1, <1>2a
<1>3. Live(saved) = Others(Live(table), fields, row) \cup {row}
  <2>1. ASSUME NEW x \in Live(saved) PROVE x = row \/ (x \in Live(table) /\ ~Alike(fields, x, row))
    BY <1>1, <1>2a DEF Live, Plain
  <2>2. ASSUME NEW x \in Live(table), ~Alike(fields, x, row) PROVE x \in Live(saved)
    BY <1>1, <1>2a, <2>2 DEF Live, Plain
  <2>3. row \in Live(saved)
    BY <1>1, <1>2a DEF Live, Plain
  <2> QED
    BY <2>1, <2>2, <2>3 DEF Others
<1>4. KeysApart(table, fields) => KeysApart(saved, fields)
  <2> SUFFICES ASSUME KeysApart(table, fields), NEW r \in saved, NEW o \in saved, Alike(fields, r.row, o.row)
               PROVE  r = o
    BY DEF KeysApart
  <2>1. \A q \in saved : q = new \/ (q \in table /\ ~Alike(fields, q.row, new.row) /\ ~Alike(fields, new.row, q.row))
    BY <1>1, <1>2a DEF Alike
  <2> QED
    BY <2>1 DEF KeysApart
<1> QED
  BY <1>2, <1>3, <1>4 DEF saved

LEMMA DeletedLive ==
    ASSUME NEW rows, NEW table \in SUBSET TableRows(rows), NEW fields, NEW row
    PROVE  /\ Deleted(table, Key(fields, row)) \in SUBSET TableRows(rows)
           /\ Live(Deleted(table, Key(fields, row))) = Others(Live(table), fields, row)
           /\ \A keys : KeysApart(table, keys) => KeysApart(Deleted(table, Key(fields, row)), keys)
           /\ \A r \in Deleted(table, Key(fields, row)) : \E q \in table : r.row = q.row
<1> DEFINE gone(q) == [q EXCEPT !.gone = TRUE]
           then(q) == IF Alike(fields, q.row, row) THEN gone(q) ELSE q
           deleted == Deleted(table, Key(fields, row))
<1>1. deleted = {then(q) : q \in table}
  BY AlikeIs DEF Deleted
<1>2. ASSUME NEW q \in TableRows(rows)
      PROVE  gone(q) \in TableRows(rows) /\ gone(q).row = q.row /\ gone(q).gone = TRUE
  BY DEF TableRows
<1> HIDE DEF gone, deleted
<1>3. \A q \in table : /\ then(q) \in TableRows(rows) /\ then(q).row = q.row
                       /\ ~then(q).gone <=> (~q.gone /\ ~Alike(fields, q.row, row))
  BY <1>2
<1> HIDE DEF then
<1>4. deleted \in SUBSET TableRows(rows)
  BY <1>1, <1>3
<1>5. Live(deleted) = Others(Live(table), fields, row)
  <2>1. ASSUME NEW x \in Live(deleted) PROVE x \in Live(table) /\ ~Alike(fields, x, row)
    <3>1. PICK r \in deleted : ~r.gone /\ r.row = x
      BY DEF Live, Plain
    <3>2. PICK q \in table : r = then(q)
      BY <1>1
    <3>3. ~q.gone /\ ~Alike(fields, q.row, row) /\ q.row = x
      BY <1>3, <3>1, <3>2
    <3> QED
      BY <3>3 DEF Live, Plain
  <2>2. ASSUME NEW x \in Live(table), ~Alike(fields, x, row) PROVE x \in Live(deleted)
    <3>1. PICK q \in table : ~q.gone /\ q.row = x
      BY DEF Live, Plain
    <3>2. then(q) \in deleted /\ ~then(q).gone /\ then(q).row = x
      BY <1>1, <1>3, <2>2, <3>1
    <3> QED
      BY <3>2 DEF Live, Plain
  <2> QED
    BY <2>1, <2>2 DEF Others
<1>6. ASSUME NEW keys, KeysApart(table, keys) PROVE KeysApart(deleted, keys)
  BY <1>1, <1>3, <1>6 DEF KeysApart
<1>7. \A r \in deleted : \E q \in table : r.row = q.row
  BY <1>1, <1>3
<1> QED
  BY <1>4, <1>5, <1>6, <1>7 DEF deleted

----------------------------------------------------------------------------
(* The kinds of rows, and the keys of the two clients. *)

LEMMA KindsAre ==
    DOMAIN Samples = {"agent", "session", "task", "push", "event", "toolserver", "tool", "feedback",
                      "flow", "memory", "checkpoint", "write"}
BY SamplesAssumption DEF PrimaryKeys, EngineKeys

LEMMA PrimaryIs ==
    /\ Primary("agent") = {"id"} /\ Primary("session") = {"id", "user"} /\ Primary("task") = {"id"}
    /\ Primary("push") = {"id"} /\ Primary("event") = {"id", "user"}
    /\ Primary("toolserver") = {"name", "group"} /\ Primary("tool") = {"id", "server", "group"}
    /\ Primary("feedback") = {"id", "user"}
    /\ Primary("flow") = {"user", "thread", "method"} /\ Primary("memory") = {"user", "thread"}
    /\ Primary("checkpoint") = {"user", "thread", "id"}
    /\ Primary("write") = {"user", "thread", "id", "idx"}
BY DEF Primary, PrimaryKeys, EngineKeys

LEMMA MapKeyIs ==
    /\ DOMAIN Fake!MapKey = {"agent", "session", "task", "push", "toolserver", "tool", "flow", "checkpoint"}
    /\ Fake!MapKey["agent"] = {"id"} /\ Fake!MapKey["session"] = {"id", "user"}
    /\ Fake!MapKey["task"] = {"id"} /\ Fake!MapKey["push"] = {"task"}
    /\ Fake!MapKey["toolserver"] = {"name"} /\ Fake!MapKey["tool"] = {"id"}
    /\ Fake!MapKey["flow"] = {"user", "thread"} /\ Fake!MapKey["checkpoint"] = {"user", "thread", "id"}
BY DEF Fake!MapKey

\* Rows that clients store have the same key for the one client if and only if for
\* the other.
LEMMA SameKeys ==
    ASSUME NEW kind \in DOMAIN Fake!MapKey, NEW a \in Samples[kind], NEW b \in Samples[kind]
    PROVE  Alike(Fake!MapKey[kind], a, b) <=> Alike(Primary(kind), a, b)
<1>1. SameFake(kind, a, b) <=> Alike(Primary(kind), a, b)
  BY KindsAre, MapKeyIs, SamplesAssumption, AlikeIs
<1>2. SameFake(kind, a, b) <=> Key(Fake!MapKey[kind], a) = Key(Fake!MapKey[kind], b)
  BY MapKeyIs, PrimaryIs DEF SameFake
<1> QED
  BY <1>1, <1>2, AlikeIs

----------------------------------------------------------------------------
(* DatabaseClient: the inductive invariant. *)

RowsOf(kind) ==
    IF kind = "feedback" THEN {[user |-> r.user, id |-> n] : r \in Samples["feedback"], n \in Nat}
    ELSE Samples[kind]

TableGood(kind, table) == table \subseteq TableRows(RowsOf(kind)) /\ KeysApart(table, Primary(kind))

\* Events are never deleted, and each has an instant of its own.
EventsGood(table, now) ==
    /\ IsFiniteSet(table)
    /\ \A r \in table : r.gone = FALSE /\ r.at < now
    /\ \A r, o \in table : r.at = o.at => r = o

\* Nor is feedback, which is numbered as it comes.
FeedbackGood(table) ==
    IsFiniteSet(table) /\ \A r \in table : r.gone = FALSE /\ r.row.id <= Cardinality(table)

\* A write that is found belongs to a checkpoint that is.
Attached(writes, checkpoints) ==
    \A w \in Live(writes) : \E c \in Live(checkpoints) : Alike(Primary("checkpoint"), w, c)

DbInv ==
    /\ db = [kind \in DOMAIN Samples |-> db[kind]] /\ clock \in Nat /\ focus \in Focus
    /\ \A kind \in DOMAIN Samples : TableGood(kind, db[kind])
    /\ EventsGood(db["event"], clock)
    /\ FeedbackGood(db["feedback"])
    /\ Attached(db["write"], db["checkpoint"])

LEMMA InitDbInv == DbInit => DbInv
<1> SUFFICES ASSUME DbInit PROVE DbInv
  OBVIOUS
<1>1. /\ db = [kind \in DOMAIN Samples |-> {}] /\ clock = 0 /\ focus \in Focus
  BY DEF DbInit
<1>2. \A kind \in DOMAIN Samples : db[kind] = {}
  BY <1>1
<1>3. \A kind \in DOMAIN Samples : TableGood(kind, db[kind])
  BY <1>2 DEF TableGood, KeysApart
<1>4. db["event"] = {} /\ db["feedback"] = {} /\ db["write"] = {}
  BY <1>2, KindsAre
<1>5. EventsGood(db["event"], clock) /\ FeedbackGood(db["feedback"])
  BY <1>4, FS_EmptySet DEF EventsGood, FeedbackGood
<1>6. Attached(db["write"], db["checkpoint"])
  BY <1>4 DEF Attached, Live, Plain
<1> QED
  BY <1>1, <1>2, <1>3, <1>5, <1>6 DEF DbInv

LEMMA OneTable ==
    ASSUME DbInv, NEW kind \in DOMAIN Samples, NEW T, db' = [db EXCEPT ![kind] = T]
    PROVE  /\ db' = [k \in DOMAIN Samples |-> db'[k]] /\ db'[kind] = T
           /\ \A k \in DOMAIN Samples : k # kind => db'[k] = db[k]
BY DEF DbInv

LEMMA SavedGood ==
    ASSUME NEW kind, NEW table, TableGood(kind, table), NEW row \in RowsOf(kind), NEW made \in Nat
    PROVE  /\ TableGood(kind, Saved(table, Primary(kind), row, made))
           /\ Live(Saved(table, Primary(kind), row, made)) = Others(Live(table), Primary(kind), row) \cup {row}
<1>1. table \in SUBSET TableRows(RowsOf(kind)) /\ KeysApart(table, Primary(kind))
  BY DEF TableGood
<1>2. Saved(table, Primary(kind), row, made) \in SUBSET TableRows(RowsOf(kind))
  BY <1>1, SavedLive
<1>3. KeysApart(Saved(table, Primary(kind), row, made), Primary(kind))
  BY <1>1, SavedLive
<1>4. Live(Saved(table, Primary(kind), row, made)) = Others(Live(table), Primary(kind), row) \cup {row}
  BY <1>1, SavedLive
<1> QED
  BY <1>2, <1>3, <1>4 DEF TableGood

LEMMA EventsLater ==
    ASSUME DbInv
    PROVE  EventsGood(db["event"], clock + 1)
<1>1. EventsGood(db["event"], clock) /\ clock \in Nat
  BY DEF DbInv
<1>2. \A r \in db["event"] : r.at \in Nat
  BY KindsAre DEF DbInv, TableGood, TableRows
<1>3. \A r \in db["event"] : r.at < clock => r.at < clock + 1
  BY <1>1, <1>2
<1> QED
  BY <1>1, <1>3 DEF EventsGood

\* A save, of anything but an event or feedback.
LEMMA StoreKeeps ==
    ASSUME DbInv, NEW kind \in DOMAIN Samples \ {"event", "feedback"}, NEW row \in Samples[kind],
           Stores(kind, row), focus' = focus,
           kind = "write" => Found(db["checkpoint"], Key(Primary("checkpoint"), row)) # {},
           kind = "checkpoint" => Found(db[kind], Key(Primary(kind), row)) = {}
    PROVE  /\ DbInv'
           /\ Live(db'[kind]) = Others(Live(db[kind]), Primary(kind), row) \cup {row}
<1> DEFINE T == Saved(db[kind], Primary(kind), row, clock)
<1>1. /\ db' = [db EXCEPT ![kind] = T] /\ clock' = clock + 1 /\ clock \in Nat
      /\ TableGood(kind, db[kind])
  BY DEF Stores, DbInv
<1>2. /\ db' = [k \in DOMAIN Samples |-> db'[k]] /\ db'[kind] = T
      /\ \A k \in DOMAIN Samples : k # kind => db'[k] = db[k]
  BY <1>1, OneTable
<1>3. TableGood(kind, T) /\ Live(T) = Others(Live(db[kind]), Primary(kind), row) \cup {row}
  <2>1. row \in RowsOf(kind)
    BY DEF RowsOf
  <2> QED
    BY <1>1, <2>1, SavedGood
<1> HIDE DEF T
<1>4. \A k \in DOMAIN Samples : TableGood(k, db'[k])
  BY <1>2, <1>3 DEF DbInv
<1>5. db'["event"] = db["event"] /\ db'["feedback"] = db["feedback"]
  BY <1>2, KindsAre
<1>6. EventsGood(db'["event"], clock') /\ FeedbackGood(db'["feedback"])
  <2>1. \A r \in db["event"] : r.at \in Nat
    BY KindsAre DEF DbInv, TableGood, TableRows
  <2> QED
    BY <1>1, <1>5, <2>1 DEF DbInv, EventsGood
<1>7. Attached(db'["write"], db'["checkpoint"])
  <2>1. Attached(db["write"], db["checkpoint"])
    BY DEF DbInv
  <2>2. CASE kind = "write"
    <3>1. db'["checkpoint"] = db["checkpoint"] /\ db'["write"] = T
      BY <1>2, <2>2, KindsAre
    <3>2. \E c \in Live(db["checkpoint"]) : Alike(Primary("checkpoint"), row, c)
      <4>1. PICK r \in db["checkpoint"] : ~r.gone /\ Alike(Primary("checkpoint"), r.row, row)
        BY <2>2, LiveFound
      <4> QED
        BY <4>1 DEF Live, Plain, Alike
    <3> QED
      BY <1>3, <2>1, <2>2, <3>1, <3>2 DEF Attached, Others
  <2>3. CASE kind = "checkpoint"
    <3>1. db'["write"] = db["write"] /\ db'["checkpoint"] = T
      BY <1>2, <2>3, KindsAre
    <3>2. Live(db["checkpoint"]) \subseteq Live(T)
      <4>1. {x \in Live(db[kind]) : Alike(Primary(kind), x, row)} = {}
        BY <2>3, LiveFound DEF Plain
      <4> QED
        BY <1>3, <2>3, <4>1 DEF Others
    <3> QED
      BY <2>1, <3>1, <3>2 DEF Attached
  <2>4. CASE kind \notin {"write", "checkpoint"}
    BY <1>2, <2>1, <2>4, KindsAre
  <2> QED
    BY <2>2, <2>3, <2>4
<1>8. clock' \in Nat /\ focus' \in Focus
  BY <1>1 DEF DbInv
<1> QED
  BY <1>2, <1>3, <1>4, <1>6, <1>7, <1>8 DEF DbInv

LEMMA DeletedGood ==
    ASSUME NEW kind, NEW table, TableGood(kind, table), NEW fields, NEW row
    PROVE  /\ TableGood(kind, Deleted(table, Key(fields, row)))
           /\ Live(Deleted(table, Key(fields, row))) = Others(Live(table), fields, row)
<1>1. table \in SUBSET TableRows(RowsOf(kind)) /\ KeysApart(table, Primary(kind))
  BY DEF TableGood
<1>2. Deleted(table, Key(fields, row)) \in SUBSET TableRows(RowsOf(kind))
  BY <1>1, DeletedLive
<1>3. KeysApart(Deleted(table, Key(fields, row)), Primary(kind))
  BY <1>1, DeletedLive
<1>4. Live(Deleted(table, Key(fields, row))) = Others(Live(table), fields, row)
  BY <1>1, DeletedLive
<1> QED
  BY <1>2, <1>3, <1>4 DEF TableGood

LEMMA DeleteKeeps ==
    ASSUME DbInv, NEW kind \in DOMAIN Samples \ {"event", "feedback", "checkpoint", "write"}, NEW row, NEW fields,
           db' = [db EXCEPT ![kind] = Deleted(@, Key(fields, row))], clock' = clock, focus' = focus
    PROVE  /\ DbInv'
           /\ Live(db'[kind]) = Others(Live(db[kind]), fields, row)
<1> DEFINE T == Deleted(db[kind], Key(fields, row))
<1>1. db' = [db EXCEPT ![kind] = T] /\ TableGood(kind, db[kind])
  BY DEF DbInv
<1>2. /\ db' = [k \in DOMAIN Samples |-> db'[k]] /\ db'[kind] = T
      /\ \A k \in DOMAIN Samples : k # kind => db'[k] = db[k]
  BY <1>1, OneTable
<1>3. /\ TableGood(kind, T)
      /\ Live(T) = Others(Live(db[kind]), fields, row)
  BY <1>1, DeletedGood
<1> HIDE DEF T
<1>4. \A k \in DOMAIN Samples : TableGood(k, db'[k])
  BY <1>2, <1>3 DEF DbInv
<1>5. /\ db'["event"] = db["event"] /\ db'["feedback"] = db["feedback"]
      /\ db'["write"] = db["write"] /\ db'["checkpoint"] = db["checkpoint"]
  BY <1>2, KindsAre
<1> QED
  BY <1>2, <1>3, <1>4, <1>5 DEF DbInv

\* Deleting a thread takes the writes of its checkpoints, and no others.
LEMMA ThreadKeeps ==
    ASSUME DbInv, NEW row, DeleteThread(row), focus' = focus
    PROVE  /\ DbInv'
           /\ Live(db'["checkpoint"]) = Others(Live(db["checkpoint"]), {"user", "thread"}, row)
           /\ Live(db'["write"]) =
                {w \in Live(db["write"]) : \A c \in Live(db["checkpoint"]) :
                    Alike({"user", "thread"}, c, row) => ~Alike({"user", "thread", "id"}, w, c)}
           /\ \A k \in DOMAIN Samples \ {"checkpoint", "write"} : db'[k] = db[k]
<1> DEFINE C == Deleted(db["checkpoint"], Key({"user", "thread"}, row))
           W == Deleted(db["write"], Key({"user", "thread"}, row))
<1>1. /\ db' = [db EXCEPT !["checkpoint"] = C, !["write"] = W] /\ clock' = clock
      /\ TableGood("checkpoint", db["checkpoint"]) /\ TableGood("write", db["write"])
      /\ db = [k \in DOMAIN Samples |-> db[k]]
  BY KindsAre DEF DbInv, DeleteThread
<1>2. /\ TableGood("checkpoint", C) /\ TableGood("write", W)
      /\ Live(C) = Others(Live(db["checkpoint"]), {"user", "thread"}, row)
      /\ Live(W) = Others(Live(db["write"]), {"user", "thread"}, row)
  BY <1>1, DeletedGood
<1> HIDE DEF C, W
<1>3. /\ db' = [k \in DOMAIN Samples |-> db'[k]] /\ db'["checkpoint"] = C /\ db'["write"] = W
      /\ \A k \in DOMAIN Samples \ {"checkpoint", "write"} : db'[k] = db[k]
  BY <1>1, KindsAre
<1>4. \A k \in DOMAIN Samples : TableGood(k, db'[k])
  BY <1>2, <1>3 DEF DbInv
<1>5. db'["event"] = db["event"] /\ db'["feedback"] = db["feedback"]
  BY <1>3, KindsAre
<1>6. \A w \in Live(db["write"]) : \E c \in Live(db["checkpoint"]) : Alike({"user", "thread", "id"}, w, c)
  BY PrimaryIs DEF DbInv, Attached
<1>7. \A w, c : Alike({"user", "thread", "id"}, w, c) =>
                  (Alike({"user", "thread"}, w, row) <=> Alike({"user", "thread"}, c, row))
  BY DEF Alike
<1>8. Live(W) = {w \in Live(db["write"]) : \A c \in Live(db["checkpoint"]) :
                    Alike({"user", "thread"}, c, row) => ~Alike({"user", "thread", "id"}, w, c)}
  BY <1>2, <1>6, <1>7 DEF Others
<1>9. Attached(W, C)
  <2> SUFFICES ASSUME NEW w \in Live(W)
               PROVE  \E c \in Live(C) : Alike({"user", "thread", "id"}, w, c)
    BY PrimaryIs DEF Attached
  <2>1. w \in Live(db["write"]) /\ ~Alike({"user", "thread"}, w, row)
    BY <1>2 DEF Others
  <2>2. PICK c \in Live(db["checkpoint"]) : Alike({"user", "thread", "id"}, w, c)
    BY <1>6, <2>1
  <2> QED
    BY <1>2, <1>7, <2>1, <2>2 DEF Others
<1> QED
  BY <1>1, <1>2, <1>3, <1>4, <1>5, <1>8, <1>9 DEF DbInv

\* A new event comes last.
LEMMA EventKeeps ==
    ASSUME DbInv, NEW row \in Samples["event"], Stores("event", row), focus' = focus,
           Found(db["event"], Key(Primary("event"), row)) = {}
    PROVE  /\ DbInv'
           /\ \A k \in DOMAIN Samples \ {"event"} : db'[k] = db[k]
           /\ \E new : /\ db'["event"] = db["event"] \cup {new} /\ new.row = row /\ new.at = clock
                       /\ new \notin db["event"]
<1> DEFINE T == Saved(db["event"], Primary("event"), row, clock)
<1>1. /\ db' = [db EXCEPT !["event"] = T] /\ clock' = clock + 1 /\ clock \in Nat
      /\ db["event"] \subseteq TableRows(RowsOf("event")) /\ KeysApart(db["event"], Primary("event"))
      /\ row \in RowsOf("event")
  BY KindsAre DEF Stores, DbInv, TableGood, RowsOf
<1>2. \A r \in db["event"] : ~Alike(Primary("event"), r.row, row) /\ r.gone = FALSE /\ r.at < clock
  <2>1. \A r \in db["event"] : r.gone = FALSE /\ r.at < clock
    BY DEF DbInv, EventsGood
  <2>2. {r \in db["event"] : ~r.gone /\ Alike(Primary("event"), r.row, row)} = {}
    BY LiveFound
  <2> QED
    BY <2>1, <2>2
<1>3. PICK new : IsSaved(RowsOf("event"), db["event"], Primary("event"), row, clock, new)
  BY <1>1, SavedTable
<1>4. T = db["event"] \cup {new} /\ new.row = row /\ new.at = clock /\ new.gone = FALSE
  BY <1>2, <1>3 DEF IsSaved, Unlike
<1>5. TableGood("event", T)
  BY <1>1, SavedLive DEF TableGood
<1> HIDE DEF T
<1>6. /\ db' = [k \in DOMAIN Samples |-> db'[k]] /\ db'["event"] = T
      /\ \A k \in DOMAIN Samples : k # "event" => db'[k] = db[k]
  BY <1>1, KindsAre, OneTable
<1>7. EventsGood(T, clock + 1)
  <2>1. IsFiniteSet(T)
    BY <1>4, FS_AddElement DEF DbInv, EventsGood
  <2>2. \A r \in db["event"] : r.at \in Nat
    BY <1>1 DEF TableRows
  <2>3. \A r \in T : r.gone = FALSE /\ r.at < clock + 1
    BY <1>1, <1>2, <1>4, <2>2
  <2>4. ASSUME NEW r \in T, NEW o \in T, r.at = o.at PROVE r = o
    BY <1>1, <1>2, <1>4, <2>2, <2>4 DEF DbInv, EventsGood
  <2> QED
    BY <2>1, <2>3, <2>4 DEF EventsGood
<1>8. /\ db'["write"] = db["write"] /\ db'["checkpoint"] = db["checkpoint"]
      /\ db'["feedback"] = db["feedback"]
  BY <1>6, KindsAre
<1>9. \A k \in DOMAIN Samples : TableGood(k, db'[k])
  BY <1>5, <1>6 DEF DbInv
<1>10. DbInv'
  BY <1>1, <1>6, <1>7, <1>8, <1>9 DEF DbInv
<1>11. new \notin db["event"]
  BY <1>1, <1>2, <1>4
<1> QED
  BY <1>4, <1>6, <1>10, <1>11

\* Nor do feedback rows go: they are as many as those that are found.
LEMMA FeedbackKeeps ==
    ASSUME DbInv, NEW row \in Samples["feedback"], NEW n, n = Cardinality(db["feedback"]) + 1,
           NEW numbered, numbered = [user |-> row.user, id |-> n],
           Stores("feedback", numbered), focus' = focus
    PROVE  /\ DbInv'
           /\ Live(db'["feedback"]) = Live(db["feedback"]) \cup {numbered}
           /\ Cardinality(Live(db["feedback"])) = Cardinality(db["feedback"])
<1> DEFINE T == Saved(db["feedback"], Primary("feedback"), numbered, clock)
           F == db["feedback"]
<1>1. /\ db' = [db EXCEPT !["feedback"] = T] /\ clock' = clock + 1 /\ clock \in Nat
      /\ F \subseteq TableRows(RowsOf("feedback")) /\ KeysApart(F, Primary("feedback"))
      /\ IsFiniteSet(F) /\ n - 1 = Cardinality(F) /\ n \in Nat /\ Cardinality(F) \in Nat
  <2>1. F \subseteq TableRows(RowsOf("feedback")) /\ KeysApart(F, Primary("feedback")) /\ IsFiniteSet(F)
    BY KindsAre DEF DbInv, TableGood, FeedbackGood
  <2>2. Cardinality(F) \in Nat
    BY <2>1, FS_CardinalityType
  <2> QED
    BY <2>1, <2>2 DEF Stores, DbInv
<1>2. numbered \in RowsOf("feedback") /\ numbered.id = n
  BY <1>1 DEF RowsOf
<1>3. \A r \in F : r.row.id \in Nat /\ r.row.id <= n - 1 /\ r.gone = FALSE
  <2>1. \A r \in F : r.row \in {[user |-> q.user, id |-> m] : q \in Samples["feedback"], m \in Nat}
    BY <1>1 DEF TableRows, RowsOf
  <2>2. \A r \in F : r.row.id \in Nat
    BY <2>1
  <2> QED
    BY <1>1, <2>2 DEF DbInv, FeedbackGood
<1>4. \A r \in F : ~Alike(Primary("feedback"), r.row, numbered)
  <2>1. \A r \in F : r.row.id # n
    BY <1>1, <1>3
  <2> QED
    BY <1>2, <2>1, PrimaryIs DEF Alike
<1>5. PICK new : IsSaved(RowsOf("feedback"), F, Primary("feedback"), numbered, clock, new)
  BY <1>1, <1>2, SavedTable
<1>6. T = F \cup {new} /\ new.row = numbered /\ new.gone = FALSE
  BY <1>4, <1>5 DEF IsSaved, Unlike
<1>7. TableGood("feedback", T)
  <2>1. TableGood("feedback", F)
    BY KindsAre DEF DbInv
  <2> QED
    BY <1>1, <1>2, <2>1, SavedGood
<1> HIDE DEF T, F
<1>8. FeedbackGood(T)
  <2>1. new \notin F
    BY <1>1, <1>2, <1>3, <1>6
  <2>2. IsFiniteSet(T) /\ Cardinality(T) = n
    BY <1>1, <1>6, <2>1, FS_AddElement
  <2> QED
    <3>1. \A r \in T : r.gone = FALSE /\ r.row.id <= n
      <4>1. \A r \in F : r.row.id <= n
        BY <1>1, <1>3
      <4> QED
        BY <1>1, <1>2, <1>3, <1>6, <4>1
    <3> QED
      BY <2>2, <3>1 DEF FeedbackGood
<1>9. /\ db' = [k \in DOMAIN Samples |-> db'[k]] /\ db'["feedback"] = T
      /\ \A k \in DOMAIN Samples : k # "feedback" => db'[k] = db[k]
  BY <1>1, KindsAre, OneTable
<1>10. /\ db'["write"] = db["write"] /\ db'["checkpoint"] = db["checkpoint"]
       /\ db'["event"] = db["event"] /\ \A r \in db["event"] : r.at \in Nat
  BY <1>9, KindsAre DEF DbInv, TableGood, TableRows
<1>11. \A k \in DOMAIN Samples : TableGood(k, db'[k])
  BY <1>7, <1>9 DEF DbInv
<1>12. EventsGood(db'["event"], clock')
  <2>1. EventsGood(db["event"], clock) /\ db'["event"] = db["event"] /\ clock' = clock + 1
    BY <1>1, <1>10 DEF DbInv
  <2>2. \A r \in db["event"] : r.at < clock => r.at < clock + 1
    BY <1>1, <1>10
  <2> QED
    BY <2>1, <2>2 DEF EventsGood
<1>13. DbInv'
  BY <1>1, <1>8, <1>9, <1>10, <1>11, <1>12 DEF DbInv
<1>14. Live(T) = Live(F) \cup {numbered}
  BY <1>6 DEF Live, Plain
<1>15. Cardinality(Live(F)) = Cardinality(F)
  <2> DEFINE g == [r \in F |-> r.row]
  <2>1. g \in Surjection(F, Live(F))
    BY <1>3 DEF Surjection, Live, Plain
  <2>2. \A r, o \in F : r.row = o.row => r = o
    BY <1>1 DEF KeysApart, Alike
  <2>3. g \in Injection(F, Live(F))
    BY <2>1, <2>2 DEF Injection, IsInjective, Surjection
  <2> QED
    BY <1>1, <2>1, <2>3, FS_Surjection
<1> QED
  BY <1>9, <1>13, <1>14, <1>15 DEF F

\* Several saves of rows with keys of their own.
LEMMA SavedAllLive ==
    ASSUME NEW rows, NEW table, table \subseteq TableRows(rows), NEW fields, NEW new, new \subseteq rows,
           NEW made \in Nat, KeysApart(table, fields), \A a, b \in new : Alike(fields, a, b) => a = b
    PROVE  /\ SavedAll(table, fields, new, made) \subseteq TableRows(rows)
           /\ KeysApart(SavedAll(table, fields, new, made), fields)
           /\ \A x : x \in Live(SavedAll(table, fields, new, made)) <=>
                     x \in new \/ (x \in Live(table) /\ \A n \in new : ~Alike(fields, x, n))
<1> DEFINE own(n) == {r \in table : Key(fields, r.row) = Key(fields, n)}
           saved(n) == Saved(own(n), fields, n, made)
           all == SavedAll(table, fields, new, made)
<1>1. \A r : r \in all <=> \/ r \in table /\ \A n \in new : ~Alike(fields, r.row, n)
                           \/ \E n \in new : r \in saved(n)
  BY AlikeIs DEF SavedAll
<1>2. ASSUME NEW n \in new
      PROVE  /\ \A r \in saved(n) : r \in TableRows(rows) /\ r.row = n /\ r.gone = FALSE
             /\ \A r, o \in saved(n) : r = o
             /\ \E r : r \in saved(n)
  <2>1. own(n) \subseteq TableRows(rows) /\ \A r \in own(n) : Alike(fields, r.row, n)
    BY AlikeIs
  <2> HIDE DEF own
  <2>2. PICK x : IsSaved(rows, own(n), fields, n, made, x)
    BY <2>1, SavedTable
  <2> QED
    BY <2>1, <2>2 DEF IsSaved, Unlike
<1> HIDE DEF saved, all
<1>3. \A r \in all : \/ r \in table /\ \A n \in new : ~Alike(fields, r.row, n)
                     \/ r \in TableRows(rows) /\ r.row \in new /\ r.gone = FALSE /\ r \in saved(r.row)
  <2> SUFFICES ASSUME NEW r \in all, NEW n \in new, r \in saved(n)
               PROVE  r \in TableRows(rows) /\ r.row \in new /\ r.gone = FALSE /\ r \in saved(r.row)
    BY <1>1
  <2> QED
    BY <1>2
<1>4. ASSUME NEW n \in new PROVE \E r \in all : r.row = n /\ r.gone = FALSE
  <2>1. PICK r : r \in saved(n)
    BY <1>2
  <2> QED
    BY <1>1, <1>2, <2>1
<1>5. all \subseteq TableRows(rows)
  BY <1>3
<1>6. KeysApart(all, fields)
  <2> SUFFICES ASSUME NEW r \in all, NEW o \in all, Alike(fields, r.row, o.row) PROVE r = o
    BY DEF KeysApart
  <2>1. Alike(fields, o.row, r.row)
    BY DEF Alike
  <2>2. CASE r.row \in new /\ o.row \in new /\ r \in saved(r.row) /\ o \in saved(o.row)
    BY <1>2, <2>2
  <2>3. CASE r \in table /\ o \in table
    BY <2>3 DEF KeysApart
  <2> QED
    BY <1>3, <2>1, <2>2, <2>3
<1>7. ASSUME NEW x \in Live(all)
      PROVE  x \in new \/ (x \in Live(table) /\ \A n \in new : ~Alike(fields, x, n))
  <2>1. PICK r \in all : ~r.gone /\ r.row = x
    BY DEF Live, Plain
  <2> QED
    BY <1>3, <2>1 DEF Live, Plain
<1>8. ASSUME NEW x \in new PROVE x \in Live(all)
  BY <1>4 DEF Live, Plain
<1>9. ASSUME NEW x \in Live(table), \A n \in new : ~Alike(fields, x, n) PROVE x \in Live(all)
  <2>1. PICK r \in table : ~r.gone /\ r.row = x
    BY DEF Live, Plain
  <2>2. r \in all
    BY <1>1, <1>9, <2>1
  <2> QED
    BY <2>1, <2>2 DEF Live, Plain
<1> QED
  BY <1>5, <1>6, <1>7, <1>8, <1>9 DEF all

\* A refresh leaves the tools of other servers, and of this one the new ones.
LEMMA RefreshKeeps ==
    ASSUME DbInv, NEW server \in Samples["tool"], NEW new \in ToolLists(server.server),
           Refresh(server, new), focus' = focus
    PROVE  /\ DbInv'
           /\ \A k \in DOMAIN Samples : k # "tool" => db'[k] = db[k]
           /\ \A x : x \in Live(db'["tool"]) <=>
                     \/ x \in new
                     \/ /\ x \in Live(db["tool"]) /\ ~Alike({"server", "group"}, x, server)
                        /\ \A t \in new : t.id # x.id
<1> DEFINE D == db["tool"]
           going(r) == Matches(r.row, Key({"server", "group"}, server)) /\ r.row.id \notin {t.id : t \in new}
           then(r) == IF going(r) THEN [r EXCEPT !.gone = TRUE] ELSE r
           left == {then(r) : r \in D}
           T == SavedAll(left, Primary("tool"), new, clock)
<1>1. /\ db' = [db EXCEPT !["tool"] = T] /\ clock' = clock + 1 /\ clock \in Nat
      /\ TableGood("tool", D)
  BY KindsAre DEF Refresh, DbInv
<1>2. /\ new \subseteq Samples["tool"] /\ \A a, b \in new : a.id = b.id => a = b
      /\ D \subseteq TableRows(Samples["tool"]) /\ KeysApart(D, Primary("tool"))
  <2>1. RowsOf("tool") = Samples["tool"]
    BY DEF RowsOf
  <2> QED
    BY <1>1, <2>1 DEF TableGood, ToolLists
<1>3. \A r : going(r) <=> Alike({"server", "group"}, r.row, server) /\ \A t \in new : t.id # r.row.id
  BY AlikeIs
<1> HIDE DEF going
<1>4. \A r \in D : /\ then(r) \in TableRows(Samples["tool"]) /\ then(r).row = r.row
                   /\ then(r).gone = FALSE <=> (r.gone = FALSE /\ ~going(r))
  BY <1>2 DEF TableRows
<1> HIDE DEF then, D
<1>5. left \subseteq TableRows(Samples["tool"]) /\ KeysApart(left, Primary("tool"))
  <2>1. left \subseteq TableRows(Samples["tool"])
    BY <1>4
  <2>2. KeysApart(left, Primary("tool"))
    BY <1>2, <1>4 DEF KeysApart
  <2> QED
    BY <2>1, <2>2
<1>6. \A x : x \in Live(left) <=>
             \E r \in D : r.row = x /\ r.gone = FALSE /\ ~going(r)
  <2>1. \A x : x \in Live(left) <=> \E r \in D : then(r).row = x /\ ~then(r).gone
    BY DEF Live, Plain
  <2>2. \A r \in D : then(r).gone \in BOOLEAN
    BY <1>4 DEF TableRows
  <2> QED
    BY <1>4, <2>1, <2>2
<1> HIDE DEF left
<1>7. \A a, b \in Samples["tool"] : Alike(Primary("tool"), a, b) <=> a.id = b.id
  <2>1. \A a, b : Alike(Fake!MapKey["tool"], a, b) <=> a.id = b.id
    BY MapKeyIs DEF Alike
  <2> QED
    BY <2>1, SameKeys, MapKeyIs
<1>8. \A a, b \in new : Alike(Primary("tool"), a, b) => a = b
  BY <1>2, <1>7
<1>9. /\ T \subseteq TableRows(Samples["tool"]) /\ KeysApart(T, Primary("tool"))
      /\ \A x : x \in Live(T) <=> x \in new \/ (x \in Live(left) /\ \A n \in new : ~Alike(Primary("tool"), x, n))
  <2>1. /\ left \subseteq TableRows(Samples["tool"]) /\ KeysApart(left, Primary("tool"))
        /\ new \subseteq Samples["tool"] /\ clock \in Nat
        /\ \A a, b \in new : Alike(Primary("tool"), a, b) => a = b
    BY <1>1, <1>2, <1>5, <1>8
  <2>2. T \subseteq TableRows(Samples["tool"])
    BY <2>1, SavedAllLive
  <2>3. KeysApart(T, Primary("tool"))
    BY <2>1, SavedAllLive
  <2>4. \A x : x \in Live(T) <=>
                x \in new \/ (x \in Live(left) /\ \A n \in new : ~Alike(Primary("tool"), x, n))
    BY <2>1, SavedAllLive
  <2> QED
    BY <2>2, <2>3, <2>4
<1> HIDE DEF T
<1>10. /\ db' = [k \in DOMAIN Samples |-> db'[k]] /\ db'["tool"] = T
       /\ \A k \in DOMAIN Samples : k # "tool" => db'[k] = db[k]
  BY <1>1, KindsAre, OneTable
<1>11. TableGood("tool", T)
  <2>1. RowsOf("tool") = Samples["tool"]
    BY DEF RowsOf
  <2> QED
    BY <1>9, <2>1 DEF TableGood
<1>12. DbInv'
  <2>1. \A k \in DOMAIN Samples : TableGood(k, db'[k])
    BY <1>10, <1>11 DEF DbInv
  <2>2. /\ db'["write"] = db["write"] /\ db'["checkpoint"] = db["checkpoint"]
        /\ db'["event"] = db["event"] /\ db'["feedback"] = db["feedback"]
    BY <1>10, KindsAre
  <2>3. EventsGood(db'["event"], clock')
    BY <1>1, <2>2, EventsLater
  <2> QED
    BY <1>1, <1>10, <2>1, <2>2, <2>3 DEF DbInv
<1>13. \A x : x \in Live(T) <=>
              \/ x \in new
              \/ /\ x \in Live(D) /\ ~Alike({"server", "group"}, x, server)
                 /\ \A t \in new : t.id # x.id
  <2>1. \A x \in Live(left) \cup Live(D) : x \in Samples["tool"]
    <3>1. \A r \in D : r.row \in Samples["tool"]
      BY <1>2 DEF TableRows
    <3> QED
      BY <1>6, <3>1 DEF Live, Plain
  <2>2. \A x \in Live(left) : (\A n \in new : ~Alike(Primary("tool"), x, n)) <=> (\A n \in new : n.id # x.id)
    BY <1>2, <1>7, <2>1
  <2>3. \A x : x \in Live(D) <=> \E r \in D : r.row = x /\ r.gone = FALSE
    <3>1. \A r \in D : r.gone \in BOOLEAN
      BY <1>2 DEF TableRows
    <3> QED
      BY <3>1 DEF Live, Plain
  <2>4. ASSUME NEW x, \A t \in new : t.id # x.id
        PROVE  x \in Live(left) <=> (x \in Live(D) /\ ~Alike({"server", "group"}, x, server))
    BY <1>3, <1>6, <2>3, <2>4
  <2> QED
    BY <1>9, <2>2, <2>4
<1> QED
  BY <1>10, <1>12, <1>13 DEF D

----------------------------------------------------------------------------
(* Rows in the order of their creation. *)

Instants(S) == IsFiniteSet(S) /\ (\A r \in S : r.at \in Nat) /\ (\A r, o \in S : r.at = o.at => r = o)
Older(S, r) == {o \in S : o.at <= r.at}
Newer(S, r) == {o \in S : o.at >= r.at}

\* The i-th row has i rows up to it.
LEMMA RanksApart ==
    ASSUME NEW S, Instants(S)
    PROVE  /\ Cardinality(S) \in Nat
           /\ \A r \in S : Cardinality(Older(S, r)) \in 1..Cardinality(S)
           /\ \A r, o \in S : Cardinality(Older(S, r)) = Cardinality(Older(S, o)) => r = o
           /\ \A i \in 1..Cardinality(S) : \E r \in S : Cardinality(Older(S, r)) = i
<1> DEFINE n == Cardinality(S)
           rank == [r \in S |-> Cardinality(Older(S, r))]
<1>1. n \in Nat /\ IsFiniteSet(S)
  BY FS_CardinalityType DEF Instants
<1>2. ASSUME NEW r \in S
      PROVE  IsFiniteSet(Older(S, r)) /\ rank[r] \in 1..n /\ rank[r] \in Nat
  <2>1. Older(S, r) \in SUBSET S /\ r \in Older(S, r)
    BY DEF Older, Instants
  <2>2. IsFiniteSet(Older(S, r)) /\ Cardinality(Older(S, r)) <= n
    BY <1>1, <2>1, FS_Subset
  <2>3. Cardinality(Older(S, r)) \in Nat /\ Cardinality(Older(S, r)) # 0
    BY <2>1, <2>2, FS_CardinalityType, FS_EmptySet
  <2> QED
    BY <1>1, <2>2, <2>3
<1>3. ASSUME NEW r \in S, NEW o \in S, r.at < o.at
      PROVE  rank[r] < rank[o]
  <2>1. Older(S, r) \in SUBSET Older(S, o) /\ o \notin Older(S, r) /\ o \in Older(S, o)
    BY <1>3 DEF Older, Instants
  <2>2. IsFiniteSet(Older(S, o)) /\ rank[r] \in Nat /\ rank[o] \in Nat
    BY <1>2
  <2>3. /\ Cardinality(Older(S, r)) <= Cardinality(Older(S, o))
        /\ Cardinality(Older(S, o)) = Cardinality(Older(S, r)) => Older(S, o) = Older(S, r)
    BY <2>1, <2>2, FS_Subset
  <2>4. rank[r] <= rank[o] /\ rank[o] # rank[r]
    BY <2>1, <2>3
  <2> QED
    BY <2>2, <2>4
<1>4. \A r \in S : rank[r] = Cardinality(Older(S, r))
  OBVIOUS
<1> HIDE DEF rank
<1>5. ASSUME NEW r \in S, NEW o \in S, rank[r] = rank[o]
      PROVE  r = o
  <2>1. r.at \in Nat /\ o.at \in Nat /\ rank[r] \in Nat
    BY <1>2 DEF Instants
  <2>2. ~(r.at < o.at) /\ ~(o.at < r.at)
    BY <1>3, <1>5, <2>1
  <2> QED
    BY <2>1, <2>2 DEF Instants
<1>6. \A i \in 1..n : \E r \in S : rank[r] = i
  <2>1. rank \in Injection(S, 1..n)
    BY <1>2, <1>5 DEF Injection, IsInjective, rank
  <2>2. IsFiniteSet(1..n) /\ Cardinality(1..n) = n
    BY <1>1, FS_Interval
  <2>3. rank \in Surjection(S, 1..n)
    BY <2>1, <2>2, FS_Injection
  <2> QED
    BY <2>3 DEF Surjection
<1> QED
  BY <1>1, <1>2, <1>4, <1>5, <1>6

LEMMA OldestIs ==
    ASSUME NEW S, Instants(S)
    PROVE  /\ Cardinality(S) \in Nat /\ DOMAIN OldestFirst(S) = 1..Cardinality(S)
           /\ \A i \in 1..Cardinality(S) :
                 OldestFirst(S)[i] \in S /\ Cardinality(Older(S, OldestFirst(S)[i])) = i
           /\ \A r \in S, i \in 1..Cardinality(S) : Cardinality(Older(S, r)) = i => OldestFirst(S)[i] = r
<1>1. OldestFirst(S) = [i \in 1..Cardinality(S) |-> CHOOSE r \in S : Cardinality(Older(S, r)) = i]
  BY DEF OldestFirst, Older
<1>2. ASSUME NEW i \in 1..Cardinality(S)
      PROVE  OldestFirst(S)[i] \in S /\ Cardinality(Older(S, OldestFirst(S)[i])) = i
  <2>1. OldestFirst(S)[i] = CHOOSE r \in S : Cardinality(Older(S, r)) = i
    BY <1>1
  <2>2. \E r \in S : Cardinality(Older(S, r)) = i
    BY RanksApart
  <2> QED
    BY <2>1, <2>2
<1> QED
  BY <1>1, <1>2, RanksApart

\* In the one order the i-th from the front is in the other the i-th from the end.
LEMMA NewestIsReversed ==
    ASSUME NEW S, Instants(S)
    PROVE  /\ DOMAIN NewestFirst(S) = 1..Cardinality(S)
           /\ \A i \in 1..Cardinality(S) : NewestFirst(S)[Cardinality(S) - i + 1] = OldestFirst(S)[i]
<1> DEFINE n == Cardinality(S)
<1>1. n \in Nat /\ IsFiniteSet(S)
  BY RanksApart DEF Instants
<1>2. NewestFirst(S) = [i \in 1..n |-> CHOOSE r \in S : Cardinality(Newer(S, r)) = i]
  BY DEF NewestFirst, Newer
<1>3. ASSUME NEW r \in S
      PROVE  Cardinality(Newer(S, r)) = n - Cardinality(Older(S, r)) + 1
  <2>1. /\ Older(S, r) \in SUBSET S /\ Newer(S, r) \in SUBSET S
        /\ Older(S, r) \cup Newer(S, r) = S /\ Older(S, r) \cap Newer(S, r) = {r}
    BY DEF Older, Newer, Instants
  <2>2. IsFiniteSet(Older(S, r)) /\ IsFiniteSet(Newer(S, r))
    BY <1>1, <2>1, FS_Subset
  <2>3. n = Cardinality(Older(S, r)) + Cardinality(Newer(S, r)) - Cardinality({r})
    BY <2>1, <2>2, FS_Union
  <2>4. Cardinality({r}) = 1
    BY FS_Singleton
  <2>5. Cardinality(Older(S, r)) \in Nat /\ Cardinality(Newer(S, r)) \in Nat
    BY <2>2, FS_CardinalityType
  <2> QED
    BY <1>1, <2>3, <2>4, <2>5
<1>4. ASSUME NEW i \in 1..n
      PROVE  NewestFirst(S)[n - i + 1] = OldestFirst(S)[i]
  <2>1. n - i + 1 \in 1..n
    BY <1>1
  <2>2. NewestFirst(S)[n - i + 1] = CHOOSE r \in S : Cardinality(Newer(S, r)) = n - i + 1
    BY <1>2, <2>1
  <2>3. \A r \in S : Cardinality(Older(S, r)) \in Nat
    BY RanksApart
  <2>4. \A r \in S : Cardinality(Newer(S, r)) = n - i + 1 <=> Cardinality(Older(S, r)) = i
    BY <1>1, <1>3, <2>3
  <2>5. \E r \in S : Cardinality(Newer(S, r)) = n - i + 1
    BY <2>4, RanksApart
  <2>6. /\ NewestFirst(S)[n - i + 1] \in S
        /\ Cardinality(Newer(S, NewestFirst(S)[n - i + 1])) = n - i + 1
    BY <2>2, <2>5
  <2> QED
    BY <2>4, <2>6, OldestIs
<1> QED
  BY <1>2, <1>4

\* A row that comes later than all others comes last.
Later(S, new) == new.at \in Nat /\ \A r \in S : r.at < new.at
ComesLast(S, new) ==
    /\ Cardinality(S \cup {new}) = Cardinality(S) + 1
    /\ OldestFirst(S \cup {new})[Cardinality(S) + 1] = new
    /\ \A i \in 1..Cardinality(S) : OldestFirst(S \cup {new})[i] = OldestFirst(S)[i]

LEMMA OldestThenNew ==
    ASSUME NEW S, Instants(S), NEW new, Later(S, new)
    PROVE  ComesLast(S, new)
<1> DEFINE n == Cardinality(S)
           all == S \cup {new}
<1>1. n \in Nat /\ IsFiniteSet(S) /\ new \notin S
  BY RanksApart DEF Instants, Later
<1>2. IsFiniteSet(all) /\ Cardinality(all) = n + 1
  BY <1>1, FS_AddElement
<1>3. Instants(all)
  <2>1. \A r \in all : r.at \in Nat
    BY DEF Instants, Later
  <2>2. ASSUME NEW r \in all, NEW o \in all, r.at = o.at PROVE r = o
    BY <2>1, <2>2 DEF Instants, Later
  <2> QED
    BY <1>2, <2>1, <2>2 DEF Instants, Later
<1>4. Older(all, new) = all
  BY <1>3 DEF Older, Instants, Later
<1>5. \A r \in S : Older(all, r) = Older(S, r)
  BY <1>3 DEF Older, Instants, Later
<1>6. OldestFirst(all)[n + 1] = new
  <2>1. new \in all /\ n + 1 \in 1..Cardinality(all) /\ Cardinality(Older(all, new)) = n + 1
    BY <1>1, <1>2, <1>4
  <2> QED
    BY <1>3, <2>1, OldestIs
<1>7. ASSUME NEW i \in 1..n PROVE OldestFirst(all)[i] = OldestFirst(S)[i]
  <2>1. OldestFirst(S)[i] \in S /\ Cardinality(Older(S, OldestFirst(S)[i])) = i
    BY OldestIs
  <2>2. OldestFirst(S)[i] \in all /\ i \in 1..Cardinality(all) /\ Cardinality(Older(all, OldestFirst(S)[i])) = i
    BY <1>1, <1>2, <1>5, <2>1
  <2> QED
    BY <1>3, <2>2, OldestIs
<1> QED
  BY <1>2, <1>6, <1>7 DEF ComesLast

EventsOf(table, s) == {r \in table : r.row.session = s}

LEMMA PlainSequence ==
    ASSUME NEW S, Instants(S)
    PROVE  /\ InSequence(OldestFirst(S)) = [i \in 1..Cardinality(S) |-> OldestFirst(S)[i].row]
           /\ InSequence(OldestFirst(S)) \in Seq(Plain(S))
           /\ Len(InSequence(OldestFirst(S))) = Cardinality(S)
<1> DEFINE n == Cardinality(S)
           s == InSequence(OldestFirst(S))
<1>1. n \in Nat /\ s = [i \in 1..n |-> OldestFirst(S)[i].row]
  BY OldestIs DEF InSequence
<1>2. \A i \in 1..n : OldestFirst(S)[i].row \in Plain(S)
  BY OldestIs DEF Plain
<1> HIDE DEF s, n
<1>3. s \in Seq(Plain(S)) /\ Len(s) = n
  BY <1>1, <1>2
<1> QED
  BY <1>1, <1>3 DEF s, n

LEMMA StreamGrows ==
    ASSUME NEW S, Instants(S), NEW new, Later(S, new)
    PROVE  InSequence(OldestFirst(S \cup {new})) = Append(InSequence(OldestFirst(S)), new.row)
<1> DEFINE n == Cardinality(S)
           s == InSequence(OldestFirst(S))
           all == S \cup {new}
           t == InSequence(OldestFirst(all))
<1>1. /\ n \in Nat /\ s \in Seq(Plain(S)) /\ Len(s) = n
      /\ \A i \in 1..n : s[i] = OldestFirst(S)[i].row
  BY PlainSequence, OldestIs
<1>2. Instants(all)
  <2>1. IsFiniteSet(all)
    BY FS_AddElement DEF Instants, Later
  <2>2. \A r \in all : r.at \in Nat
    BY DEF Instants, Later
  <2>3. ASSUME NEW r \in all, NEW o \in all, r.at = o.at PROVE r = o
    BY <2>2, <2>3 DEF Instants, Later
  <2> QED
    BY <2>1, <2>2, <2>3 DEF Instants, Later
<1>3. /\ t = [i \in 1..(n + 1) |-> OldestFirst(all)[i].row]
      /\ t \in Seq(Plain(all)) /\ Len(t) = n + 1
  <2>1. Cardinality(all) = n + 1
    BY OldestThenNew DEF ComesLast
  <2>2. t = [i \in 1..Cardinality(all) |-> OldestFirst(all)[i].row]
    BY <1>2, PlainSequence
  <2>3. t \in Seq(Plain(all)) /\ Len(t) = Cardinality(all)
    BY <1>2, PlainSequence
  <2> QED
    BY <2>1, <2>2, <2>3
<1>4. t[n + 1] = new.row /\ \A i \in 1..n : t[i] = s[i]
  <2>1. OldestFirst(all)[n + 1] = new
    BY OldestThenNew DEF ComesLast
  <2>2. \A i \in 1..n : OldestFirst(all)[i] = OldestFirst(S)[i]
    <3>1. ComesLast(S, new)
      BY OldestThenNew
    <3> HIDE DEF s, t
    <3> QED
      BY <3>1 DEF ComesLast
  <2> HIDE DEF s, n, all, t
  <2>3. n + 1 \in 1..(n + 1) /\ \A i \in 1..n : i \in 1..(n + 1)
    BY <1>1
  <2>4. t[n + 1] = OldestFirst(all)[n + 1].row
    BY <1>3, <2>3
  <2>5. \A i \in 1..n : t[i] = OldestFirst(all)[i].row
    BY <1>3, <2>3
  <2> QED
    BY <1>1, <2>1, <2>2, <2>4, <2>5
<1> HIDE DEF s, t, n, all
<1>5. s \in Seq(Plain(all) \cup Plain(S)) /\ new.row \in Plain(all)
  BY <1>1 DEF Plain, all
<1>6. /\ Append(s, new.row) \in Seq(Plain(all) \cup Plain(S))
      /\ Len(Append(s, new.row)) = n + 1
      /\ \A i \in 1..n : Append(s, new.row)[i] = s[i]
      /\ Append(s, new.row)[n + 1] = new.row
  BY <1>1, <1>5, AppendProperties
<1>7. t \in Seq(Plain(all) \cup Plain(S))
  BY <1>3
<1>8. \A i \in 1..Len(t) : t[i] = Append(s, new.row)[i]
  <2>1. \A i \in 1..Len(t) : i \in 1..n \/ i = n + 1
    BY <1>1, <1>3
  <2> QED
    BY <1>4, <1>6, <2>1
<1>9. t = Append(s, new.row)
  BY <1>3, <1>6, <1>7, <1>8, SeqEqual
<1> QED
  BY <1>9 DEF s, t, all

LEMMA StreamReversed ==
    ASSUME NEW S, Instants(S)
    PROVE  Reverse(InSequence(NewestFirst(S))) = InSequence(OldestFirst(S))
<1> DEFINE n == Cardinality(S)
           s == InSequence(NewestFirst(S))
<1>1. n \in Nat /\ s = [i \in 1..n |-> NewestFirst(S)[i].row]
  BY NewestIsReversed, OldestIs DEF InSequence
<1>2. Len(s) = n
  BY <1>1
<1>3. Reverse(s) = [i \in 1..n |-> s[(n - i) + 1]]
  BY <1>2 DEF Reverse
<1>4. \A i \in 1..n : s[(n - i) + 1] = OldestFirst(S)[i].row
  <2> SUFFICES ASSUME NEW i \in 1..n PROVE s[(n - i) + 1] = OldestFirst(S)[i].row
    OBVIOUS
  <2>1. (n - i) + 1 \in 1..n
    BY <1>1
  <2>2. s[(n - i) + 1] = NewestFirst(S)[(n - i) + 1].row
    BY <1>1, <2>1
  <2> QED
    BY <2>2, NewestIsReversed
<1>5. Reverse(s) = [i \in 1..n |-> OldestFirst(S)[i].row]
  BY <1>3, <1>4
<1> QED
  BY <1>5, PlainSequence

----------------------------------------------------------------------------
(* Each call is a call of the fake. *)

Maps  == [kind \in DOMAIN Samples |-> IF kind = "event" THEN {} ELSE Shown(kind)]
Streams == [s \in {e.session : e \in Samples["event"]} |->
              InSequence(OldestFirst({r \in db["event"] : r.row.session = s}))]

LEMMA MapsAre ==
    ASSUME NEW kind \in DOMAIN Samples \ {"event"}
    PROVE  Maps[kind] = Live(db[kind])
BY DEF Maps, Shown, Live

LEMMA MapsAreThen ==
    ASSUME NEW kind \in DOMAIN Samples \ {"event"}
    PROVE  Maps'[kind] = Live(db'[kind])
BY DEF Maps, Shown, Live

LEMMA SameIs ==
    ASSUME NEW kind \in DOMAIN Samples \ {"event"}, NEW row
    PROVE  Fake!Same(kind, row) = {x \in Live(db[kind]) : Alike(Fake!MapKey[kind], x, row)}
BY DEF Fake!Same, Fake!Agrees, Alike, Shown, Live

\* One table changes.
LEMMA BecomesWhen ==
    ASSUME NEW kind \in DOMAIN Samples \ {"event"}, NEW rows, NEW a,
           Live(db'[kind]) = rows,
           \A k \in DOMAIN Samples : k # kind => db'[k] = db[k],
           answer' = a, call'.op # "events"
    PROVE  Fake!Becomes(kind, rows, a)
<1>1. Maps' = [Maps EXCEPT ![kind] = rows]
  <2>1. \A k \in DOMAIN Samples \ {"event"} : k # kind => Live(db'[k]) = Live(db[k])
    OBVIOUS
  <2> QED
    BY <2>1 DEF Maps, Shown, Live
<1>2. Streams' = Streams
  BY KindsAre DEF Streams
<1> QED
  BY <1>1, <1>2 DEF Fake!Becomes, Maps, Streams

LEMMA AnswersWhen ==
    ASSUME NEW a, UNCHANGED db, answer' = a, call'.op # "events"
    PROVE  Fake!Answers(a)
BY DEF Fake!Answers, Shown

LEMMA LiveAre ==
    ASSUME DbInv, NEW kind \in DOMAIN Samples \ {"feedback"}
    PROVE  /\ Live(db[kind]) \subseteq Samples[kind]
           /\ \A x, y \in Live(db[kind]) : Alike(Primary(kind), x, y) => x = y
<1>1. db[kind] \subseteq TableRows(Samples[kind]) /\ KeysApart(db[kind], Primary(kind))
  <2>1. RowsOf(kind) = Samples[kind]
    BY DEF RowsOf
  <2> QED
    BY <2>1 DEF DbInv, TableGood
<1>2. \A r \in db[kind] : r.row \in Samples[kind]
  BY <1>1 DEF TableRows
<1>3. ASSUME NEW x \in Live(db[kind]), NEW y \in Live(db[kind]), Alike(Primary(kind), x, y)
      PROVE  x = y
  <2>1. PICK r \in db[kind] : r.row = x
    BY DEF Live, Plain
  <2>2. PICK o \in db[kind] : o.row = y
    BY DEF Live, Plain
  <2> QED
    BY <1>1, <1>3, <2>1, <2>2 DEF KeysApart
<1> QED
  BY <1>2, <1>3 DEF Live, Plain

PutKinds == {"agent", "session", "task", "push", "toolserver", "tool", "flow"}

LEMMA PutStep ==
    ASSUME DbInv, NEW kind \in PutKinds, NEW row \in Samples[kind], DbStore(kind, row), focus' = focus
    PROVE  DbInv' /\ Fake!Puts(kind, row) /\ Fake!Call("store", row, {})
<1>1. /\ kind \in DOMAIN Samples \ {"event", "feedback", "write", "checkpoint"} /\ kind \in DOMAIN Fake!MapKey
      /\ Stores(kind, row) /\ call' = [op |-> "store", row |-> row, fields |-> {}]
  BY KindsAre, MapKeyIs DEF PutKinds, DbStore, Call
<1>2. /\ DbInv' /\ Live(db'[kind]) = Others(Live(db[kind]), Primary(kind), row) \cup {row}
  BY <1>1, StoreKeeps
<1>3. \A k \in DOMAIN Samples : k # kind => db'[k] = db[k]
  BY <1>1, OneTable DEF Stores
<1>4. Others(Live(db[kind]), Primary(kind), row) = Live(db[kind]) \ Fake!Same(kind, row)
  <2>1. Live(db[kind]) \subseteq Samples[kind]
    BY <1>1, LiveAre
  <2>2. \A x \in Live(db[kind]) : Alike(Fake!MapKey[kind], x, row) <=> Alike(Primary(kind), x, row)
    BY <1>1, <2>1, SameKeys
  <2>3. Fake!Same(kind, row) = {x \in Live(db[kind]) : Alike(Fake!MapKey[kind], x, row)}
    BY <1>1, SameIs
  <2> QED
    BY <2>2, <2>3 DEF Others
<1>5. Fake!Becomes(kind, (Live(db[kind]) \ Fake!Same(kind, row)) \cup {row}, "stored")
  BY <1>1, <1>2, <1>3, <1>4, BecomesWhen DEF Stores
<1>6. Maps[kind] = Live(db[kind])
  BY <1>1, MapsAre
<1>7. Fake!Puts(kind, row)
  BY <1>5, <1>6 DEF Fake!Puts, Maps
<1>8. Fake!Call("store", row, {})
  BY <1>1 DEF Fake!Call
<1> QED
  BY <1>2, <1>7, <1>8

\* What is found for the fields that a kind is asked for is what the fake has for
\* its key, one row or none.
LEMMA GetStep ==
    ASSUME DbInv, NEW kind \in DOMAIN GetBy, NEW row \in Samples[kind], DbGet(kind, row), focus' = focus
    PROVE  DbInv' /\ Fake!Gets(kind, row) /\ Fake!Call("get", row, {})
<1> DEFINE rows == Found(db[kind], Key(GetBy[kind], row))
           key == Fake!MapKey[kind]
           same == Fake!Same(kind, row)
<1>1. /\ kind \in DOMAIN Samples \ {"event", "feedback", "write", "checkpoint"} /\ kind \in DOMAIN Fake!MapKey
      /\ kind = "push" => rows # {}
      /\ answer' = IF rows = {} THEN IF kind = "flow" THEN None ELSE "notFound"
                   ELSE (CHOOSE r \in rows : TRUE).row
      /\ UNCHANGED <<db, clock>> /\ call' = [op |-> "get", row |-> row, fields |-> {}]
  BY KindsAre, MapKeyIs DEF GetBy, DbGet, Call, Answers
<1>2. GetBy[kind] = IF kind = "push" THEN {"task", "id"} ELSE key
  BY MapKeyIs DEF GetBy
<1>3. /\ rows = {r \in db[kind] : ~r.gone /\ Alike(GetBy[kind], r.row, row)}
      /\ same = {x \in Live(db[kind]) : Alike(key, x, row)}
  BY <1>1, LiveFound, SameIs
<1>4. \A x, y \in same : x = y
  <2>1. /\ Live(db[kind]) \subseteq Samples[kind]
        /\ \A x, y \in Live(db[kind]) : Alike(Primary(kind), x, y) => x = y
    BY <1>1, LiveAre
  <2>2. \A x, y \in Live(db[kind]) : Alike(key, x, y) => Alike(Primary(kind), x, y)
    BY <1>1, <2>1, SameKeys
  <2>3. \A x, y : Alike(key, x, row) /\ Alike(key, y, row) => Alike(key, x, y)
    BY DEF Alike
  <2> QED
    BY <1>3, <2>1, <2>2, <2>3
<1>5. \A r \in rows : r.row \in same
  <2>1. \A x : Alike(GetBy[kind], x, row) => Alike(key, x, row)
    BY <1>2, MapKeyIs DEF Alike
  <2> QED
    BY <1>3, <2>1 DEF Live, Plain
<1>6. rows = {} => same = {}
  <2>1. kind # "push" => \A x \in same : \E r \in rows : r.row = x
    BY <1>2, <1>3 DEF Live, Plain
  <2> QED
    BY <1>1, <2>1
<1> HIDE DEF rows, same, key
<1>7. answer' = IF same # {} THEN CHOOSE x \in same : TRUE
                ELSE IF kind \in {"push", "flow"} THEN None ELSE "notFound"
  <2>1. CASE rows = {}
    BY <1>1, <1>6, <2>1
  <2>2. CASE rows # {}
    <3>1. (CHOOSE r \in rows : TRUE) \in rows
      BY <2>2
    <3>2. (CHOOSE r \in rows : TRUE).row \in same /\ (CHOOSE x \in same : TRUE) \in same
      BY <1>5, <3>1
    <3> QED
      BY <1>1, <1>4, <2>2, <3>2
  <2> QED
    BY <2>1, <2>2
<1>8. Fake!Answers(IF same # {} THEN CHOOSE x \in same : TRUE
                   ELSE IF kind \in {"push", "flow"} THEN None ELSE "notFound")
  BY <1>1, <1>7, AnswersWhen
<1>9. Fake!Gets(kind, row)
  BY <1>8 DEF Fake!Gets, same
<1>10. DbInv'
  BY <1>1 DEF DbInv
<1> QED
  BY <1>1, <1>9, <1>10 DEF Fake!Call

LEMMA DeleteStep ==
    ASSUME DbInv, NEW kind \in DOMAIN DeleteBy, NEW row \in Samples[kind], DbDelete(kind, row), focus' = focus
    PROVE  /\ DbInv' /\ Fake!Call("delete", row, {})
           /\ kind \in {"agent", "session", "toolserver", "tool"} => Fake!FakeDelete(kind, row)
           /\ kind \in {"task", "push"} => Fake!Becomes(kind, Maps[kind] \ Fake!Same(kind, row), "deleted")
           /\ kind = "memory" => Fake!FakeResetMemory(row)
<1> DEFINE live == Live(db[kind])
           left == Others(live, DeleteBy[kind], row)
<1>1. /\ kind \in DOMAIN Samples \ {"event", "feedback", "write", "checkpoint"}
      /\ db' = [db EXCEPT ![kind] = Deleted(@, Key(DeleteBy[kind], row))]
      /\ call' = [op |-> "delete", row |-> row, fields |-> {}] /\ answer' = "deleted" /\ clock' = clock
      /\ kind = "agent" => Found(db[kind], Key({"id"}, row)) # {}
  BY KindsAre DEF DeleteBy, DbDelete, Call
<1>2. DbInv' /\ Live(db'[kind]) = left
  BY <1>1, DeleteKeeps
<1>3. \A k \in DOMAIN Samples : k # kind => db'[k] = db[k]
  BY <1>1, OneTable
<1>4. ASSUME NEW rows, rows = left PROVE Fake!Becomes(kind, rows, "deleted")
  BY <1>1, <1>2, <1>3, <1>4, BecomesWhen
<1>5. Maps[kind] = live /\ live \subseteq Samples[kind]
  BY <1>1, MapsAre, LiveAre
<1> HIDE DEF live, left
<1>6. kind \in {"agent", "session", "toolserver", "tool"} => Fake!FakeDelete(kind, row)
  <2> SUFFICES ASSUME kind \in {"agent", "session", "toolserver", "tool"} PROVE Fake!FakeDelete(kind, row)
    OBVIOUS
  <2> DEFINE by == IF kind = "tool" THEN {"server"} ELSE Fake!MapKey[kind]
             fake == {r \in Maps[kind] : ~Fake!Agrees(r, row, by)}
  <2>1. fake = {x \in live : ~Alike(by, x, row)}
    BY <1>5 DEF Fake!Agrees, Alike
  <2>2. \A x \in live : Alike(by, x, row) <=> Alike(DeleteBy[kind], x, row)
    <3>1. CASE kind \in {"agent", "session"}
      <4>1. by = DeleteBy[kind]
        BY <3>1, MapKeyIs DEF DeleteBy
      <4> QED
        BY <4>1
    <3>2. CASE kind = "toolserver"
      <4>1. by = Fake!MapKey[kind] /\ DeleteBy[kind] = Primary(kind) /\ kind \in DOMAIN Fake!MapKey
        BY <3>2, MapKeyIs, PrimaryIs DEF DeleteBy
      <4> QED
        BY <1>5, <4>1, SameKeys
    <3>3. CASE kind = "tool"
      <4>1. by = {"server"} /\ DeleteBy[kind] = {"server", "group"}
        BY <3>3 DEF DeleteBy
      <4>2. \A x \in live : x.server = row.server => x.group = row.group
        BY <1>5, <3>3, SamplesAssumption
      <4> QED
        BY <4>1, <4>2 DEF Alike
    <3> QED
      BY <3>1, <3>2, <3>3
  <2>3. fake = left
    BY <2>1, <2>2 DEF left, Others
  <2>4. kind = "agent" => fake # Maps[kind]
    <3> SUFFICES ASSUME kind = "agent" PROVE fake # Maps[kind]
      OBVIOUS
    <3>1. PICK r \in db[kind] : ~r.gone /\ Alike({"id"}, r.row, row)
      BY <1>1, LiveFound
    <3>2. r.row \in live /\ by = {"id"}
      BY <3>1, MapKeyIs DEF live, Live, Plain
    <3> QED
      BY <1>5, <2>1, <3>1, <3>2
  <2>5. Fake!Becomes(kind, fake, "deleted")
    BY <1>4, <2>3
  <2> QED
    BY <2>4, <2>5 DEF Fake!FakeDelete, Maps
<1>7. ASSUME kind \in {"task", "push"}
      PROVE  Fake!Becomes(kind, Maps[kind] \ Fake!Same(kind, row), "deleted")
  <2>1. DeleteBy[kind] = Fake!MapKey[kind]
    BY <1>7, MapKeyIs DEF DeleteBy
  <2>2. Fake!Same(kind, row) = {x \in live : Alike(Fake!MapKey[kind], x, row)}
    BY <1>1, SameIs DEF live
  <2>3. Maps[kind] \ Fake!Same(kind, row) = left
    BY <1>5, <2>1, <2>2 DEF left, Others
  <2> QED
    BY <1>4, <2>3
<1>8. ASSUME kind = "memory" PROVE Fake!FakeResetMemory(row)
  <2>1. {r \in Maps["memory"] : ~Fake!Agrees(r, row, {"user", "thread"})} = left
    <3>1. DeleteBy[kind] = {"user", "thread"} /\ Maps["memory"] = live
      BY <1>5, <1>8 DEF DeleteBy
    <3> QED
      BY <3>1 DEF Fake!Agrees, Alike, left, Others
  <2>2. Fake!Becomes("memory", {r \in Maps["memory"] : ~Fake!Agrees(r, row, {"user", "thread"})}, "deleted")
    BY <1>4, <1>8, <2>1
  <2> QED
    BY <2>2 DEF Fake!FakeResetMemory, Maps
<1> QED
  BY <1>1, <1>2, <1>6, <1>7, <1>8 DEF Fake!Call

\* What a list has is what the fake's has.
LEMMA ListStep ==
    ASSUME DbInv, NEW kind \in DOMAIN ListBy, NEW fields \in ListBy[kind], NEW row,
           DbList(kind, row, fields), focus' = focus
    PROVE  DbInv' /\ Fake!FakeList(kind, row, fields) /\ Fake!Call("list", row, fields)
           /\ fields \in SUBSET {"user", "agent", "task"}
<1>1. /\ kind \in DOMAIN Samples \ {"event"}
      /\ answer' = Plain(Found(db[kind], Key(fields, row))) /\ UNCHANGED <<db, clock>>
      /\ call' = [op |-> "list", row |-> row, fields |-> fields]
  BY KindsAre DEF ListBy, DbList, Call, Answers
<1>2. answer' = {x \in Live(db[kind]) : Alike(fields, x, row)}
  BY <1>1, LiveFound
<1>3. Maps[kind] = Live(db[kind])
  BY <1>1, MapsAre
<1>4. answer' = {x \in Maps[kind] : Fake!Agrees(x, row, fields)}
  BY <1>2, <1>3 DEF Fake!Agrees, Alike
<1>5. Fake!Answers({x \in Maps[kind] : Fake!Agrees(x, row, fields)})
  BY <1>1, <1>4, AnswersWhen
<1>6. kind \in DOMAIN Fake!FakeListFields /\ fields \in Fake!FakeListFields[kind]
  BY DEF Fake!FakeListFields, ListBy
<1>7. Fake!FakeList(kind, row, fields)
  BY <1>5, <1>6 DEF Fake!FakeList, Maps
<1>8. fields \in SUBSET {"user", "agent", "task"}
  BY DEF ListBy
<1> QED
  BY <1>1, <1>7, <1>8 DEF Fake!Call, DbInv

LEMMA SearchStep ==
    ASSUME DbInv, NEW row, SearchMemory(row), focus' = focus
    PROVE  DbInv' /\ Fake!FakeSearchMemory(row) /\ Fake!Call("search", row, {})
<1> DEFINE fields == {"user", "thread", "words"}
<1>1. /\ answer' = Plain(Found(db["memory"], Key(fields, row))) /\ UNCHANGED <<db, clock>>
      /\ call' = [op |-> "search", row |-> row, fields |-> {}]
  BY DEF SearchMemory, Call, Answers
<1>2. answer' = {x \in Live(db["memory"]) : Alike(fields, x, row)}
  BY <1>1, LiveFound
<1>3. Maps["memory"] = Live(db["memory"])
  BY KindsAre, MapsAre
<1>4. answer' = {x \in Maps["memory"] : Fake!Agrees(x, row, fields)}
  BY <1>2, <1>3 DEF Fake!Agrees, Alike
<1>5. Fake!Answers({x \in Maps["memory"] : Fake!Agrees(x, row, fields)})
  BY <1>1, <1>4, AnswersWhen
<1>6. Fake!FakeSearchMemory(row)
  BY <1>5 DEF Fake!FakeSearchMemory, Maps
<1> QED
  BY <1>1, <1>6 DEF Fake!Call, DbInv

\* Writes, memories and checkpoints are stored once.
LEMMA AppendStep ==
    ASSUME DbInv, NEW kind \in {"write", "memory", "checkpoint"}, NEW row \in Samples[kind],
           DbStore(kind, row), focus' = focus
    PROVE  /\ DbInv' /\ Fake!Call("store", row, {})
           /\ row \notin Maps[kind] /\ Fake!Becomes(kind, Maps[kind] \cup {row}, "stored")
           /\ kind = "checkpoint" => Fake!Same(kind, row) = {}
<1>1. /\ kind \in DOMAIN Samples \ {"event", "feedback"} /\ Stores(kind, row)
      /\ Found(db[kind], Key(Primary(kind), row)) = {}
      /\ kind = "write" => Found(db["checkpoint"], Key(Primary("checkpoint"), row)) # {}
      /\ call' = [op |-> "store", row |-> row, fields |-> {}]
  BY KindsAre DEF DbStore, Call
<1>2. DbInv' /\ Live(db'[kind]) = Others(Live(db[kind]), Primary(kind), row) \cup {row}
  BY <1>1, StoreKeeps
<1>3. \A k \in DOMAIN Samples : k # kind => db'[k] = db[k]
  BY <1>1, OneTable DEF Stores
<1>4. \A x \in Live(db[kind]) : ~Alike(Primary(kind), x, row)
  <2>1. {x \in Live(db[kind]) : Alike(Primary(kind), x, row)} = {}
    BY <1>1, LiveFound DEF Plain
  <2> QED
    BY <2>1
<1>5. Maps[kind] = Live(db[kind])
  BY <1>1, MapsAre
<1>6. row \notin Live(db[kind])
  BY <1>4 DEF Alike
<1>7. Live(db'[kind]) = Maps[kind] \cup {row}
  BY <1>2, <1>4, <1>5 DEF Others
<1>8. Fake!Becomes(kind, Maps[kind] \cup {row}, "stored")
  BY <1>1, <1>3, <1>7, BecomesWhen DEF Stores
<1>9. ASSUME kind = "checkpoint" PROVE Fake!Same(kind, row) = {}
  <2>1. Fake!MapKey[kind] = Primary(kind)
    BY <1>9, MapKeyIs, PrimaryIs
  <2> QED
    BY <1>1, <1>4, <2>1, SameIs
<1> QED
  BY <1>1, <1>2, <1>5, <1>6, <1>8, <1>9 DEF Fake!Call

\* FakeClient counts with the same operator.
LEMMA SameCount == \A S : Fake!Cardinality(S) = Cardinality(S)
BY DEF Fake!Cardinality, Cardinality

LEMMA FeedbackStep ==
    ASSUME DbInv, NEW row \in Samples["feedback"], StoreFeedback(row), focus' = focus
    PROVE  DbInv' /\ Fake!FakeStoreFeedback(row) /\ Fake!Call("store", row, {})
<1>1. PICK n : n = Cardinality(db["feedback"]) + 1
  OBVIOUS
<1>2. PICK numbered : numbered = [user |-> row.user, id |-> n]
  OBVIOUS
<1>3. Stores("feedback", numbered) /\ call' = [op |-> "store", row |-> row, fields |-> {}]
  BY <1>1, <1>2 DEF StoreFeedback, Call
<1>4. /\ DbInv' /\ Live(db'["feedback"]) = Live(db["feedback"]) \cup {numbered}
      /\ Cardinality(Live(db["feedback"])) = Cardinality(db["feedback"])
  BY <1>1, <1>2, <1>3, FeedbackKeeps
<1>5. \A k \in DOMAIN Samples : k # "feedback" => db'[k] = db[k]
  BY <1>3, KindsAre, OneTable DEF Stores
<1>6. Maps["feedback"] = Live(db["feedback"])
  BY KindsAre, MapsAre
<1>7. Fake!Becomes("feedback", Maps["feedback"] \cup {numbered}, "stored")
  BY <1>3, <1>4, <1>5, <1>6, KindsAre, BecomesWhen DEF Stores
<1>8. numbered = [user |-> row.user, id |-> Cardinality(Maps["feedback"]) + 1]
  BY <1>1, <1>2, <1>4, <1>6
<1>9. Fake!FakeStoreFeedback(row)
  <2>1. Fake!Becomes("feedback",
                     Maps["feedback"] \cup {[user |-> row.user, id |-> Cardinality(Maps["feedback"]) + 1]},
                     "stored")
    BY <1>7, <1>8
  <2> QED
    BY <2>1, SameCount DEF Fake!FakeStoreFeedback, Maps
<1> QED
  BY <1>3, <1>4, <1>9 DEF Fake!Call

LEMMA EventsInstants ==
    ASSUME DbInv, NEW S, S \subseteq db["event"]
    PROVE  Instants(S)
<1>1. IsFiniteSet(S)
  BY FS_Subset DEF DbInv, EventsGood
<1>2. \A r \in S : r.at \in Nat
  BY KindsAre DEF DbInv, TableGood, TableRows
<1> QED
  BY <1>1, <1>2 DEF Instants, DbInv, EventsGood

LEMMA EventStep ==
    ASSUME DbInv, NEW row \in Samples["event"], DbStore("event", row), focus' = focus
    PROVE  DbInv' /\ Fake!FakeStoreEvent(row) /\ Fake!Call("store", row, {})
<1>1. /\ Stores("event", row) /\ Found(db["event"], Key(Primary("event"), row)) = {}
      /\ call' = [op |-> "store", row |-> row, fields |-> {}] /\ answer' = "stored" /\ clock \in Nat
  BY DEF DbStore, Call, Stores, DbInv
<1>2. /\ DbInv' /\ \A k \in DOMAIN Samples \ {"event"} : db'[k] = db[k]
      /\ \E new : /\ db'["event"] = db["event"] \cup {new} /\ new.row = row /\ new.at = clock
                  /\ new \notin db["event"]
  BY <1>1, EventKeeps
<1>3. PICK new : db'["event"] = db["event"] \cup {new} /\ new.row = row /\ new.at = clock
  BY <1>2
<1>4. Maps' = Maps
  BY <1>2 DEF Maps, Shown
<1>5. Streams' = [Streams EXCEPT ![row.session] = Append(@, row)]
  <2> DEFINE sessions == {e.session : e \in Samples["event"]}
             of(s) == {r \in db["event"] : r.row.session = s}
             then(s) == {r \in db'["event"] : r.row.session = s}
  <2>1. /\ Streams = [s \in sessions |-> InSequence(OldestFirst(of(s)))]
        /\ Streams' = [s \in sessions |-> InSequence(OldestFirst(then(s)))]
    BY DEF Streams
  <2>2. \A s : s # row.session => then(s) = of(s)
    BY <1>3
  <2>3. then(row.session) = of(row.session) \cup {new}
    BY <1>3
  <2>4. of(row.session) \subseteq db["event"]
    OBVIOUS
  <2> HIDE DEF of, then
  <2>5. Instants(of(row.session))
    BY <2>4, EventsInstants
  <2>6. Later(of(row.session), new)
    BY <1>1, <1>3, <2>4 DEF Later, DbInv, EventsGood
  <2>7. InSequence(OldestFirst(of(row.session) \cup {new})) = Append(InSequence(OldestFirst(of(row.session))), new.row)
    BY <2>5, <2>6, StreamGrows
  <2> QED
    BY <1>3, <2>1, <2>2, <2>3, <2>7
<1>6. Fake!FakeStoreEvent(row)
  BY <1>1, <1>4, <1>5 DEF Fake!FakeStoreEvent, Maps, Streams
<1> QED
  BY <1>1, <1>2, <1>6 DEF Fake!Call

LEMMA EventsStep ==
    ASSUME DbInv, NEW row \in Samples["event"], ListEvents(row), focus' = focus
    PROVE  DbInv' /\ Fake!FakeListEvents(row) /\ Fake!Call("events", row, {})
<1> DEFINE S == {r \in db["event"] : r.row.session = row.session}
<1>1. /\ answer' = InSequence(NewestFirst(Found(db["event"], Key({"session", "user"}, row))))
      /\ UNCHANGED <<db, clock>> /\ call' = [op |-> "events", row |-> row, fields |-> {}]
  BY DEF ListEvents, Call, Answers
<1>2. Found(db["event"], Key({"session", "user"}, row)) = S
  <2>1. \A r \in db["event"] : r.gone = FALSE /\ r.row \in Samples["event"]
    BY KindsAre DEF DbInv, EventsGood, TableGood, TableRows, RowsOf
  <2>2. \A r \in db["event"] : r.row.session = row.session => r.row.user = row.user
    BY <2>1, SamplesAssumption
  <2>3. \A r \in db["event"] : Alike({"session", "user"}, r.row, row) <=> r.row.session = row.session
    BY <2>2 DEF Alike
  <2> QED
    BY <2>1, <2>3, LiveFound
<1>3. Instants(S)
  BY EventsInstants
<1> HIDE DEF S
<1>4. Reverse(answer') = InSequence(OldestFirst(S))
  BY <1>1, <1>2, <1>3, StreamReversed
<1>5. Streams[row.session] = InSequence(OldestFirst(S))
  BY DEF Streams, S
<1>6. Maps' = Maps /\ Streams' = Streams
  BY <1>1 DEF Maps, Streams, Shown
<1>7. Fake!FakeListEvents(row)
  BY <1>1, <1>4, <1>5, <1>6 DEF Fake!FakeListEvents, Fake!Answers, Maps, Streams
<1> QED
  BY <1>1, <1>7 DEF Fake!Call, DbInv

LEMMA CheckpointsStep ==
    ASSUME DbInv, NEW row, NEW fields, ListCheckpoints(row, fields), focus' = focus
    PROVE  DbInv' /\ Fake!FakeListCheckpoints(row, fields) /\ Fake!Call("list", row, fields)
<1> DEFINE key == Fake!MapKey["checkpoint"]
           mine(c) == {w \in Maps["write"] : Fake!Agrees(w, c, key)}
<1>1. /\ answer' = {[row |-> c.row, writes |-> Plain(Found(db["write"], Key(Primary("checkpoint"), c.row)))] :
                       c \in Found(db["checkpoint"], Key(fields, row))}
      /\ UNCHANGED <<db, clock>> /\ call' = [op |-> "list", row |-> row, fields |-> fields]
  BY DEF ListCheckpoints, Call, Answers
<1>2. key = Primary("checkpoint")
  BY MapKeyIs, PrimaryIs
<1>3. Maps["write"] = Live(db["write"]) /\ Maps["checkpoint"] = Live(db["checkpoint"])
  BY KindsAre, MapsAre
<1>4. \A c : Plain(Found(db["write"], Key(Primary("checkpoint"), c))) = mine(c)
  BY <1>2, <1>3, LiveFound DEF Fake!Agrees, Alike
<1>5. Plain(Found(db["checkpoint"], Key(fields, row))) = {r \in Maps["checkpoint"] : Fake!Agrees(r, row, fields)}
  BY <1>3, LiveFound DEF Fake!Agrees, Alike
<1> HIDE DEF mine
<1>6. answer' = {[row |-> c.row, writes |-> mine(c.row)] : c \in Found(db["checkpoint"], Key(fields, row))}
  BY <1>1, <1>4
<1>7. answer' = {[row |-> c, writes |-> mine(c)] : c \in Plain(Found(db["checkpoint"], Key(fields, row)))}
  BY <1>6 DEF Plain
<1>8. answer' = {[row |-> c, writes |-> mine(c)] :
                   c \in {r \in Maps["checkpoint"] : Fake!Agrees(r, row, fields)}}
  BY <1>5, <1>7
<1>9. Fake!Answers({[row |-> c, writes |-> mine(c)] :
                   c \in {r \in Maps["checkpoint"] : Fake!Agrees(r, row, fields)}})
  BY <1>1, <1>8, AnswersWhen
<1>10. Fake!FakeListCheckpoints(row, fields)
  BY <1>9 DEF Fake!FakeListCheckpoints, Maps, mine
<1> QED
  BY <1>1, <1>10 DEF Fake!Call, DbInv

LEMMA ThreadStep ==
    ASSUME DbInv, NEW row, DeleteThread(row), focus' = focus
    PROVE  DbInv' /\ Fake!FakeDeleteThread(row) /\ Fake!Call("delete", row, {})
<1> DEFINE C == Live(db["checkpoint"])
           W == Live(db["write"])
           gone == {c \in Maps["checkpoint"] : Fake!Agrees(c, row, {"user", "thread"})}
           key == Fake!MapKey["checkpoint"]
<1>1. /\ DbInv'
      /\ Live(db'["checkpoint"]) = Others(C, {"user", "thread"}, row)
      /\ Live(db'["write"]) =
           {w \in W : \A c \in C : Alike({"user", "thread"}, c, row) => ~Alike({"user", "thread", "id"}, w, c)}
      /\ \A k \in DOMAIN Samples \ {"checkpoint", "write"} : db'[k] = db[k]
  BY ThreadKeeps
<1>2. Maps["write"] = W /\ Maps["checkpoint"] = C
  BY KindsAre, MapsAre
<1>3. gone = {c \in C : Alike({"user", "thread"}, c, row)} /\ key = {"user", "thread", "id"}
  BY <1>2, MapKeyIs DEF Fake!Agrees, Alike
<1>4. Live(db'["checkpoint"]) = Maps["checkpoint"] \ gone
  BY <1>1, <1>2, <1>3 DEF Others
<1>5. Live(db'["write"]) = {w \in Maps["write"] : \A c \in gone : ~Fake!Agrees(w, c, key)}
  <2>1. \A w, c : Fake!Agrees(w, c, key) <=> Alike({"user", "thread", "id"}, w, c)
    BY <1>3 DEF Fake!Agrees, Alike
  <2> QED
    BY <1>1, <1>2, <1>3, <2>1
<1> HIDE DEF gone, key, C, W
<1>6. Maps' = [Maps EXCEPT !["checkpoint"] = @ \ gone,
                           !["write"] = {w \in @ : \A c \in gone : ~Fake!Agrees(w, c, key)}]
  <2>1. \A k \in DOMAIN Samples \ {"checkpoint", "write"} : Maps'[k] = Maps[k]
    BY <1>1 DEF Maps, Shown
  <2>2. /\ Maps'["checkpoint"] = Maps["checkpoint"] \ gone
        /\ Maps'["write"] = {w \in Maps["write"] : \A c \in gone : ~Fake!Agrees(w, c, key)}
    BY <1>4, <1>5, KindsAre, MapsAreThen
  <2>3. Maps = [k \in DOMAIN Samples |-> Maps[k]] /\ Maps' = [k \in DOMAIN Samples |-> Maps'[k]]
    BY DEF Maps
  <2> HIDE DEF Maps
  <2> QED
    BY <2>1, <2>2, <2>3, KindsAre
<1>7. Streams' = Streams
  BY <1>1, KindsAre DEF Streams
<1>8. answer' = "deleted" /\ call' = [op |-> "delete", row |-> row, fields |-> {}]
  BY DEF DeleteThread, Call
<1>9. Fake!FakeDeleteThread(row)
  BY <1>6, <1>7, <1>8 DEF Fake!FakeDeleteThread, Maps, Streams, gone, key
<1> QED
  BY <1>1, <1>8, <1>9 DEF Fake!Call

LEMMA RefreshStep ==
    ASSUME DbInv, NEW server \in Samples["tool"], NEW new \in ToolLists(server.server),
           Refresh(server, new), focus' = focus
    PROVE  /\ DbInv' /\ new \in SUBSET Samples["tool"] /\ Fake!FakeRefresh(server, new)
           /\ call' = [op |-> "refresh", server |-> server, new |-> new]
<1> DEFINE kept == {r \in Maps["tool"] : ~Fake!Agrees(r, server, {"server", "group"})}
<1>1. /\ DbInv' /\ \A k \in DOMAIN Samples : k # "tool" => db'[k] = db[k]
      /\ \A x : x \in Live(db'["tool"]) <=>
                \/ x \in new
                \/ /\ x \in Live(db["tool"]) /\ ~Alike({"server", "group"}, x, server)
                   /\ \A t \in new : t.id # x.id
  BY RefreshKeeps
<1>2. call' = [op |-> "refresh", server |-> server, new |-> new] /\ answer' = "stored"
  BY DEF Refresh
<1>3. Maps["tool"] = Live(db["tool"])
  BY KindsAre, MapsAre
<1>4. Live(db'["tool"]) = {r \in kept : \A t \in new : t.id # r.id} \cup new
  BY <1>1, <1>3 DEF Fake!Agrees, Alike
<1>5. Fake!Becomes("tool", {r \in kept : \A t \in new : t.id # r.id} \cup new, "stored")
  BY <1>1, <1>2, <1>4, KindsAre, BecomesWhen
<1>6. Fake!FakeRefresh(server, new)
  BY <1>5 DEF Fake!FakeRefresh, Maps
<1>7. new \in SUBSET Samples["tool"]
  BY DEF ToolLists
<1> QED
  BY <1>1, <1>2, <1>6, <1>7

\* A call of any kind.
LEMMA StoreCall ==
    ASSUME DbInv, NEW row \in Samples[focus], focus # "feedback", DbStore(focus, row), focus' = focus
    PROVE  DbInv' /\ Fake!FakeCall
<1>1. focus \in DOMAIN Samples \ {"write", "feedback"}
  BY DEF DbInv, Focus
<1>2. PICK kind : kind = focus
  OBVIOUS
<1>3. CASE kind \in PutKinds \ {"flow"}
  <2>1. DbInv' /\ Fake!Puts(focus, row) /\ Fake!Call("store", row, {})
    <3>1. kind \in PutKinds /\ row \in Samples[kind] /\ DbStore(kind, row)
      BY <1>2, <1>3
    <3>2. DbInv' /\ Fake!Puts(kind, row) /\ Fake!Call("store", row, {})
      BY <3>1, PutStep
    <3> QED
      BY <1>2, <3>2 DEF Fake!Puts, Fake!Becomes
  <2>2. Fake!FakeStore(focus, row)
    BY <1>2, <1>3, <2>1 DEF Fake!FakeStore, PutKinds
  <2> QED
    BY <2>1, <2>2 DEF Fake!FakeCall
<1>4. CASE kind = "flow"
  <2>1. DbInv' /\ Fake!Puts("flow", row) /\ Fake!Call("store", row, {})
    BY <1>2, <1>4, PutStep DEF PutKinds
  <2>2. Fake!FakeFlow(row) /\ row \in Samples["flow"] /\ focus = "flow"
    BY <1>2, <1>4, <2>1 DEF Fake!FakeFlow
  <2> QED
    BY <2>1, <2>2 DEF Fake!FakeCall
<1>5. CASE kind = "event"
  <2>1. DbInv' /\ Fake!FakeStoreEvent(row) /\ Fake!Call("store", row, {})
    BY <1>2, <1>5, EventStep
  <2>2. row \in Samples["event"] /\ focus = "event"
    BY <1>2, <1>5
  <2> QED
    BY <2>1, <2>2 DEF Fake!FakeCall
<1>6. CASE kind = "memory"
  <2>1. /\ DbInv' /\ Fake!Call("store", row, {})
        /\ row \notin Maps["memory"] /\ Fake!Becomes("memory", Maps["memory"] \cup {row}, "stored")
    BY <1>2, <1>6, AppendStep
  <2>2. Fake!FakeStoreMemory(row) /\ row \in Samples["memory"] /\ focus = "memory"
    BY <1>2, <1>6, <2>1 DEF Fake!FakeStoreMemory, Fake!Appends, Maps
  <2> QED
    BY <2>1, <2>2 DEF Fake!FakeCall
<1>7. CASE kind = "checkpoint"
  <2>1. /\ DbInv' /\ Fake!Call("store", row, {}) /\ Fake!Same("checkpoint", row) = {}
        /\ Fake!Becomes("checkpoint", Maps["checkpoint"] \cup {row}, "stored")
    BY <1>2, <1>7, AppendStep
  <2>2. Fake!FakeStoreCheckpoint(row) /\ row \in Samples["checkpoint"] /\ focus = "checkpoint"
    BY <1>2, <1>7, <2>1 DEF Fake!FakeStoreCheckpoint, Maps
  <2> QED
    BY <2>1, <2>2 DEF Fake!FakeCall
<1> QED
  BY <1>1, <1>2, <1>3, <1>4, <1>5, <1>6, <1>7, KindsAre DEF PutKinds

LEMMA WriteCall ==
    ASSUME DbInv, NEW row \in Samples["write"], focus = "checkpoint", DbStore("write", row), focus' = focus
    PROVE  DbInv' /\ Fake!FakeCall
<1>1. /\ DbInv' /\ Fake!Call("store", row, {})
      /\ row \notin Maps["write"] /\ Fake!Becomes("write", Maps["write"] \cup {row}, "stored")
  BY AppendStep
<1>2. Fake!FakeStoreWrite(row)
  BY <1>1 DEF Fake!FakeStoreWrite, Fake!Appends, Maps
<1> QED
  BY <1>1, <1>2 DEF Fake!FakeCall

LEMMA GetCall ==
    ASSUME DbInv, NEW row \in Samples[focus], DbGet(focus, row), focus' = focus
    PROVE  DbInv' /\ Fake!FakeCall
<1>1. PICK kind : kind = focus
  OBVIOUS
<1>2. kind \in DOMAIN GetBy
  BY <1>1 DEF DbGet
<1>3. DbInv' /\ Fake!Gets(focus, row) /\ Fake!Call("get", row, {})
  BY <1>1, <1>2, GetStep
<1>4. CASE kind \in {"agent", "session", "toolserver"}
  <2>1. Fake!FakeGet(focus, row)
    BY <1>1, <1>3, <1>4 DEF Fake!FakeGet
  <2> QED
    BY <1>3, <2>1 DEF Fake!FakeCall
<1>5. CASE kind \in {"task", "push"}
  <2>1. Fake!FakeTask(focus, row)
    BY <1>1, <1>3, <1>5 DEF Fake!FakeTask
  <2> QED
    BY <1>3, <2>1 DEF Fake!FakeCall
<1>6. CASE kind = "flow"
  <2>1. Fake!FakeFlow(row) /\ row \in Samples["flow"] /\ focus = "flow"
    BY <1>1, <1>3, <1>6 DEF Fake!FakeFlow
  <2> QED
    BY <1>3, <2>1 DEF Fake!FakeCall
<1> QED
  BY <1>2, <1>4, <1>5, <1>6 DEF GetBy

LEMMA DeleteCall ==
    ASSUME DbInv, NEW row \in Samples[focus], DbDelete(focus, row), focus' = focus
    PROVE  DbInv' /\ Fake!FakeCall
<1>1. PICK kind : kind = focus
  OBVIOUS
<1>2. kind \in DOMAIN DeleteBy
  BY <1>1 DEF DbDelete
<1>3. /\ DbInv' /\ Fake!Call("delete", row, {})
      /\ focus \in {"agent", "session", "toolserver", "tool"} => Fake!FakeDelete(focus, row)
      /\ focus \in {"task", "push"} => Fake!Becomes(focus, Maps[focus] \ Fake!Same(focus, row), "deleted")
      /\ focus = "memory" => Fake!FakeResetMemory(row)
  <2>1. row \in Samples[kind] /\ DbDelete(kind, row)
    BY <1>1
  <2>2. /\ DbInv' /\ Fake!Call("delete", row, {})
        /\ kind \in {"agent", "session", "toolserver", "tool"} => Fake!FakeDelete(kind, row)
        /\ kind \in {"task", "push"} => Fake!Becomes(kind, Maps[kind] \ Fake!Same(kind, row), "deleted")
        /\ kind = "memory" => Fake!FakeResetMemory(row)
    BY <1>2, <2>1, DeleteStep
  <2>3. kind \in {"agent", "session", "toolserver", "tool"} => Fake!FakeDelete(focus, row)
    BY <1>1, <2>2 DEF Fake!FakeDelete, Fake!Becomes, Fake!Answers
  <2>4. kind \in {"task", "push"} => Fake!Becomes(focus, Maps[focus] \ Fake!Same(focus, row), "deleted")
    BY <1>1, <2>2 DEF Fake!Becomes
  <2> QED
    BY <1>1, <2>2, <2>3, <2>4
<1>4. CASE kind \in {"agent", "session", "toolserver", "tool"}
  <2>1. Fake!FakeDelete(focus, row)
    BY <1>1, <1>3, <1>4
  <2> QED
    BY <1>3, <2>1 DEF Fake!FakeCall
<1>5. CASE kind \in {"task", "push"}
  <2>1. Fake!FakeTask(focus, row)
    BY <1>1, <1>3, <1>5 DEF Fake!FakeTask, Maps
  <2> QED
    BY <2>1, <1>3 DEF Fake!FakeCall
<1>6. CASE kind = "memory"
  <2>1. Fake!FakeResetMemory(row) /\ row \in Samples["memory"] /\ focus = "memory"
    BY <1>1, <1>3, <1>6
  <2> QED
    BY <1>3, <2>1 DEF Fake!FakeCall
<1> QED
  BY <1>2, <1>4, <1>5, <1>6 DEF DeleteBy

LEMMA ListCall ==
    ASSUME DbInv, NEW row \in Samples[focus], NEW fields, DbList(focus, row, fields), focus' = focus
    PROVE  DbInv' /\ Fake!FakeCall
<1>1. focus \in DOMAIN ListBy /\ fields \in ListBy[focus]
  BY DEF DbList
<1>2. /\ DbInv' /\ Fake!FakeList(focus, row, fields) /\ Fake!Call("list", row, fields)
      /\ fields \in SUBSET {"user", "agent", "task"}
  BY <1>1, ListStep
<1> QED
  BY <1>2 DEF Fake!FakeCall

LEMMA CallStep ==
    ASSUME DbInv, DbNext
    PROVE  DbInv' /\ Fake!FakeCall /\ focus' = focus
<1>1. focus' = focus
  BY DEF DbNext
<1>2. CASE focus = "task" /\ HandleTasks
  BY <1>1, <1>2, StoreCall, GetCall, DeleteCall DEF HandleTasks
<1>3. CASE focus = "feedback" /\ HandleFeedback
  <2>1. PICK row \in Samples["feedback"] : StoreFeedback(row) \/ DbList("feedback", row, {"user"})
    BY <1>3 DEF HandleFeedback
  <2>2. CASE StoreFeedback(row)
    <3>1. DbInv' /\ Fake!FakeStoreFeedback(row) /\ Fake!Call("store", row, {})
      BY <1>1, <2>2, FeedbackStep
    <3>2. \E r \in Samples["feedback"] : Fake!Call("store", r, {}) /\ Fake!FakeStoreFeedback(r)
      BY <3>1
    <3> QED
      BY <1>1, <1>3, <3>1, <3>2 DEF Fake!FakeCall
  <2>3. CASE DbList("feedback", row, {"user"})
    BY <1>1, <1>3, <2>3, ListCall
  <2> QED
    BY <1>1, <2>1, <2>2, <2>3
<1>4. CASE focus = "session" /\ HandleSessions
  BY <1>1, <1>4, StoreCall, GetCall, DeleteCall, ListCall DEF HandleSessions
<1>5. CASE focus = "event" /\ HandleEvents
  <2>1. PICK row \in Samples["event"] : DbStore("event", row) \/ ListEvents(row)
    BY <1>5 DEF HandleEvents
  <2>2. CASE DbStore("event", row)
    BY <1>1, <1>5, <2>2, StoreCall
  <2>3. CASE ListEvents(row)
    <3>1. DbInv' /\ Fake!FakeListEvents(row) /\ Fake!Call("events", row, {})
      BY <1>1, <2>3, EventsStep
    <3> QED
      BY <1>1, <1>5, <3>1 DEF Fake!FakeCall
  <2> QED
    BY <2>1, <2>2, <2>3
<1>6. CASE HandleCrewAI
  <2>1. CASE focus = "flow"
    BY <1>1, <1>6, <2>1, StoreCall, GetCall DEF HandleCrewAI
  <2>2. CASE focus = "memory"
    <3>1. PICK row \in Samples["memory"] : DbStore("memory", row) \/ SearchMemory(row) \/ DbDelete("memory", row)
      BY <1>6, <2>2 DEF HandleCrewAI
    <3>2. CASE SearchMemory(row)
      <4>1. DbInv' /\ Fake!FakeSearchMemory(row) /\ Fake!Call("search", row, {})
        BY <1>1, <3>2, SearchStep
      <4> QED
        BY <1>1, <2>2, <4>1 DEF Fake!FakeCall
    <3>3. CASE DbStore("memory", row) \/ DbDelete("memory", row)
      BY <1>1, <2>2, <3>3, StoreCall, DeleteCall
    <3> QED
      BY <3>1, <3>2, <3>3
  <2> QED
    BY <1>6, <2>1, <2>2 DEF HandleCrewAI
<1>7. CASE focus = "checkpoint" /\ HandleCheckpoints
  <2>1. ASSUME NEW row \in Samples["write"], DbStore("write", row) PROVE DbInv' /\ Fake!FakeCall
    BY <1>1, <1>7, <2>1, WriteCall
  <2>2. ASSUME NEW row \in Samples["checkpoint"], DbStore("checkpoint", row) PROVE DbInv' /\ Fake!FakeCall
    BY <1>1, <1>7, <2>2, StoreCall
  <2>3. ASSUME NEW row \in Samples["checkpoint"], DeleteThread(row) PROVE DbInv' /\ Fake!FakeCall
    <3>1. DbInv' /\ Fake!FakeDeleteThread(row) /\ Fake!Call("delete", row, {})
      BY <1>1, <2>3, ThreadStep
    <3> QED
      BY <1>7, <3>1 DEF Fake!FakeCall
  <2>4. ASSUME NEW row \in Samples["checkpoint"], NEW fields \in {{"user", "thread"}, Fake!MapKey["checkpoint"]},
               ListCheckpoints(row, fields)
        PROVE  DbInv' /\ Fake!FakeCall
    <3>1. DbInv' /\ Fake!FakeListCheckpoints(row, fields) /\ Fake!Call("list", row, fields)
      BY <1>1, <2>4, CheckpointsStep
    <3> QED
      BY <1>7, <3>1 DEF Fake!FakeCall
  <2>5. Primary("checkpoint") = Fake!MapKey["checkpoint"]
    BY PrimaryIs, MapKeyIs
  <2> QED
    BY <1>1, <1>7, <2>1, <2>2, <2>3, <2>4, <2>5 DEF HandleCheckpoints
<1>8. CASE focus \in {"agent", "toolserver", "tool", "push"} /\ ControllerCalls
  <2>1. PICK row \in Samples[focus] :
           \/ DbStore(focus, row) \/ DbGet(focus, row) \/ DbDelete(focus, row)
           \/ DbList(focus, row, {}) \/ DbList(focus, row, {"task"})
           \/ focus = "tool" /\ \E new \in ToolLists(row.server) : Refresh(row, new)
    BY <1>8 DEF ControllerCalls
  <2>2. CASE DbStore(focus, row) \/ DbGet(focus, row) \/ DbDelete(focus, row)
    BY <1>1, <1>8, <2>2, StoreCall, GetCall, DeleteCall
  <2>3. CASE DbList(focus, row, {}) \/ DbList(focus, row, {"task"})
    BY <1>1, <2>3, ListCall
  <2>4. ASSUME focus = "tool", NEW new \in ToolLists(row.server), Refresh(row, new)
        PROVE  DbInv' /\ Fake!FakeCall
    <3>1. row \in Samples["tool"]
      BY <2>4
    <3>2. /\ DbInv' /\ new \in SUBSET Samples["tool"] /\ Fake!FakeRefresh(row, new)
          /\ call' = [op |-> "refresh", server |-> row, new |-> new]
      BY <1>1, <2>4, <3>1, RefreshStep
    <3> QED
      BY <2>4, <3>1, <3>2 DEF Fake!FakeCall
  <2> QED
    BY <1>1, <2>1, <2>2, <2>3, <2>4
<1> QED
  BY <1>1, <1>2, <1>3, <1>4, <1>5, <1>6, <1>7, <1>8 DEF DbNext

LEMMA InitFake == DbInit => Fake!FakeInit
<1> SUFFICES ASSUME DbInit PROVE Fake!FakeInit
  OBVIOUS
<1>1. /\ focus \in Focus /\ db = [kind \in DOMAIN Samples |-> {}]
      /\ call = [op |-> "none"] /\ answer = None
  BY DEF DbInit, NoCall
<1>2. Maps = [kind \in DOMAIN Samples |-> {}]
  BY <1>1 DEF Maps, Shown, Plain
<1>3. Streams = [s \in {e.session : e \in Samples["event"]} |-> <<>>]
  <2>1. \A s : {r \in db["event"] : r.row.session = s} = {}
    BY <1>1, KindsAre
  <2>2. InSequence(OldestFirst({})) = <<>>
    <3>1. Cardinality({}) = 0
      BY FS_EmptySet
    <3>2. Instants({})
      BY FS_EmptySet DEF Instants
    <3>3. InSequence(OldestFirst({})) \in Seq(Plain({})) /\ Len(InSequence(OldestFirst({}))) = 0
      BY <3>1, <3>2, PlainSequence
    <3> QED
      BY <3>3, EmptySeq
  <2> QED
    BY <2>1, <2>2 DEF Streams
<1> QED
  BY <1>1, <1>2, <1>3 DEF Fake!FakeInit, Fake!Focus, Fake!NoCall, Focus, Maps, Streams

\* Whatever clients store, find and delete, in whatever order, the controller's
\* client does what the client of the tests would do, with the same answer (of the
\* events of a session, the reverse): the tables behind
\* go/internal/database/client.go show what the maps of database/fake hold.
THEOREM DatabaseImplementsFake == DbSpec => RefinesFake
<1>1. DbInv /\ [DbNext]_dbVars => DbInv'
  <2> SUFFICES ASSUME DbInv, [DbNext]_dbVars PROVE DbInv'
    OBVIOUS
  <2>1. CASE UNCHANGED dbVars
    BY <2>1 DEF dbVars, DbInv
  <2> QED
    BY <2>1, CallStep
<1>2. DbInv /\ [DbNext]_dbVars => [Fake!FakeNext]_(Fake!fakeVars)
  <2> SUFFICES ASSUME DbInv, [DbNext]_dbVars PROVE [Fake!FakeNext]_(Fake!fakeVars)
    OBVIOUS
  <2>1. CASE UNCHANGED dbVars
    BY <2>1 DEF dbVars, Fake!fakeVars, Shown
  <2>2. CASE DbNext
    BY <2>2, CallStep DEF Fake!FakeNext
  <2> QED
    BY <2>1, <2>2
<1> QED
  BY <1>1, <1>2, InitDbInv, InitFake, PTL DEF DbSpec, RefinesFake, Fake!FakeSpec
=============================================================================
