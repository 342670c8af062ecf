----------------------------- MODULE OwnData ------------------------------
(***************************************************************************)
(* A caller's own records made into a pack: the roles of the columns       *)
(* (core/api/_byod.py, core/byod/intake.py), the link of a row to an       *)
(* entity of the base (core/linking/base_linker.py), the rows a builder    *)
(* writes (shared/build/base_builder.py) and the build of a pack with its  *)
(* tally (core/byod/build.py).                                             *)
(*                                                                         *)
(* A row is a function from its columns to values; a value that is empty   *)
(* is NoName.  Values stand for their normalized forms.                    *)
(***************************************************************************)
EXTENDS Stores

CONSTANTS
  KnownSystems,  \* KNOWN_CODE_SYSTEMS of a domain's linker; none for others
  MintId,        \* the entity id of a namespace and a seed
  Counter        \* str(0), str(1), ...: the seeds of rows that bring none

Filled(row, columns) == {c \in columns \cap DOMAIN row : row[c] # NoName}
Cell(row, column) == IF column \in DOMAIN row THEN row[column] ELSE NoName
NonEmpty(values) == SelectSeq(values, LAMBDA v : v # NoName)

---------------------------------------------------------------------------
(* The roles of the columns.                                               *)

(* What augment() is told and what it infers: the name comes from the      *)
(* alias columns, or else from the first code column.  It infers no codes, *)
(* and keeps the order of those it is told.                                *)
IsSystem(key) == key # "name"
SystemsOf(keys) == SelectSeq(keys, IsSystem)

AugmentSpec(call) ==
  LET systems == SystemsOf(call.linkOn) \o call.addCodes
  IN [names |-> IF call.addAliases # <<>> THEN call.addAliases ELSE Take(systems, 1),
      id |-> {}, aliases |-> call.addAliases, type |-> NoName,
      codes |-> [s \in ToSet(systems) |-> s], order |-> systems, detect |-> FALSE,
      attrs |-> call.addAttrs, rest |-> FALSE, columns |-> call.columns]

(* The rows of from_records() are minted and link by nothing: the order of *)
(* their codes is left open.                                               *)
RecordsSpec(call) ==
  [names |-> call.names, id |-> call.id, aliases |-> call.aliases, type |-> call.type,
   codes |-> call.codes, order |-> <<>>, detect |-> call.detect,
   attrs |-> {}, rest |-> call.rest, columns |-> <<>>]

(* RecordSchema.resolve: columns= renames the roles, the columns that are  *)
(* named must exist, and without codes= the columns that are known systems *)
(* are codes.  An entity type that is no column is the type itself.        *)
Renamed(columns, c) == IF c \in DOMAIN columns THEN columns[c] ELSE c
RenamedAll(columns, list) == [k \in DOMAIN list |-> Renamed(columns, list[k])]
Available(rows, columns) ==
  IF rows # <<>> THEN UNION {DOMAIN row : row \in ToSet(rows)} ELSE Range(columns)

Schema(rows, domain, spec) ==
  LET available == Available(rows, spec.columns)
  IN [names |-> RenamedAll(spec.columns, spec.names),
      aliases |-> RenamedAll(spec.columns, spec.aliases),
      id |-> {Renamed(spec.columns, c) : c \in spec.id},
      codes |-> IF spec.detect THEN [s \in available \cap KnownSystems[domain] |-> s]
                ELSE [s \in DOMAIN spec.codes |-> Renamed(spec.columns, spec.codes[s])],
      order |-> spec.order,
      type |-> Renamed(spec.columns, spec.type),
      literal |-> available # {} /\ Renamed(spec.columns, spec.type) \notin available,
      attrs |-> spec.attrs, rest |-> spec.rest]

SchemaError(rows, columns, schema) ==
  LET available == Available(rows, columns)
  IN IF schema.names = <<>> THEN "ValueError"
     ELSE IF available # {} /\ ~(ToSet(schema.names) \cup Range(schema.codes) \subseteq available)
          THEN "ValueError" ELSE ""

(* row_to_record.                                                          *)
FirstValue(values) == IF NonEmpty(values) = <<>> THEN NoName ELSE Head(NonEmpty(values))
SpokenFor(schema) ==
  ToSet(schema.names) \cup ToSet(schema.aliases) \cup Range(schema.codes) \cup schema.id
    \cup {"__id__"} \cup (IF schema.literal THEN {} ELSE {schema.type})

Record(schema, row) ==
  LET values(columns) == [k \in DOMAIN columns |-> Cell(row, columns[k])]
      given == Filled(row, IF schema.rest THEN DOMAIN row \ SpokenFor(schema) ELSE schema.attrs)
  IN [seed |-> FirstValue([k \in 1..1 |-> Cell(row, IF schema.id = {} THEN "__id__"
                                                   ELSE CHOOSE c \in schema.id : TRUE)]),
      name |-> FirstValue(values(schema.names)),
      aliases |-> NonEmpty(values(schema.aliases)),
      codes |-> [s \in {t \in DOMAIN schema.codes : Cell(row, schema.codes[t]) # NoName} |->
                   Cell(row, schema.codes[s])],
      order |-> schema.order,
      attrs |-> [c \in given |-> row[c]],
      type |-> IF schema.literal THEN schema.type ELSE Cell(row, schema.type)]

---------------------------------------------------------------------------
(* The link of a row: the keys in their order, of which the first that     *)
(* matches anything decides; base is the databases of the base modules.    *)

Link(status, id) == [status |-> status, id |-> id]

LinkBy(base, record, key) ==
  LET value == IF ~IsSystem(key) THEN record.name
               ELSE IF key \in DOMAIN record.codes THEN record.codes[key] ELSE NoName
      matches == IF IsSystem(key) THEN CompositeCode(base, key, value) ELSE CompositeName(base, value)
  IN IF value = NoName THEN Link("not_found", 0)
     ELSE IF IsSystem(key) /\ key \notin CompositeSystems(base) THEN Link("invalid_key", 0)
     ELSE IF matches = <<>> THEN Link("not_found", 0)
     ELSE IF Len(matches) = 1 THEN Link("linked", matches[1]) ELSE Link("ambiguous", 0)

ResolveLink(base, record, keys) ==
  FoldLeft(LAMBDA found, key : IF found.status # "not_found" THEN found ELSE LinkBy(base, record, key),
           Link("not_found", 0), keys)

(* The row of a linked or minted entity: the first row of an id makes the  *)
(* entity and its canonical name; codes replace one another per system.    *)
\* Mutant: an entity that is there already is not written again.
WriteRowOnce(d, id, record, name, type) ==
  IF id \in Ids(d) THEN d
  ELSE [entities |-> d.entities \cup {[id |-> id, type |-> type, name |-> name, attrs |-> record.attrs]},
        names |-> d.names \cup {[id |-> id, kind |-> "alias", value |-> a] : a \in ToSet(record.aliases)}
                    \cup {[id |-> id, kind |-> "canonical", value |-> name]},
        codes |-> d.codes \cup {[id |-> id, system |-> s, value |-> record.codes[s]] : s \in DOMAIN record.codes},
        relations |-> d.relations]
WriteRow(d, id, record, name, type) ==
  LET isNew == id \notin Ids(d)
  IN [entities |-> IF isNew
                   THEN d.entities \cup {[id |-> id, type |-> type, name |-> name, attrs |-> record.attrs]}
                   ELSE d.entities,
      names |-> d.names \cup {[id |-> id, kind |-> "alias", value |-> a] : a \in ToSet(record.aliases)}
                  \cup (IF isNew THEN {[id |-> id, kind |-> "canonical", value |-> name]} ELSE {}),
      codes |-> {c \in d.codes : ~(c.id = id /\ c.system \in DOMAIN record.codes)}
                  \cup {[id |-> id, system |-> s, value |-> record.codes[s]] : s \in DOMAIN record.codes},
      relations |-> d.relations]

(* PRIMARY KEY (entity_id, name_kind, value_norm, ...): a plain INSERT.    *)
RepeatsAlias(d, id, record) ==
  \/ ~IsInjective(record.aliases)
  \/ \E a \in ToSet(record.aliases) : [id |-> id, kind |-> "alias", value |-> a] \in d.names

(* link_and_add.  Without link keys a row is minted at once, if rows that  *)
(* do not link are, and is otherwise looked up by all its codes, in the    *)
(* order of the schema.  A row that does not link, for whatever reason, is *)
(* what onMiss says.                                                       *)
Minted(onMiss, keys) == onMiss = "mint" /\ keys = <<>>
ResolveKeys(record, keys) == IF keys # <<>> THEN keys ELSE SelectSeq(record.order, LAMBDA s : s \in DOMAIN record.codes)

LinkOf(base, record, keys, onMiss) ==
  IF Minted(onMiss, keys) THEN Link("not_found", 0)
  ELSE ResolveLink(base, record, ResolveKeys(record, keys))
IdOf(link, mintId) == IF link.status = "linked" THEN link.id ELSE mintId
NameOf(base, record, link) ==
  IF record.name # NoName \/ link.status # "linked" THEN record.name
  ELSE (CHOOSE e \in CompositeEntity(base, link.id) : TRUE).name
Written(link, onMiss) == link.status = "linked" \/ onMiss = "mint"
StatusOf(link, onMiss, mintId) ==
  IF link.status = "linked" /\ link.id # mintId THEN "linked"
  ELSE IF Written(link, onMiss) THEN "minted"
  ELSE IF link.status = "ambiguous" THEN "ambiguous" ELSE "skipped"

AddLinked(d, record, type, status, onMiss, id, name) ==
  IF status \in {"ambiguous", "skipped"}
  THEN [db |-> d, status |-> status, id |-> 0, error |-> IF onMiss = "error" THEN "ValueError" ELSE ""]
  ELSE [db |-> WriteRow(d, id, record, name, type), status |-> status, id |-> id,
        error |-> IF name = NoName THEN "RuntimeError"
                  ELSE IF RepeatsAlias(d, id, record) THEN "IntegrityError" ELSE ""]

AddAs(d, base, record, type, onMiss, mintId, link) ==
  AddLinked(d, record, type, StatusOf(link, onMiss, mintId), onMiss, IdOf(link, mintId),
            NameOf(base, record, link))
LinkAndAdd(d, base, record, type, keys, onMiss, mintId) ==
  AddAs(d, base, record, type, onMiss, mintId, LinkOf(base, record, keys, onMiss))

---------------------------------------------------------------------------
(* _run_build: row after row; a row that raises ends the build.            *)

(* The link keys of a row: link_on without the systems it has no code of.  *)
KeysOf(linkOn, record) == SelectSeq(linkOn, LAMBDA k : ~IsSystem(k) \/ k \in DOMAIN record.codes)

NothingBuilt == [db |-> NoRows, seeds |-> 0, error |-> "", wrote |-> <<>>]

SeedOf(built, record) == IF record.seed # NoName THEN record.seed ELSE Counter[built.seeds + 1]
TypeOf(record, args) == IF record.type # NoName THEN record.type ELSE args.domain

Noted(built, record, added) ==
  IF added.error # "" THEN [built EXCEPT !.error = added.error]
  ELSE [db |-> added.db,
        seeds |-> IF record.seed = NoName THEN built.seeds + 1 ELSE built.seeds,
        error |-> "",
        wrote |-> Append(built.wrote, [status |-> added.status, id |-> added.id, record |-> record])]

AddRecord(built, record, args) ==
  IF record.name = NoName /\ args.linkOn = <<>> THEN [built EXCEPT !.error = "ValueError"]
  ELSE Noted(built, record,
             LinkAndAdd(built.db, args.base, record, TypeOf(record, args), KeysOf(args.linkOn, record),
                        args.onMiss, MintId[<<args.namespace, SeedOf(built, record)>>]))
AddRow(built, row, args) ==
  IF built.error # "" THEN built ELSE AddRecord(built, Record(args.schema, row), args)

(* A build's result; its tally counts the rows of each status.             *)
RunBuild(args) ==
  FoldLeft(LAMBDA built, row : AddRow(built, row, args), NothingBuilt, args.rows)

Tally(wrote) ==
  [s \in {"linked", "minted", "skipped", "ambiguous"} |->
     Cardinality({k \in DOMAIN wrote : wrote[k].status = s})]

(* byod_cache_key: the rows, the schema, the domain, the namespace and the *)
(* options, and for an overlay what its base is.                           *)
\* Mutant: the key of an overlay says nothing of its base.
BaselessKey(args) == [f \in DOMAIN args \ {"base", "baseIdentity"} |-> args[f]]
ByodCacheKey(args) == [f \in DOMAIN args \ {"base"} |-> args[f]]
===========================================================================
