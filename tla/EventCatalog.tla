---------------------------- MODULE EventCatalog ----------------------------
(***************************************************************************)
(* The event catalogue that GET /asyncapi renders from api/asyncapi.yaml:  *)
(* which messages and schemas a page shows, in which order, and the order  *)
(* of the fields in their tables.  HTML, texts and types are left out.     *)
(*                                                                         *)
(* A document has messages, schemas and "names", the schemas that stand    *)
(* under components.schemas; the others are the inline parts of an allOf.  *)
(* Names and fields are numbers: their order is the alphabetical one.  A   *)
(* schema has the fields "props", "required" among them, and the order the *)
(* YAML file declares them in (empty when "properties" is a YAML alias).   *)
(* "array" is the slice that holds this order: the schema itself when it   *)
(* belongs to the parsed document, Private when a function made it.        *)
(***************************************************************************)
EXTENDS Naturals, Sequences, FiniteSets, Functions

CONSTANTS None, Private

Schema(order, props, required) ==
    [order |-> order, props |-> props, required |-> required,
     allOf |-> <<>>, ref |-> None, array |-> Private]

\* A sequence of sequences as <<line, place in it, element>>.
Listing(seqs) ==
    UNION {LET s == seqs[i] IN {<<i, a, s[a]>> : a \in DOMAIN s} : i \in DOMAIN seqs}

Precedes(p, q) == p[1] < q[1] \/ (p[1] = q[1] /\ p[2] < q[2])

\* The elements of a listing in the order of their places.
Lines(listing) ==
    [n \in 1..Cardinality(listing) |->
        (CHOOSE p \in listing :
            Cardinality({q \in listing : Precedes(q, p)}) = n - 1)[3]]

\* The numbers of a set in increasing order.
sortedKeys(S) == Lines({<<1, x, x>> : x \in S})

\* UnmarshalYAML and parseAsyncSpec: every schema keeps its declared order in
\* an array of its own.
parseAsyncSpec(doc) ==
    [doc EXCEPT !.schemas =
        [n \in DOMAIN doc.schemas |-> [doc.schemas[n] EXCEPT !.array = n]]]

-----------------------------------------------------------------------------
(* Schemas.                                                                 *)

\* Mutant: "seen" is not looked at, and a field of two parts is listed twice.
FirstMet_Again(listing) == listing

\* The places where a field is met for the first time ("seen").
FirstMet(listing) ==
    {p \in listing : \A q \in listing : q[3] = p[3] => ~Precedes(q, p)}

\* The loop over allOf: the fields of all parts, in a schema of its own.
MergeSchemas(parts) ==
    Schema(Lines(FirstMet(Listing([i \in DOMAIN parts |-> parts[i].order]))),
           UNION {parts[i].props : i \in DOMAIN parts},
           UNION {parts[i].required : i \in DOMAIN parts})

\* A $ref is followed, one to an unknown schema is not; the parts of an allOf
\* are merged and its own properties are dropped.
resolveSchema(spec) ==
    LET resolved[n \in DOMAIN spec.schemas] ==
        LET sc == spec.schemas[n]
        IN  IF sc.allOf # <<>>
            THEN MergeSchemas([i \in DOMAIN sc.allOf |-> resolved[sc.allOf[i]]])
            ELSE IF sc.ref \in spec.names THEN resolved[sc.ref]
            ELSE sc
    IN  resolved

\* The schemas that resolveSchema goes on to from each schema.
Links(spec) ==
    [n \in DOMAIN spec.schemas |->
        IF spec.schemas[n].allOf # <<>> THEN spec.schemas[n].allOf
        ELSE IF spec.schemas[n].ref \in spec.names THEN <<spec.schemas[n].ref>>
        ELSE <<>>]

\* The plain schemas each schema is made of, in the order of the file.
Parts(links) ==
    LET parts[n \in DOMAIN links] ==
        IF links[n] = <<>> THEN <<n>>
        ELSE Lines(Listing([i \in DOMAIN links[n] |-> parts[links[n][i]]]))
    IN  parts

\* The fields of a table before the sort: the declared ones, or all of them in
\* alphabetical order; then those the order misses.
TableKeys(sc) ==
    LET keys == IF sc.order = <<>> THEN sortedKeys(sc.props) ELSE sc.order
    IN  keys \o sortedKeys(sc.props \ Range(keys))

\* Mutant: the comparison is the wrong way round.
RequiredFirst_Swapped(keys, required) ==
    Lines({<<IF keys[i] \in required THEN 1 ELSE 0, i, keys[i]>> : i \in DOMAIN keys})

\* sort.SliceStable with the required fields less than the others.
RequiredFirst(keys, required) ==
    Lines({<<IF keys[i] \in required THEN 0 ELSE 1, i, keys[i]>> : i \in DOMAIN keys})

\* renderPropsTable: "No properties.", or the fields in this order.
PropsTable(sc) ==
    IF sc.props = {} THEN <<>> ELSE RequiredFirst(TableKeys(sc), sc.required)

\* The sort writes to the array of the parsed document: keys is that array,
\* unless append had to copy it, and its elements are out of order.
SortsInPlace(sc) ==
    /\ sc.props # {} /\ sc.array # Private /\ sc.order # <<>>
    /\ TableKeys(sc) = sc.order
    /\ PropsTable(sc) # sc.order

-----------------------------------------------------------------------------
(* The page.                                                                *)

\* The names of the published or of the consumed messages.
splitMessagesByDirection(messages, consumed) ==
    {n \in DOMAIN messages : messages[n].isConsumed = consumed}

\* renderMessage shows a table when its payload is a schema of the document.
MessageTables(messages, names, consumed) ==
    LET shown == sortedKeys({n \in splitMessagesByDirection(messages, consumed) :
                                messages[n].payload \in names})
    IN  [i \in DOMAIN shown |->
            [section |-> IF consumed THEN "consumed" ELSE "published",
             card |-> shown[i], schema |-> messages[shown[i]].payload]]

\* renderSchema shows one for every schema.
SchemaTables(names) ==
    LET shown == sortedKeys(names)
    IN  [i \in DOMAIN shown |->
            [section |-> "schemas", card |-> shown[i], schema |-> shown[i]]]

\* renderPage: the tables in the order they are written.
renderPage(spec) ==
    MessageTables(spec.messages, spec.names, FALSE)
        \o MessageTables(spec.messages, spec.names, TRUE)
        \o SchemaTables(spec.names)
=============================================================================
