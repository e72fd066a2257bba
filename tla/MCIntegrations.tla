--------------------------- MODULE MCIntegrations ---------------------------
(* Integrations on small instances. *)
EXTENDS Integrations

\* Some of each kind, more than fit, the name Write uses itself, and two
\* keys that are too long and begin alike.
MCFieldLists ==
    {<<"trace_id", "b", "opaque">>, <<"a", "b", "c">>, <<"time", "a">>, <<"long1", "long2">>}

MCCutKey ==
    [key \in {"a", "b", "c", "time", "logger", "long1", "long2"} |->
        IF key \in {"long1", "long2"} THEN "long" ELSE key]

\* AppendFields, one field after the other as appendFields goes.
AppendInTurn(context, fields) ==
    FoldLeft(LAMBDA dst, key :
                IF Cardinality(dst) < MaxFields /\ IsContextKey(key) THEN dst \cup {key} ELSE dst,
             context, fields)

ASSUME AppendsInTurn ==
    LET keys == {"a", "b", "c", "time", "trace_id"}
    IN  \A n \in 0..4 : \A fields \in [1..n -> keys], context \in SUBSET {"a", "b", "d"} :
            AppendFields(context, fields) = AppendInTurn(context, fields)

\* The keys sanitizeContext takes, one after the other in this order.
TakenInTurn(order) ==
    FoldLeft(LAMBDA taken, key :
                IF Cardinality(CutKeys(taken)) >= MaxFields THEN taken ELSE taken \cup {key},
             {}, order)

ASSUME SanitizesInTurn ==
    \A context \in SUBSET DOMAIN CutKey :
        LET orders == {f \in [1..Cardinality(context) -> context] : ToSet(f) = context}
        IN  Cardinality(context) <= 4 =>
                {taken \in SUBSET context : Sanitizes(context, taken)}
                    = {TakenInTurn(order) : order \in orders}
=============================================================================
