--------------------------- MODULE MCGeneratedSpecs ---------------------------
EXTENDS GeneratedSpecs

\* A resource in every area, alone or below a parent, plural or singular, with an
\* owner or without, and columns of every kind.
Areas == {<<>>, <<Ancestor("namespace", "admin")>>, <<Ancestor("namespace", "internal")>>}
Parents == {<<>>, <<Ancestor("resources", "posts")>>,
            <<Ancestor("resources", "posts"), Ancestor("resources", "comments")>>}
ColumnSet ==
    {Column("title", "citext", FALSE), Column("type", "enum", FALSE), Column("starts", "time", TRUE),
     Column("starts", "time", FALSE),
     [Column("days", "date", FALSE) EXCEPT !.array = TRUE], Column("uuid", "uuid", TRUE), Column("createdAt", "datetime", FALSE),
     [Column("owner", "string", FALSE) EXCEPT !.polymorphic = TRUE]}
ScaffoldSet ==
    {[ancestors |-> area \o parents, method |-> method, name |-> "items", only |-> only,
      actions |-> {"index", "create", "destroy"}, owning |-> owning, columns |-> columns \cup owner] :
        area \in Areas, parents \in Parents, method \in {"resources", "resource"}, only \in BOOLEAN,
        owning \in {NoOwner, "posts"}, columns \in {cs \in SUBSET ColumnSet : Cardinality(cs) <= 2},
        owner \in {{}, {Column("user", "belongs_to", FALSE)}, {Column("posts", "belongs_to", FALSE)},
                   {Column("internalUser", "belongs_to", FALSE), Column("posts", "belongs_to", TRUE)}}}
=============================================================================
