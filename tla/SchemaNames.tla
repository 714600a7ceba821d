----------------------------- MODULE SchemaNames -----------------------------
(***************************************************************************)
(* The schema a tenant id stands for.  TenantConnectionService.getSchema-  *)
(* Name decides which schema is created and used; QuickStartDto says which *)
(* ids the onboarding form lets through.  The prefix "tenant_" is left     *)
(* out.                                                                    *)
(*                                                                         *)
(* An id is a sequence of characters, one for each class the conversions   *)
(* tell apart.  The two ids of a state grow one character at a time, so    *)
(* that the reachable states are all pairs of ids up to MaxLength.         *)
(***************************************************************************)
EXTENDS Naturals, Sequences, FiniteSets

CONSTANTS
    Width,      \* the literal 50 of getSchemaName's slice
    SlugMin, SlugMax,  \* the literals 3 and 50 of the form's @Length
    MaxLength   \* bound on the length of an id

\* The form admits no id that the slice would cut.
ASSUME SchemaNamesConstants ==
    /\ Width \in Nat /\ SlugMin \in Nat /\ SlugMax \in Nat /\ MaxLength \in Nat
    /\ SlugMax <= Width

VARIABLES id, other

vars == <<id, other>>

\* A letter in both cases, a dash, an underscore, and any other character.
Chars == {"x", "X", "-", "_", "."}

Init == id = <<>> /\ other = <<>>

Grow(c) == \/ Len(id) < MaxLength /\ id' = Append(id, c) /\ UNCHANGED other
           \/ Len(other) < MaxLength /\ other' = Append(other, c) /\ UNCHANGED id

Next == \E c \in Chars : Grow(c)

Spec == Init /\ [][Next]_vars

-----------------------------------------------------------------------------
(* The conversions.                                                        *)

Lower(c) == IF c = "X" THEN "x" ELSE c

\* .toLowerCase().replace(/[^a-z0-9-_]/g, '_')
Sanitize(s) == [i \in DOMAIN s |-> IF s[i] = "." THEN "_" ELSE Lower(s[i])]

\* .replace(/_{2,}/g, '_'): of adjacent underscores the first is kept.
Kept(s)     == {i \in DOMAIN s :
                   \A j \in DOMAIN s : j + 1 = i /\ s[i] = "_" => s[j] # "_"}
Place(k, i) == Cardinality({j \in k : j <= i})
At(k, n)    == CHOOSE i \in k : Place(k, i) = n
Collapse(s) == [n \in 1 .. Cardinality(Kept(s)) |-> s[At(Kept(s), n)]]

Slice(s, n) == SubSeq(s, 1, IF Len(s) < n THEN Len(s) ELSE n)

\* Mutants: the slice is shorter than what the form admits; underscores are
\* collapsed before the other characters have become underscores.
GetSchemaNameMutantShorter(s) == Slice(Collapse(Sanitize(s)), Width - 1)
GetSchemaNameMutantOrder(s) == Slice(Sanitize(Collapse(s)), Width)

\* No white space is left for .trim() to remove.
GetSchemaName(s) == Slice(Collapse(Sanitize(s)), Width)

\* @Length(3, 50) @Matches(/^[a-z0-9-]+$/)
Slug(s) == /\ Len(s) \in SlugMin .. SlugMax
           /\ \A i \in DOMAIN s : s[i] \in {"x", "-"}

-----------------------------------------------------------------------------
(* Properties.                                                             *)

\* Stores created through the onboarding form never share a schema: the form admits
\* no character that getSchemaName merges and no length that it cuts.
SlugsNeverCollide ==
    Slug(id) /\ Slug(other) /\ id # other => GetSchemaName(id) # GetSchemaName(other)

\* Collapsing comes after sanitising and cutting comes last, so a name is not longer
\* than Width, holds no doubled underscore, and converting it again changes nothing.
NamesAreCanonical ==
    LET name == GetSchemaName(id)
    IN  /\ Len(name) <= Width
        /\ \A i \in 1 .. Len(name) - 1 : name[i] = "_" => name[i + 1] # "_"
        /\ GetSchemaName(name) = name

===============================================================================
