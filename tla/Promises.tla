------------------------------ MODULE Promises ------------------------------
(* What the driver says of itself, in answers that depend on nothing but    *)
(* what was asked: Catalog and Attributes together.                         *)
EXTENDS Catalog, Attributes

PromisesSpec == NotCalled /\ [][CatalogCall \/ AttributeCall]_call

\* What the driver says of itself is so: the functions it reports are there,
\* the schemas it reports are used, and the attributes it lets be set are
\* what was set.
PromisesKept == ImplementedAsAnnounced /\ AttributesReadBack
=============================================================================
