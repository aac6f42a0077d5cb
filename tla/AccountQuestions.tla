--------------------------- MODULE AccountQuestions ---------------------------
(***************************************************************************)
(* The texts that the catalog of accounts, as it was loaded, is asked      *)
(* about (FinancialAccountCatalog in                                       *)
(* src/src/disclosure_db/financial_accounts.py).                           *)
(***************************************************************************)
EXTENDS AccountResolution

CONSTANTS
    Catalog,        \* the catalog, read from its file
    Characters,     \* what texts and surfaces are made of
    Texts           \* the texts that are asked about

VARIABLE
    text            \* one of them

\* The file was accepted by the constructor, and has texts where texts belong.
ASSUME CatalogAssumption == CatalogValid(Catalog) /\ SurfacesKnown(Catalog, Characters)

ASSUME TextsAssumption == \A t \in Texts : t \in Seq(Characters)

ResolveInit == text \in Texts

ResolveSpec == ResolveInit /\ [][UNCHANGED text]_text

-----------------------------------------------------------------------------
(* Properties                                                               *)

\* Whatever the text, it is answered about an account only when it names no other
\* one (resolve, _matches and _non_shadowed).
AccountsCertain == ResolutionSound(Catalog, text)
===============================================================================
