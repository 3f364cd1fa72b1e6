----------------------------- MODULE MCCatalog ------------------------------
EXTENDS Catalog

CONSTANTS a, b, long  \* attribute names

\* All lists of one or two attributes, an attribute twice among them.
MCAttrLists == UNION {[1 .. n -> Attrs] : n \in 1 .. 2}

\* One attribute, and a second one that is the same or too long.
MCFaultLists == {<<a>>, <<a, a>>, <<a, long>>}

\* Catalogs of one page, attrcat alone of more than one, and relcat alone.
MCOnePage == [rel |-> 1, attr |-> 1]
MCAttrPages == [rel |-> 1, attr |-> 2]
MCRelPages == [rel |-> 2, attr |-> 1]
=============================================================================
