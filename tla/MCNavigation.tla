---------------------------- MODULE MCNavigation ----------------------------
\* Instance of Navigation: the category the code starts with, one whose first section is a
\* table, and one that is all behind sudo.
EXTENDS Navigation

MCCategoryList == <<"Overview", "Operations", "Security">>
=============================================================================
