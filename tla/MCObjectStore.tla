--------------------------- MODULE MCObjectStore ---------------------------
EXTENDS ObjectStore

CONSTANTS evidence, media

MCObjects == {evidence, media}
MCForeign == {media}
=============================================================================
