---------------------------- MODULE MCSchemaTree ----------------------------
EXTENDS SchemaTree
=============================================================================
