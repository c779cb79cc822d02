-------------------------- MODULE MCWorldDatabase --------------------------
EXTENDS WorldDatabaseClient

CONSTANTS g1, g2, page

MCGenerations == {g1, g2}
MCTopics == {page}

=============================================================================
