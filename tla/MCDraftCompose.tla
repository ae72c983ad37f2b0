---------------------------- MODULE MCDraftCompose ----------------------------
EXTENDS DraftCompose
=============================================================================
