---------------------------- MODULE MCConfigStore ----------------------------
EXTENDS ConfigStore

MCData == Config
MCDefault == [s \in Setting |-> FALSE]

=============================================================================
