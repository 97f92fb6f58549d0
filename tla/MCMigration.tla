------------------------------ MODULE MCMigration ------------------------------
EXTENDS Migration
CONSTANTS daemon, cli
=============================================================================
