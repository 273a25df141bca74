----------------------------- MODULE MCLogStream -----------------------------
EXTENDS LogStream

TwoContainers == {"sonarr", "qbittorrent"}
=============================================================================
