----------------------------- MODULE MCLiveFeed -----------------------------
EXTENDS LiveFeed
MCPrices == {1, 2}
=============================================================================
