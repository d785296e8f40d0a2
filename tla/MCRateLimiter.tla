----------------------------- MODULE MCRateLimiter -----------------------------
EXTENDS RateLimiter
===============================================================================
