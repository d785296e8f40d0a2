------------------------------ MODULE MCLighthouse ------------------------------
EXTENDS Lighthouse
===============================================================================
