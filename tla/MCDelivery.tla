----------------------------- MODULE MCDelivery -----------------------------
EXTENDS Delivery, TLC
=============================================================================
