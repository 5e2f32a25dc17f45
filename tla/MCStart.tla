------------------------------ MODULE MCStart ------------------------------
(* Instances of Start for TLC: the workers of gunicorn in                  *)
(* docker-compose.demo.yml, one Celery worker, the standalone upgrade.     *)
EXTENDS Start

CONSTANTS g1, g2
=============================================================================
